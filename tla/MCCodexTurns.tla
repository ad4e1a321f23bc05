---------------------------- MODULE MCCodexTurns ----------------------------
(* Instances of CodexTurns for model checking. *)
EXTENDS CodexTurns, TLC

CONSTANTS t1, t2, w1, w2

\* The default limit and two workspaces, with interrupts; a higher limit and one
\* workspace, where a turn asks and its thread is archived.
OneAtATime   == [limit |-> 1, workspace |-> (t1 :> w1) @@ (t2 :> w2),
                 asking |-> {}, archiving |-> {}, interrupts |-> Interrupts]
OneWorkspace == [limit |-> 2, workspace |-> (t1 :> w1) @@ (t2 :> w1),
                 asking |-> {t1}, archiving |-> {t1}, interrupts |-> {}]

BothSetups == {OneAtATime, OneWorkspace}
OnlyDefault == {OneAtATime}
OnlyOneWorkspace == {OneWorkspace}
==============================================================================
