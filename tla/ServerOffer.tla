----------------------------- MODULE ServerOffer -----------------------------
(***************************************************************************)
(* What users of AppServerSupervisor.Client rely on: at any time one        *)
(* app-server or none is offered, and one that was offered before and is    *)
(* not offered now never comes back. A process is named by the request      *)
(* that launched it.                                                        *)
(***************************************************************************)
CONSTANTS
    Servers,    \* app-server processes that may ever be launched
    None        \* Client() returns nil

VARIABLES
    offered,    \* what Client() returns
    spent       \* servers that have been offered, or never will be

TypeOK == offered \in Servers \cup {None} /\ spent \subseteq Servers

Init == offered = None /\ spent = {}

Offer(g) == /\ g \notin spent
            /\ offered' = g
            /\ spent' = spent \cup {g}

Discard(gone) == /\ offered' = None
                 /\ spent' = spent \cup gone

GiveUp(g) == spent' = spent \cup {g} /\ UNCHANGED offered

Next == \/ \E g \in Servers : Offer(g) \/ GiveUp(g) \/ Discard({g})
        \/ Discard({})

Spec == Init /\ [][Next]_<<offered, spent>>
==============================================================================
