--------------------------- MODULE MCBinaryReplace ---------------------------
EXTENDS BinaryReplace, TLC

CONSTANTS a, b, r, q, old, older, new, newer

\* Two update jobs install different binaries, two restores bring different ones back.
Puts == [w \in Writers |->
            CASE w = a -> new [] w = b -> newer [] w = r -> old [] OTHER -> older]

\* Inodes differ by number only.
Symmetry == Permutations(Inodes)
=============================================================================
