--------------------------- MODULE MCFieldWorker ---------------------------
(* TLC instance of FieldWorker: sectors of side 2 in a row.                 *)
EXTENDS FieldWorker, TLC

\* The entry, a point of the next sector, and one out of view of the entry:
\* every pair of neighbours keeps or loses sight of the others by one step.
MCPositions == { <<0, 0>>, <<3, 1>>, <<5, 1>> }

MCEntry == <<0, 0>>

MCSpawnAt == [m \in Monsters |-> <<5, 1>>]

Symmetry == Permutations(Players) \cup Permutations(Monsters)
=============================================================================
