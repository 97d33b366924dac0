----------------------------- MODULE MCMonsterAI ----------------------------
(* TLC instance of MonsterAI: distances and times scaled down in the order  *)
(* they have in the code.  Melee: 1.3 < 11 < 15.4 < 16; archers: 11.9 < 17  *)
(* < 18 < 22 < 25.2.  Times: 4 ticks < 9 < 10.                              *)
EXTENDS MonsterAI

MCReach == [a \in BOOLEAN |-> IF a THEN 2 ELSE 1]
MCSight == [a \in BOOLEAN |-> 3]
MCDisengage == [a \in BOOLEAN |-> IF a THEN 5 ELSE 3]
MCFleeEnd == [a \in BOOLEAN |-> 4]
MCPace == [s \in Speeds |-> IF s = "none" THEN 0 ELSE IF s = "default" THEN 2 ELSE 1]
=============================================================================
