----------------------------- MODULE MCGameFlow -----------------------------
(* TLC instance of GameFlow: one session that may log in twice or enter two *)
(* fields, and one that goes the normal way.                                *)
EXTENDS GameFlow

CONSTANTS s1, s2, f1, f2

MCSessions == {s1, s2}
MCFields == {f1, f2}
MCWanted == [s \in Sessions |-> IF s = s1 THEN Fields ELSE {f1}]

\* Either the second session logs in and enters, and the first does one thing
\* twice; or the first also moves after that (which takes four packets: a
\* player that moves in both its fields, or input after a second login), and
\* the second only logs in.
MCLoads ==
    { [s \in Sessions |-> IF s = s1 THEN 3 ELSE 2],
      [s \in Sessions |-> IF s = s1 THEN 4 ELSE 1] }
=============================================================================
