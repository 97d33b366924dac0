----------------------------- MODULE MCAoiWorld -----------------------------
(* TLC instance of AoiEvents, and with it of AoiWorld: a grid of 4 x 2      *)
(* sectors of side 2.                                                       *)
EXTENDS AoiEvents, TLC

\* Two points share the border sector (one of them left of the origin); the
\* others put neighbours, diagonal neighbours and sectors two and three apart
\* on the map, so that with ViewRadius 1 one step can stay in its sector, or
\* keep, gain or lose some or all of those who see the mover.
MCPositions == { <<-1, 0>>, <<1, 1>>, <<3, 1>>, <<5, 3>>, <<7, 1>> }

Symmetry == Permutations(Players) \cup Permutations(Monsters)
=============================================================================
