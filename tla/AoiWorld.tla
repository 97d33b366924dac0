------------------------------ MODULE AoiWorld ------------------------------
(***************************************************************************)
(* The area-of-interest grid of one field (field/AoiWorld.cpp).            *)
(*                                                                         *)
(* The map is cut into square sectors.  A sector knows the entities in it  *)
(* and the players that subscribe to it; a player subscribes to every      *)
(* sector within ViewRadius of its own.  The class answers each operation  *)
(* with Snapshot, Enter, Move and Leave events, passed one by one to a     *)
(* send callback; what a watcher knows of the field is the effect of the   *)
(* events it was sent, and that is what the properties are about.          *)
(*                                                                         *)
(* Abstractions.                                                           *)
(*  - Positions are integer points.  The code's floats matter only through *)
(*    the floor in world_to_sector.                                        *)
(*  - Entity::sector is assigned with Entity::pos, always to               *)
(*    world_to_sector(pos), so it is not a variable: SectorOf(pos[i]).     *)
(*  - The sets of the sectors are kept per entity: occupied[i] is the set  *)
(*    of sectors whose `entities' contain i, watched[w] the set of sectors *)
(*    whose `watchers' contain w.  They are updated separately from pos    *)
(*    and subscribed, as in the code, and may disagree with them.          *)
(*  - Snapshot, Enter and Move all tell a watcher where a subject is (they *)
(*    become EnterField or Move packets that carry the position), Leave    *)
(*    hides it.  Every tell of an operation follows the leaves it could be *)
(*    confused with (l. 286 before l. 306, l. 112 before l. 146), so an    *)
(*    operation is the pair of what it tells and what it hides.  Which of  *)
(*    the tells are Enter or Snapshot and which are Move is kept apart in  *)
(*    MoveEntered and MoveMoved, and recorded by AoiEvents.                *)
(***************************************************************************)
EXTENDS Integers, FiniteSets

CONSTANTS
    Players,     \* ids of player entities (isPlayer = true)
    Monsters,    \* ids of monster entities (id >= 1000 in fieldWorker.cpp)
    Positions,   \* the points entities are put at, <<x, y>>
    SectorSize,  \* sectorSize_
    ViewRadius,  \* viewRadius_: 1 is 3x3 sectors, 2 is 5x5
    Absent       \* "no position": not in entities_, or not in view

Id == Players \cup Monsters

ASSUME KindsAssumption == Players \cap Monsters = {}
ASSUME PositionsAssumption == Positions \subseteq Int \X Int /\ Absent \notin Positions
ASSUME GridAssumption == SectorSize \in Nat \ {0} /\ ViewRadius \in Nat \ {0}

VARIABLES
    pos,         \* entities_: where each entity is, Absent if it has no entry
    subscribed,  \* Entity::subscribed of each player
    occupied,    \* occupied[i]: the sectors c with i in sectors_[c].entities
    watched,     \* watched[w]: the sectors c with w in sectors_[c].watchers
    shown        \* shown[w][s]: where the events sent to w left s

vars == <<pos, subscribed, occupied, watched, shown>>

-----------------------------------------------------------------------------
(* Geometry. *)

Sectors == Nat \X Nat
\* Fault: the clamp is missing.
NoClamp(n) == n

\* world_to_sector: the floor of both coordinates, clamped at 0, so that
\* everything left of or below the origin shares the border sectors.
Clamp(n) == IF n < 0 THEN 0 ELSE n

SectorOf(p) == <<Clamp(p[1] \div SectorSize), Clamp(p[2] \div SectorSize)>>

\* collect_view_sectors: the square around c, without negative coordinates.
View(c) ==
    { d \in ((c[1] - ViewRadius)..(c[1] + ViewRadius))
              \X ((c[2] - ViewRadius)..(c[2] + ViewRadius)) :
        d[1] >= 0 /\ d[2] >= 0 }

-----------------------------------------------------------------------------
(* What one operation sends.  Events are pairs <<watcher, subject>>. *)

Present(where) == { i \in Id : where[i] # Absent }

\* broadcast_to_sector_watchers: every watcher of sector c but the subject.
ToWatchers(wat, c, i) == { <<w, i>> : w \in { v \in Players \ {i} : c \in wat[v] } }

\* The Leave half of rebuild_player_subscriptions: the entities of a sector
\* player p gives up, unless their own sector stays in its new view.
GivenUp(p, lost, view, where, occ) ==
    { <<p, o>> : o \in { i \in Present(where) \ {p} :
                           /\ occ[i] \cap lost # {}
                           /\ SectorOf(where[i]) \notin view } }

\* The Snapshot half: the entities of every sector it starts to watch.
Snapshots(p, gained, where, occ) ==
    { <<p, o>> : o \in { i \in Present(where) \ {p} : occ[i] \cap gained # {} } }
\* Fault: a given-up sector keeps the player among its watchers.
RebuiltKeepsOld(p, subs, view) == watched[p] \cup (view \ subs)

\* Watched sectors of p after a rebuild from the subscriptions `subs'.
Rebuilt(p, subs, view) == (watched[p] \ (subs \ view)) \cup (view \ subs)

\* What the watchers know, if they knew `known', after these events.
Deliver(known, told, left, where) ==
    [w \in Players |-> [s \in Id |->
        IF <<w, s>> \in told THEN where[s]
        ELSE IF <<w, s>> \in left THEN Absent
        ELSE known[w][s]]]

-----------------------------------------------------------------------------
(* add_entity(id, isPlayer, pos).  A fresh Entity overwrites whatever       *)
(* entities_[id] held, so the rebuild starts from no subscription at all.   *)

AddWatched(i, p) ==
    IF i \in Players
    THEN [watched EXCEPT ![i] = Rebuilt(i, {}, View(SectorOf(p)))]
    ELSE watched

AddOccupied(i, p) == [occupied EXCEPT ![i] = @ \cup {SectorOf(p)}]

AddTold(i, p) ==
    ToWatchers(AddWatched(i, p), SectorOf(p), i)
      \cup (IF i \in Players
            THEN Snapshots(i, View(SectorOf(p)), [pos EXCEPT ![i] = p],
                           AddOccupied(i, p))
            ELSE {})

AddEntity(i, p) ==
    /\ pos' = [pos EXCEPT ![i] = p]
    /\ occupied' = AddOccupied(i, p)
    /\ watched' = AddWatched(i, p)
    /\ subscribed' = IF i \in Players
                     THEN [subscribed EXCEPT ![i] = View(SectorOf(p))]
                     ELSE subscribed
    /\ shown' = Deliver(shown, AddTold(i, p), {}, [pos EXCEPT ![i] = p])

-----------------------------------------------------------------------------
(* remove_entity(id).  Nothing is sent to the removed player itself: its    *)
(* client is gone, and starts from an empty scene if it ever comes back.    *)

RemoveLeft(i) == ToWatchers(watched, SectorOf(pos[i]), i)

RemoveEntity(i) ==
    /\ pos[i] # Absent
    /\ pos' = [pos EXCEPT ![i] = Absent]
    /\ occupied' = [occupied EXCEPT ![i] = @ \ {SectorOf(pos[i])}]
    /\ IF i \in Players
       THEN /\ watched' = [watched EXCEPT ![i] = @ \ subscribed[i]]
            /\ subscribed' = [subscribed EXCEPT ![i] = {}]
            /\ shown' = [Deliver(shown, {}, RemoveLeft(i), pos)
                           EXCEPT ![i] = [s \in Id |-> Absent]]
       ELSE /\ shown' = Deliver(shown, {}, RemoveLeft(i), pos)
            /\ UNCHANGED <<watched, subscribed>>

-----------------------------------------------------------------------------
(* move_entity(id, newPos): the sector sets, then the mover's own           *)
(* subscriptions, then Leave to the watchers of the old sector only, Enter  *)
(* to those of the new sector only, Move to all of the new sector and, if   *)
(* it is a player, to the mover itself.                                     *)
\* Fault: leave_sector is called with the new sector.
MoveOccupiedLeavesNew(i, p) ==
    [occupied EXCEPT ![i] =
        IF SectorOf(p) = SectorOf(pos[i]) THEN @
        ELSE (@ \ {SectorOf(p)}) \cup {SectorOf(p)}]

MoveOccupied(i, p) ==
    [occupied EXCEPT ![i] =
        IF SectorOf(p) = SectorOf(pos[i]) THEN @
        ELSE (@ \ {SectorOf(pos[i])}) \cup {SectorOf(p)}]

MoveWatched(i, p) ==
    IF i \in Players
    THEN [watched EXCEPT ![i] = Rebuilt(i, subscribed[i], View(SectorOf(p)))]
    ELSE watched

\* Fault: every watcher of the new sector is sent an Enter.
MoveEnteredAll(i, p) ==
    ToWatchers(MoveWatched(i, p), SectorOf(p), i)
      \cup (IF i \in Players
            THEN Snapshots(i, View(SectorOf(p)) \ subscribed[i],
                           [pos EXCEPT ![i] = p], MoveOccupied(i, p))
            ELSE {})

MoveEntered(i, p) ==
    (ToWatchers(MoveWatched(i, p), SectorOf(p), i)
        \ ToWatchers(MoveWatched(i, p), SectorOf(pos[i]), i))
      \cup (IF i \in Players
            THEN Snapshots(i, View(SectorOf(p)) \ subscribed[i],
                           [pos EXCEPT ![i] = p], MoveOccupied(i, p))
            ELSE {})

MoveMoved(i, p) ==
    ToWatchers(MoveWatched(i, p), SectorOf(p), i)
      \cup (IF i \in Players THEN {<<i, i>>} ELSE {})

MoveTold(i, p) == MoveEntered(i, p) \cup MoveMoved(i, p)
\* Fault: a moving player is not told what its move hid from it.
MoveLeftOthersOnly(i, p) ==
    ToWatchers(MoveWatched(i, p), SectorOf(pos[i]), i)
        \ ToWatchers(MoveWatched(i, p), SectorOf(p), i)

MoveLeft(i, p) ==
    (ToWatchers(MoveWatched(i, p), SectorOf(pos[i]), i)
        \ ToWatchers(MoveWatched(i, p), SectorOf(p), i))
      \cup (IF i \in Players
            THEN GivenUp(i, subscribed[i] \ View(SectorOf(p)), View(SectorOf(p)),
                         [pos EXCEPT ![i] = p], MoveOccupied(i, p))
            ELSE {})

MoveEntity(i, p) ==
    /\ pos[i] # Absent
    /\ pos' = [pos EXCEPT ![i] = p]
    /\ occupied' = MoveOccupied(i, p)
    /\ watched' = MoveWatched(i, p)
    /\ subscribed' = IF i \in Players
                     THEN [subscribed EXCEPT ![i] = View(SectorOf(p))]
                     ELSE subscribed
    /\ shown' = Deliver(shown, MoveTold(i, p), MoveLeft(i, p), [pos EXCEPT ![i] = p])

-----------------------------------------------------------------------------
(* update_player_aoi(playerId): the rebuild alone.                          *)

UpdatePlayerAoi(i) ==
    LET view == View(SectorOf(pos[i])) IN
    /\ i \in Players
    /\ pos[i] # Absent
    /\ watched' = [watched EXCEPT ![i] = Rebuilt(i, subscribed[i], view)]
    /\ subscribed' = [subscribed EXCEPT ![i] = view]
    /\ shown' = Deliver(shown, Snapshots(i, view \ subscribed[i], pos, occupied),
                        GivenUp(i, subscribed[i] \ view, view, pos, occupied),
                        pos)
    /\ UNCHANGED <<pos, occupied>>

-----------------------------------------------------------------------------
(* The specification.  Callers add an entity that is not in the grid: the   *)
(* monster spawner removes before it adds (fieldWorker.cpp l. 489-493) and  *)
(* a player is added when it enters the field.  FieldWorker drops this      *)
(* discipline where the code does.                                          *)

Init ==
    /\ pos = [i \in Id |-> Absent]
    /\ subscribed = [w \in Players |-> {}]
    /\ occupied = [i \in Id |-> {}]
    /\ watched = [w \in Players |-> {}]
    /\ shown = [w \in Players |-> [s \in Id |-> Absent]]

Next ==
    \E i \in Id :
        \/ pos[i] = Absent /\ \E p \in Positions : AddEntity(i, p)
        \/ RemoveEntity(i)
        \/ \E p \in Positions : MoveEntity(i, p)
        \/ UpdatePlayerAoi(i)

Spec == Init /\ [][Next]_vars

-----------------------------------------------------------------------------
(* Properties. *)

\* Type invariant.
TypeOK ==
    /\ pos \in [Id -> Positions \cup {Absent}]
    /\ subscribed \in [Players -> SUBSET Sectors]
    /\ occupied \in [Id -> SUBSET Sectors]
    /\ watched \in [Players -> SUBSET Sectors]
    /\ shown \in [Players -> [Id -> Positions \cup {Absent}]]

\* The entity sets of the sectors agree with where the entities are: an
\* entity is filed in the one sector its position falls in, and in none once
\* it is removed (enter_sector and leave_sector are called in pairs, by
\* three operations that each work out the sector to leave).
OccupancyExact ==
    \A i \in Id : occupied[i] = IF pos[i] = Absent THEN {} ELSE {SectorOf(pos[i])}

\* The watcher sets of the sectors agree with the players' subscriptions,
\* and both with the view square around the player, however it got there:
\* the incremental rebuild never leaves a sector behind or misses one.
SubscriptionsExact ==
    \A w \in Players :
        /\ watched[w] = subscribed[w]
        /\ subscribed[w] = IF pos[w] = Absent THEN {} ELSE View(SectorOf(pos[w]))

InView(p, q) == SectorOf(q) \in View(SectorOf(p))

Sees(w, s) == pos[w] # Absent /\ pos[s] # Absent /\ InView(pos[w], pos[s])

\* What a player was told by the events is the truth about its view: every
\* other entity whose sector is in the player's view is shown, at its current
\* position, and nothing else is.  No Enter, Move or Leave is missing, none
\* is sent to the wrong watcher and none is sent in the wrong order, whoever
\* moved: the subject, the watcher, or both in turn.  The echo of its own
\* moves never leaves a player with a stale position of itself.
ViewExact ==
    \A w \in Players :
        /\ shown[w][w] \in {Absent, pos[w]}
        /\ \A s \in Id \ {w} :
               shown[w][s] = IF Sees(w, s) THEN pos[s] ELSE Absent
=============================================================================
