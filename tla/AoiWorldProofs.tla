--------------------------- MODULE AoiWorldProofs ---------------------------
(***************************************************************************)
(* Proofs about AoiWorld and AoiEvents, for any finite or infinite set of  *)
(* players, monsters and positions, any sector size and any view radius.   *)
(*                                                                         *)
(* The properties of AoiWorld are inductive together: to know what a       *)
(* watcher is sent one needs that the sector sets say where the entities   *)
(* and the watchers are (OccupancyExact, SubscriptionsExact); to know what *)
(* it then believes one needs what it believed before (ViewExact).         *)
(***************************************************************************)
EXTENDS AoiEvents, TLAPS

IInv == TypeOK /\ OccupancyExact /\ SubscriptionsExact /\ ViewExact

\* world_to_sector yields a sector and the view of a sector is made of sectors.
LEMMA GeometryType ==
    /\ \A p \in Positions : SectorOf(p) \in Sectors
    /\ \A c \in Sectors : View(c) \in SUBSET Sectors
<1>1. ASSUME NEW p \in Positions PROVE SectorOf(p) \in Sectors
  <2>1. p[1] \in Int /\ p[2] \in Int
    BY PositionsAssumption
  <2>2. p[1] \div SectorSize \in Int /\ p[2] \div SectorSize \in Int
    BY <2>1, GridAssumption
  <2> QED BY <2>2 DEF SectorOf, Clamp, Sectors
<1>2. ASSUME NEW c \in Sectors PROVE View(c) \in SUBSET Sectors
  BY GridAssumption DEF View, Sectors
<1> QED BY <1>1, <1>2

\* The invariant holds when the field is empty.
LEMMA InitIInv == Init => IInv
<1> SUFFICES ASSUME Init PROVE IInv
  OBVIOUS
<1>1. TypeOK
  BY DEF Init, TypeOK
<1>2. OccupancyExact /\ SubscriptionsExact
  BY DEF Init, OccupancyExact, SubscriptionsExact, Id
<1>3. ViewExact
  BY DEF Init, ViewExact, Sees, Id
<1> QED BY <1>1, <1>2, <1>3 DEF IInv

\* add_entity of an entity that is not in the grid.
LEMMA AddIInv ==
    ASSUME IInv, NEW i \in Id, NEW p \in Positions, pos[i] = Absent, AddEntity(i, p)
    PROVE  IInv'
<1> DEFINE c == SectorOf(p)
<1>0. c \in Sectors /\ View(c) \in SUBSET Sectors /\ p # Absent
  BY GeometryType, PositionsAssumption
<1>1. /\ pos' = [pos EXCEPT ![i] = p]
      /\ occupied' = [occupied EXCEPT ![i] = {c}]
      /\ subscribed' = IF i \in Players THEN [subscribed EXCEPT ![i] = View(c)]
                       ELSE subscribed
      /\ watched' = IF i \in Players THEN [watched EXCEPT ![i] = View(c)]
                    ELSE watched
  <2>1. occupied[i] = {} /\ (i \in Players => watched[i] = {} /\ subscribed[i] = {})
    BY DEF IInv, OccupancyExact, SubscriptionsExact
  <2> QED BY <2>1 DEF AddEntity, AddOccupied, AddWatched, Rebuilt, IInv, TypeOK
<1>2. shown' = Deliver(shown, AddTold(i, p), {}, pos')
  BY <1>1 DEF AddEntity
<1>3. TypeOK'
  <2>1. pos' \in [Id -> Positions \cup {Absent}]
    BY <1>1 DEF IInv, TypeOK
  <2>2. occupied' \in [Id -> SUBSET Sectors]
    BY <1>0, <1>1 DEF IInv, TypeOK
  <2>3. /\ subscribed' \in [Players -> SUBSET Sectors]
        /\ watched' \in [Players -> SUBSET Sectors]
    BY <1>0, <1>1 DEF IInv, TypeOK
  <2>4. shown' \in [Players -> [Id -> Positions \cup {Absent}]]
    BY <1>2, <2>1 DEF IInv, TypeOK, Deliver
  <2> QED BY <2>1, <2>2, <2>3, <2>4 DEF TypeOK
<1>4. OccupancyExact'
  BY <1>0, <1>1 DEF IInv, TypeOK, OccupancyExact
<1>5. SubscriptionsExact'
  BY <1>0, <1>1 DEF IInv, TypeOK, SubscriptionsExact, Id
<1>6. ViewExact'
  <2> SUFFICES ASSUME NEW w \in Players
               PROVE  /\ shown'[w][w] \in {Absent, pos'[w]}
                      /\ \A s \in Id \ {w} :
                           shown'[w][s] = IF Sees(w, s)' THEN pos'[s] ELSE Absent
    BY DEF ViewExact
  <2>0. w \in Id
    BY DEF Id
  <2>1. \A s \in Id :
          shown'[w][s] = IF <<w, s>> \in AddTold(i, p) THEN pos'[s] ELSE shown[w][s]
    BY <1>2, <2>0 DEF Deliver
  <2>2. \A s \in Id :
          <<w, s>> \in AddTold(i, p) <=>
             \/ s = i /\ w # i /\ c \in watched'[w]
             \/ w = i /\ s # i /\ pos'[s] # Absent /\ occupied'[s] \cap View(c) # {}
    <3>1. AddTold(i, p) =
            ToWatchers(watched', c, i)
              \cup (IF i \in Players THEN Snapshots(i, View(c), pos', occupied') ELSE {})
      BY <1>1 DEF AddTold, AddEntity
    <3> QED BY <3>1 DEF ToWatchers, Snapshots, Present
  <2>3. shown'[w][w] \in {Absent, pos'[w]}
    <3>1. shown'[w][w] = shown[w][w]
      BY <2>0, <2>1, <2>2
    <3>2. shown[w][w] \in {Absent, pos[w]}
      BY DEF IInv, ViewExact
    <3> QED BY <1>1, <2>0, <3>1, <3>2 DEF IInv, TypeOK
  <2>4. ASSUME NEW s \in Id \ {w}
        PROVE  shown'[w][s] = IF Sees(w, s)' THEN pos'[s] ELSE Absent
    <3>1. shown[w][s] = IF Sees(w, s) THEN pos[s] ELSE Absent
      BY DEF IInv, ViewExact
    <3>2. CASE w = i
      <4>1. pos'[s] = pos[s] /\ occupied'[s] = occupied[s] /\ pos'[w] = p
        BY <1>1, <3>2, <2>0 DEF IInv, TypeOK
      <4>2. shown[w][s] = Absent
        BY <3>1, <3>2 DEF Sees
      <4>3. pos[s] # Absent => (occupied[s] \cap View(c) # {} <=> SectorOf(pos[s]) \in View(c))
        BY DEF IInv, OccupancyExact
      <4> QED BY <1>0, <2>1, <2>2, <3>2, <4>1, <4>2, <4>3 DEF Sees, InView
    <3>3. CASE s = i
      <4>1. pos'[w] = pos[w] /\ watched'[w] = watched[w] /\ pos'[s] = p
        BY <1>1, <3>3, <2>0 DEF IInv, TypeOK
      <4>2. c \in watched[w] <=> pos[w] # Absent /\ c \in View(SectorOf(pos[w]))
        BY DEF IInv, SubscriptionsExact
      <4>3. shown[w][s] = Absent
        BY <3>1, <3>3 DEF Sees
      <4> QED BY <1>0, <2>1, <2>2, <3>3, <4>1, <4>2, <4>3 DEF Sees, InView
    <3>4. CASE w # i /\ s # i
      <4>1. pos'[w] = pos[w] /\ pos'[s] = pos[s]
        BY <1>1, <3>4, <2>0 DEF IInv, TypeOK
      <4> QED BY <2>1, <2>2, <3>1, <3>4, <4>1 DEF Sees
    <3> QED BY <3>2, <3>3, <3>4
  <2> QED BY <2>3, <2>4
<1> QED BY <1>3, <1>4, <1>5, <1>6 DEF IInv

\* remove_entity of an entity that is in the grid.
LEMMA RemoveIInv ==
    ASSUME IInv, NEW i \in Id, RemoveEntity(i)
    PROVE  IInv'
<1> DEFINE c == SectorOf(pos[i])
<1>0. pos[i] # Absent /\ pos[i] \in Positions
  BY DEF RemoveEntity, IInv, TypeOK
<1>1. /\ pos' = [pos EXCEPT ![i] = Absent]
      /\ occupied' = [occupied EXCEPT ![i] = {}]
      /\ subscribed' = IF i \in Players THEN [subscribed EXCEPT ![i] = {}] ELSE subscribed
      /\ watched' = IF i \in Players THEN [watched EXCEPT ![i] = {}] ELSE watched
  <2>1. occupied[i] = {c} /\ (i \in Players => watched[i] = subscribed[i])
    BY <1>0 DEF IInv, OccupancyExact, SubscriptionsExact
  <2> QED BY <2>1 DEF RemoveEntity, IInv, TypeOK
<1>2. \A w \in Players : \A s \in Id :
        shown'[w][s] = IF w = i \/ (s = i /\ c \in watched[w]) THEN Absent ELSE shown[w][s]
  <2>1. \A w \in Players : \A s \in Id :
          Deliver(shown, {}, RemoveLeft(i), pos)[w][s] =
            IF s = i /\ w # i /\ c \in watched[w] THEN Absent ELSE shown[w][s]
    BY DEF Deliver, RemoveLeft, ToWatchers
  <2>2. CASE i \in Players
    <3>1. shown' = [Deliver(shown, {}, RemoveLeft(i), pos) EXCEPT ![i] = [s \in Id |-> Absent]]
      BY <2>2 DEF RemoveEntity
    <3>2. \A w \in Players :
            shown'[w] = IF w = i THEN [s \in Id |-> Absent]
                        ELSE Deliver(shown, {}, RemoveLeft(i), pos)[w]
      BY <3>1 DEF Deliver
    <3> QED BY <2>1, <3>2
  <2>3. CASE i \notin Players
    BY <2>1, <2>3 DEF RemoveEntity
  <2> QED BY <2>2, <2>3
<1>3. TypeOK'
  <2>1. pos' \in [Id -> Positions \cup {Absent}] /\ occupied' \in [Id -> SUBSET Sectors]
    BY <1>1 DEF IInv, TypeOK
  <2>2. /\ subscribed' \in [Players -> SUBSET Sectors]
        /\ watched' \in [Players -> SUBSET Sectors]
    BY <1>1 DEF IInv, TypeOK
  <2>3. Deliver(shown, {}, RemoveLeft(i), pos) \in [Players -> [Id -> Positions \cup {Absent}]]
    BY DEF IInv, TypeOK, Deliver
  <2>4. shown' \in [Players -> [Id -> Positions \cup {Absent}]]
    BY <2>3 DEF RemoveEntity
  <2> QED BY <2>1, <2>2, <2>4 DEF TypeOK
<1>4. OccupancyExact'
  BY <1>1 DEF IInv, TypeOK, OccupancyExact
<1>5. SubscriptionsExact'
  BY <1>1 DEF IInv, TypeOK, SubscriptionsExact, Id
<1>6. ViewExact'
  <2> SUFFICES ASSUME NEW w \in Players
               PROVE  /\ shown'[w][w] \in {Absent, pos'[w]}
                      /\ \A s \in Id \ {w} :
                           shown'[w][s] = IF Sees(w, s)' THEN pos'[s] ELSE Absent
    BY DEF ViewExact
  <2>0. w \in Id
    BY DEF Id
  <2>1. \A s \in Id : pos'[s] = IF s = i THEN Absent ELSE pos[s]
    BY <1>1 DEF IInv, TypeOK
  <2>2. shown'[w][w] \in {Absent, pos'[w]}
    BY <1>2, <2>0, <2>1 DEF IInv, ViewExact
  <2>3. ASSUME NEW s \in Id \ {w}
        PROVE  shown'[w][s] = IF Sees(w, s)' THEN pos'[s] ELSE Absent
    <3>1. shown[w][s] = IF Sees(w, s) THEN pos[s] ELSE Absent
      BY DEF IInv, ViewExact
    <3>2. c \in watched[w] <=> pos[w] # Absent /\ c \in View(SectorOf(pos[w]))
      BY DEF IInv, SubscriptionsExact
    <3> QED BY <1>0, <1>2, <2>0, <2>1, <3>1, <3>2 DEF Sees, InView
  <2> QED BY <2>2, <2>3
<1> QED BY <1>3, <1>4, <1>5, <1>6 DEF IInv

\* What a move tells: whoever is sent an Enter is sent the Move as well, so
\* that only the Snapshots add to the Moves.
LEMMA MoveTells ==
    ASSUME NEW i \in Id, NEW p \in Positions
    PROVE  MoveTold(i, p) =
             ToWatchers(MoveWatched(i, p), SectorOf(p), i)
               \cup (IF i \in Players
                     THEN {<<i, i>>} \cup
                          Snapshots(i, View(SectorOf(p)) \ subscribed[i],
                                    [pos EXCEPT ![i] = p], MoveOccupied(i, p))
                     ELSE {})
<1> DEFINE new  == ToWatchers(MoveWatched(i, p), SectorOf(p), i)
           old  == ToWatchers(MoveWatched(i, p), SectorOf(pos[i]), i)
           snap == Snapshots(i, View(SectorOf(p)) \ subscribed[i],
                             [pos EXCEPT ![i] = p], MoveOccupied(i, p))
<1>1. MoveTold(i, p) = ((new \ old) \cup (IF i \in Players THEN snap ELSE {}))
                         \cup (new \cup (IF i \in Players THEN {<<i, i>>} ELSE {}))
  BY DEF MoveTold, MoveEntered, MoveMoved
<1> HIDE DEF new, old, snap
<1>2. MoveTold(i, p) = new \cup (IF i \in Players THEN {<<i, i>>} \cup snap ELSE {})
  BY <1>1
<1> QED BY <1>2 DEF new, snap

\* move_entity of an entity that is in the grid, to any position: its own
\* sector, a neighbour, or one that shares no watcher with the old one.
LEMMA MoveIInv ==
    ASSUME IInv, NEW i \in Id, NEW p \in Positions, MoveEntity(i, p)
    PROVE  IInv'
<1> DEFINE old == SectorOf(pos[i])
           new == SectorOf(p)
<1>0. /\ pos[i] # Absent /\ p # Absent
      /\ new \in Sectors /\ View(new) \in SUBSET Sectors
  BY GeometryType, PositionsAssumption DEF MoveEntity
<1>1. /\ pos' = [pos EXCEPT ![i] = p]
      /\ occupied' = [occupied EXCEPT ![i] = {new}]
      /\ subscribed' = IF i \in Players THEN [subscribed EXCEPT ![i] = View(new)]
                       ELSE subscribed
      /\ watched' = IF i \in Players THEN [watched EXCEPT ![i] = View(new)] ELSE watched
  <2>1. occupied[i] = {old} /\ (i \in Players => watched[i] = subscribed[i])
    BY <1>0 DEF IInv, OccupancyExact, SubscriptionsExact
  <2>2. occupied' = [occupied EXCEPT ![i] = {new}]
    BY <2>1 DEF MoveEntity, MoveOccupied, IInv, TypeOK
  <2>3. i \in Players => Rebuilt(i, subscribed[i], View(new)) = View(new)
    BY <2>1 DEF Rebuilt
  <2> QED BY <2>2, <2>3 DEF MoveEntity, MoveWatched
<1>2. shown' = Deliver(shown, MoveTold(i, p), MoveLeft(i, p), pos')
  BY <1>1 DEF MoveEntity
<1>3. TypeOK'
  <2>1. pos' \in [Id -> Positions \cup {Absent}] /\ occupied' \in [Id -> SUBSET Sectors]
    BY <1>0, <1>1 DEF IInv, TypeOK
  <2>2. /\ subscribed' \in [Players -> SUBSET Sectors]
        /\ watched' \in [Players -> SUBSET Sectors]
    BY <1>0, <1>1 DEF IInv, TypeOK
  <2>3. shown' \in [Players -> [Id -> Positions \cup {Absent}]]
    BY <1>2, <2>1 DEF IInv, TypeOK, Deliver
  <2> QED BY <2>1, <2>2, <2>3 DEF TypeOK
<1>4. OccupancyExact'
  BY <1>0, <1>1 DEF IInv, TypeOK, OccupancyExact
<1>5. SubscriptionsExact'
  BY <1>0, <1>1 DEF IInv, TypeOK, SubscriptionsExact, Id
<1>6. ViewExact'
  <2> SUFFICES ASSUME NEW w \in Players
               PROVE  /\ shown'[w][w] \in {Absent, pos'[w]}
                      /\ \A s \in Id \ {w} :
                           shown'[w][s] = IF Sees(w, s)' THEN pos'[s] ELSE Absent
    BY DEF ViewExact
  <2>0. w \in Id
    BY DEF Id
  <2>1. \A s \in Id :
          shown'[w][s] = IF <<w, s>> \in MoveTold(i, p) THEN pos'[s]
                         ELSE IF <<w, s>> \in MoveLeft(i, p) THEN Absent
                         ELSE shown[w][s]
    BY <1>2, <2>0 DEF Deliver
  <2>2. /\ MoveTold(i, p) =
             ToWatchers(watched', new, i)
               \cup (IF i \in Players
                     THEN {<<i, i>>} \cup
                          Snapshots(i, View(new) \ subscribed[i], pos', occupied')
                     ELSE {})
        /\ MoveLeft(i, p) =
             (ToWatchers(watched', old, i) \ ToWatchers(watched', new, i))
               \cup (IF i \in Players
                     THEN GivenUp(i, subscribed[i] \ View(new), View(new), pos', occupied')
                     ELSE {})
    BY <1>1, MoveTells DEF MoveLeft, MoveEntity
  <2>3. \A s \in Id :
          /\ <<w, s>> \in MoveTold(i, p) <=>
               \/ s = i /\ w # i /\ new \in watched'[w]
               \/ w = i /\ s = i
               \/ /\ w = i /\ s # i /\ pos'[s] # Absent
                  /\ occupied'[s] \cap (View(new) \ subscribed[i]) # {}
          /\ <<w, s>> \in MoveLeft(i, p) <=>
               \/ s = i /\ w # i /\ old \in watched'[w] /\ new \notin watched'[w]
               \/ /\ w = i /\ s # i /\ pos'[s] # Absent
                  /\ occupied'[s] \cap (subscribed[i] \ View(new)) # {}
                  /\ SectorOf(pos'[s]) \notin View(new)
    BY <2>2 DEF ToWatchers, Snapshots, GivenUp, Present
  <2>4. shown'[w][w] \in {Absent, pos'[w]}
    <3>1. shown[w][w] \in {Absent, pos[w]}
      BY DEF IInv, ViewExact
    <3> QED BY <1>1, <2>0, <2>1, <2>3, <3>1 DEF IInv, TypeOK
  <2>5. ASSUME NEW s \in Id \ {w}
        PROVE  shown'[w][s] = IF Sees(w, s)' THEN pos'[s] ELSE Absent
    <3>1. shown[w][s] = IF Sees(w, s) THEN pos[s] ELSE Absent
      BY DEF IInv, ViewExact
    <3>2. CASE w = i
      <4>1. pos'[s] = pos[s] /\ occupied'[s] = occupied[s] /\ pos'[w] = p
        BY <1>1, <3>2, <2>0 DEF IInv, TypeOK
      <4>2. subscribed[i] = View(old)
        BY <1>0, <3>2 DEF IInv, SubscriptionsExact
      <4>3. pos[s] # Absent => occupied[s] = {SectorOf(pos[s])}
        BY DEF IInv, OccupancyExact
      <4>4. pos[s] # Absent =>
              /\ <<w, s>> \in MoveTold(i, p) <=>
                   SectorOf(pos[s]) \in View(new) /\ SectorOf(pos[s]) \notin View(old)
              /\ <<w, s>> \in MoveLeft(i, p) <=>
                   SectorOf(pos[s]) \in View(old) /\ SectorOf(pos[s]) \notin View(new)
        BY <2>3, <3>2, <4>1, <4>2, <4>3
      <4>5. pos[s] = Absent => /\ <<w, s>> \notin MoveTold(i, p)
                               /\ <<w, s>> \notin MoveLeft(i, p)
        BY <2>3, <3>2, <4>1
      <4> QED BY <1>0, <2>1, <3>1, <3>2, <4>1, <4>4, <4>5 DEF Sees, InView
    <3>3. CASE s = i
      <4>1. pos'[w] = pos[w] /\ watched'[w] = watched[w] /\ pos'[s] = p
        BY <1>1, <3>3, <2>0 DEF IInv, TypeOK
      <4>2. \A d : d \in watched[w] <=> pos[w] # Absent /\ d \in View(SectorOf(pos[w]))
        BY DEF IInv, SubscriptionsExact
      <4> QED BY <1>0, <2>1, <2>3, <3>1, <3>3, <4>1, <4>2 DEF Sees, InView
    <3>4. CASE w # i /\ s # i
      <4>1. pos'[w] = pos[w] /\ pos'[s] = pos[s]
        BY <1>1, <3>4, <2>0 DEF IInv, TypeOK
      <4> QED BY <2>1, <2>3, <3>1, <3>4, <4>1 DEF Sees
    <3> QED BY <3>2, <3>3, <3>4
  <2> QED BY <2>4, <2>5
<1> QED BY <1>3, <1>4, <1>5, <1>6 DEF IInv

\* update_player_aoi changes nothing when the subscriptions are exact.
LEMMA UpdateStutters ==
    ASSUME IInv, NEW i \in Id, UpdatePlayerAoi(i)
    PROVE  UNCHANGED vars
<1> DEFINE view == View(SectorOf(pos[i]))
<1>0. i \in Players /\ pos[i] # Absent
  BY DEF UpdatePlayerAoi
<1>1. subscribed[i] = view /\ watched[i] = view
  BY <1>0 DEF IInv, SubscriptionsExact
<1>2. watched' = watched /\ subscribed' = subscribed
  BY <1>0, <1>1 DEF UpdatePlayerAoi, Rebuilt, IInv, TypeOK
<1>3. shown' = shown
  <2>1. Snapshots(i, view \ subscribed[i], pos, occupied) = {}
    BY <1>1 DEF Snapshots
  <2>2. GivenUp(i, subscribed[i] \ view, view, pos, occupied) = {}
    BY <1>1 DEF GivenUp
  <2>3. shown' = Deliver(shown, {}, {}, pos)
    BY <2>1, <2>2 DEF UpdatePlayerAoi
  <2>4. Deliver(shown, {}, {}, pos) = [w \in Players |-> [s \in Id |-> shown[w][s]]]
    BY DEF Deliver
  <2> QED BY <2>3, <2>4 DEF IInv, TypeOK
<1> QED BY <1>2, <1>3 DEF UpdatePlayerAoi, vars

\* The invariant of the reachable states of the grid.
THEOREM Inductive == Spec => []IInv
<1>1. IInv /\ [Next]_vars => IInv'
  <2> SUFFICES ASSUME IInv, [Next]_vars PROVE IInv'
    OBVIOUS
  <2>1. CASE UNCHANGED vars
    BY <2>1 DEF vars, IInv, TypeOK, OccupancyExact, SubscriptionsExact, ViewExact,
                Sees, InView
  <2>2. ASSUME NEW i \in Id, pos[i] = Absent, NEW p \in Positions, AddEntity(i, p)
        PROVE  IInv'
    BY <2>2, AddIInv
  <2>3. ASSUME NEW i \in Id, RemoveEntity(i) PROVE IInv'
    BY <2>3, RemoveIInv
  <2>4. ASSUME NEW i \in Id, NEW p \in Positions, MoveEntity(i, p) PROVE IInv'
    BY <2>4, MoveIInv
  <2>5. ASSUME NEW i \in Id, UpdatePlayerAoi(i) PROVE IInv'
    BY <2>1, <2>5, UpdateStutters
  <2> QED BY <2>1, <2>2, <2>3, <2>4, <2>5 DEF Next
<1> QED BY <1>1, InitIInv, PTL DEF Spec

\* Every state is well-typed: no operation files an entity or a watcher under
\* a negative sector, wherever on the map it happens.
THEOREM TypeCorrect == Spec => []TypeOK
BY Inductive, PTL DEF IInv

\* The entity sets of the sectors always agree with where the entities are.
THEOREM SectorsCorrect == Spec => []OccupancyExact
BY Inductive, PTL DEF IInv

\* Every player always watches the sectors of its view square and no other,
\* whatever moves the incremental rebuilds followed.
THEOREM SubscriptionsCorrect == Spec => []SubscriptionsExact
BY Inductive, PTL DEF IInv

\* The events sent to a player always add up to exactly what is in its view.
THEOREM ViewCorrect == Spec => []ViewExact
BY Inductive, PTL DEF IInv

-----------------------------------------------------------------------------
(* Refinement. *)

\* Who sees whom, pair by pair.
LEMMA SightOf ==
    ASSUME NEW at, NEW w \in Players, NEW s \in Id
    PROVE  <<w, s>> \in Visibility!Sight(at) <=>
             w # s /\ at[w] # Absent /\ at[s] # Absent /\ InView(at[w], at[s])
BY DEF Visibility!Sight

\* Sets of pairs of a watcher and a subject are equal if they have the same pairs.
LEMMA SamePairs ==
    ASSUME NEW S \in SUBSET (Players \X Id), NEW T \in SUBSET (Players \X Id),
           \A w \in Players : \A s \in Id : <<w, s>> \in S <=> <<w, s>> \in T
    PROVE  S = T
OBVIOUS

LEMMA SightType == \A at : Visibility!Sight(at) \in SUBSET (Players \X Id)
BY DEF Visibility!Sight

\* An entity that is added is told to those who see it, and what it sees to it.
LEMMA AddTellsSight ==
    ASSUME IInv, IInv', NEW i \in Id, NEW p \in Positions,
           pos[i] = Absent, AddEntity(i, p)
    PROVE  AddTold(i, p) = Visibility!Sight(pos') \ Visibility!Sight(pos)
<1>1. /\ pos' = [pos EXCEPT ![i] = p]
      /\ AddTold(i, p) =
           ToWatchers(watched', SectorOf(p), i)
             \cup (IF i \in Players
                   THEN Snapshots(i, View(SectorOf(p)), pos', occupied') ELSE {})
  BY DEF AddEntity, AddTold
<1>2. \A j \in Id : pos'[j] = IF j = i THEN p ELSE pos[j]
  BY <1>1 DEF IInv, TypeOK
<1>3. ASSUME NEW w \in Players, NEW s \in Id
      PROVE  <<w, s>> \in AddTold(i, p) <=>
               <<w, s>> \in Visibility!Sight(pos') \ Visibility!Sight(pos)
  <2>0. w \in Id /\ p # Absent
    BY PositionsAssumption DEF Id
  <2>1. <<w, s>> \in AddTold(i, p) <=>
          \/ s = i /\ w # i /\ SectorOf(p) \in watched'[w]
          \/ /\ w = i /\ s # i /\ pos'[s] # Absent
             /\ occupied'[s] \cap View(SectorOf(p)) # {}
    BY <1>1 DEF ToWatchers, Snapshots, Present
  <2>2. \A c : c \in watched'[w] <=> pos'[w] # Absent /\ c \in View(SectorOf(pos'[w]))
    BY DEF IInv, SubscriptionsExact
  <2>3. pos'[s] # Absent => occupied'[s] = {SectorOf(pos'[s])}
    BY DEF IInv, OccupancyExact
  <2>4. <<w, s>> \in AddTold(i, p) <=>
          \/ s = i /\ w # i /\ pos[w] # Absent /\ InView(pos[w], p)
          \/ w = i /\ s # i /\ pos[s] # Absent /\ InView(p, pos[s])
    BY <1>2, <2>0, <2>1, <2>2, <2>3 DEF InView
  <2>5. <<w, s>> \in Visibility!Sight(pos') <=>
          w # s /\ pos'[w] # Absent /\ pos'[s] # Absent /\ InView(pos'[w], pos'[s])
    BY SightOf
  <2>6. <<w, s>> \in Visibility!Sight(pos) <=>
          w # s /\ pos[w] # Absent /\ pos[s] # Absent /\ InView(pos[w], pos[s])
    BY SightOf
  <2> QED BY <1>2, <2>0, <2>4, <2>5, <2>6
<1>4. AddTold(i, p) \in SUBSET (Players \X Id)
  BY <1>1 DEF ToWatchers, Snapshots, Present
<1> QED BY <1>3, <1>4, SightType, SamePairs

\* The removal of an entity is told to those who saw it.
LEMMA RemoveTellsSight ==
    ASSUME IInv, NEW i \in Id, RemoveEntity(i)
    PROVE  RemoveLeft(i) = { s \in Visibility!Sight(pos) : s[2] = i }
<1>1. ASSUME NEW w \in Players, NEW s \in Id
      PROVE  <<w, s>> \in RemoveLeft(i) <=> <<w, s>> \in Visibility!Sight(pos) /\ s = i
  <2>1. SectorOf(pos[i]) \in watched[w] <=>
          pos[w] # Absent /\ SectorOf(pos[i]) \in View(SectorOf(pos[w]))
    BY DEF IInv, SubscriptionsExact
  <2>2. <<w, s>> \in RemoveLeft(i) <=> s = i /\ w # i /\ SectorOf(pos[i]) \in watched[w]
    BY DEF RemoveLeft, ToWatchers
  <2>3. pos[i] # Absent
    BY DEF RemoveEntity
  <2> QED BY <2>1, <2>2, <2>3, SightOf DEF InView
<1>2. RemoveLeft(i) \in SUBSET (Players \X Id)
  BY DEF RemoveLeft, ToWatchers
<1>3. { s \in Visibility!Sight(pos) : s[2] = i } \in SUBSET (Players \X Id)
  BY SightType
<1> QED BY <1>1, <1>2, <1>3, SamePairs

\* A move tells the sights gained, the sights lost, and the new position.
LEMMA MoveTellsSight ==
    ASSUME IInv, IInv', NEW i \in Id, NEW p \in Positions, MoveEntity(i, p)
    PROVE  /\ MoveEntered(i, p) = Visibility!Sight(pos') \ Visibility!Sight(pos)
           /\ MoveLeft(i, p) = Visibility!Sight(pos) \ Visibility!Sight(pos')
           /\ MoveMoved(i, p) =
                { s \in Visibility!Sight(pos') \cup {<<w, w>> : w \in Players} : s[2] = i }
<1> DEFINE old == SectorOf(pos[i])
           new == SectorOf(p)
<1>0. pos[i] # Absent /\ p # Absent
  BY PositionsAssumption DEF MoveEntity
<1>1. /\ pos' = [pos EXCEPT ![i] = p]
      /\ MoveEntered(i, p) =
           (ToWatchers(watched', new, i) \ ToWatchers(watched', old, i))
             \cup (IF i \in Players
                   THEN Snapshots(i, View(new) \ subscribed[i], pos', occupied')
                   ELSE {})
      /\ MoveLeft(i, p) =
           (ToWatchers(watched', old, i) \ ToWatchers(watched', new, i))
             \cup (IF i \in Players
                   THEN GivenUp(i, subscribed[i] \ View(new), View(new), pos', occupied')
                   ELSE {})
      /\ MoveMoved(i, p) =
           ToWatchers(watched', new, i) \cup (IF i \in Players THEN {<<i, i>>} ELSE {})
  BY DEF MoveEntity, MoveEntered, MoveLeft, MoveMoved
<1>2. \A j \in Id : pos'[j] = IF j = i THEN p ELSE pos[j]
  BY <1>1 DEF IInv, TypeOK
<1>3. ASSUME NEW w \in Players, NEW s \in Id
      PROVE  /\ <<w, s>> \in MoveEntered(i, p) <=>
                  <<w, s>> \in Visibility!Sight(pos') \ Visibility!Sight(pos)
             /\ <<w, s>> \in MoveLeft(i, p) <=>
                  <<w, s>> \in Visibility!Sight(pos) \ Visibility!Sight(pos')
             /\ <<w, s>> \in MoveMoved(i, p) <=>
                  (<<w, s>> \in Visibility!Sight(pos') \/ w = s) /\ s = i
  <2>0. w \in Id
    BY DEF Id
  <2>1. <<w, s>> \in MoveEntered(i, p) <=>
          \/ s = i /\ w # i /\ new \in watched'[w] /\ old \notin watched'[w]
          \/ /\ w = i /\ s # i /\ pos'[s] # Absent
             /\ occupied'[s] \cap (View(new) \ subscribed[i]) # {}
    BY <1>1 DEF ToWatchers, Snapshots, Present
  <2>1a. <<w, s>> \in MoveLeft(i, p) <=>
          \/ s = i /\ w # i /\ old \in watched'[w] /\ new \notin watched'[w]
          \/ /\ w = i /\ s # i /\ pos'[s] # Absent
             /\ occupied'[s] \cap (subscribed[i] \ View(new)) # {}
             /\ SectorOf(pos'[s]) \notin View(new)
    BY <1>1 DEF ToWatchers, GivenUp, Present
  <2>1b. <<w, s>> \in MoveMoved(i, p) <=> s = i /\ (w = i \/ new \in watched'[w])
    BY <1>1, <2>0 DEF ToWatchers
  <2>2. \A c : c \in watched'[w] <=> pos'[w] # Absent /\ c \in View(SectorOf(pos'[w]))
    BY DEF IInv, SubscriptionsExact
  <2>3. pos'[s] # Absent => occupied'[s] = {SectorOf(pos'[s])}
    BY DEF IInv, OccupancyExact
  <2>4. w = i => subscribed[i] = View(old)
    BY <1>0 DEF IInv, SubscriptionsExact
  <2>5. <<w, s>> \in Visibility!Sight(pos') <=>
          w # s /\ pos'[w] # Absent /\ pos'[s] # Absent /\ InView(pos'[w], pos'[s])
    BY SightOf
  <2>6. <<w, s>> \in Visibility!Sight(pos) <=>
          w # s /\ pos[w] # Absent /\ pos[s] # Absent /\ InView(pos[w], pos[s])
    BY SightOf
  <2>7. CASE w = i
    <3>1. pos'[w] = p /\ pos[w] # Absent /\ (s # i => pos'[s] = pos[s])
      BY <1>0, <1>2, <2>0, <2>7
    <3>2. s # i /\ pos[s] # Absent =>
            /\ <<w, s>> \in MoveEntered(i, p) <=>
                 SectorOf(pos[s]) \in View(new) /\ SectorOf(pos[s]) \notin View(old)
            /\ <<w, s>> \in MoveLeft(i, p) <=>
                 SectorOf(pos[s]) \in View(old) /\ SectorOf(pos[s]) \notin View(new)
      BY <2>1, <2>1a, <2>3, <2>4, <2>7, <3>1
    <3>3. s = i \/ pos[s] = Absent =>
            <<w, s>> \notin MoveEntered(i, p) /\ <<w, s>> \notin MoveLeft(i, p)
      BY <2>1, <2>1a, <2>7, <3>1
    <3>4. <<w, s>> \in MoveMoved(i, p) <=> s = i
      BY <2>1b, <2>7
    <3> QED BY <1>0, <2>5, <2>6, <2>7, <3>1, <3>2, <3>3, <3>4 DEF InView
  <2>8. CASE w # i
    <3>1. pos'[w] = pos[w] /\ (s = i => pos'[s] = p)
      BY <1>2, <2>0, <2>8
    <3>2. s # i => pos'[s] = pos[s]
      BY <1>2
    <3>3. s = i => pos[s] # Absent /\ pos'[s] # Absent
      BY <1>0, <3>1
    <3> QED BY <1>0, <2>1, <2>1a, <2>1b, <2>2, <2>5, <2>6, <2>8, <3>1, <3>2, <3>3 DEF InView
  <2> QED BY <2>7, <2>8
<1>4. /\ MoveEntered(i, p) \in SUBSET (Players \X Id)
      /\ MoveLeft(i, p) \in SUBSET (Players \X Id)
      /\ MoveMoved(i, p) \in SUBSET (Players \X Id)
  BY <1>1 DEF ToWatchers, Snapshots, GivenUp, Present, Id
<1>5. MoveEntered(i, p) = Visibility!Sight(pos') \ Visibility!Sight(pos)
  BY <1>3, <1>4, SightType, SamePairs
<1>6. MoveLeft(i, p) = Visibility!Sight(pos) \ Visibility!Sight(pos')
  BY <1>3, <1>4, SightType, SamePairs
<1>7. MoveMoved(i, p) =
        { s \in Visibility!Sight(pos') \cup {<<w, w>> : w \in Players} : s[2] = i }
  <2> DEFINE told == { s \in Visibility!Sight(pos') \cup {<<w, w>> : w \in Players} : s[2] = i }
  <2>1. told \in SUBSET (Players \X Id)
    BY SightType DEF Id
  <2>2. \A w \in Players : \A s \in Id :
          <<w, s>> \in told <=> (<<w, s>> \in Visibility!Sight(pos') \/ w = s) /\ s = i
    OBVIOUS
  <2> HIDE DEF told
  <2>3. MoveMoved(i, p) = told
    BY <1>3, <1>4, <2>1, <2>2, SamePairs
  <2> QED BY <2>3 DEF told
<1> QED BY <1>5, <1>6, <1>7

\* The record of the events leaves the grid as it was.
LEMMA EventsAdded == EventSpec => Spec
<1>1. EventInit => Init
  BY DEF EventInit
<1>2. [EventNext]_eventVars => [Next]_vars
  BY DEF EventNext, AddSends, RemoveSends, MoveSends, UpdateSends, eventVars, vars, Next
<1> QED BY <1>1, <1>2, PTL DEF EventSpec, Spec

\* Every operation sends what the change of everybody's view calls for and
\* nothing else.
THEOREM Refinement == EventSpec => Visible
<1>1. EventInit => Visibility!Init
  BY DEF EventInit, Init, Sending, Visibility!Init, Visibility!Nothing
<1>2. IInv /\ IInv' /\ [EventNext]_eventVars => [Visibility!Next]_<<pos, sent>>
  <2> SUFFICES ASSUME IInv, IInv', [EventNext]_eventVars
               PROVE  Visibility!Next \/ UNCHANGED <<pos, sent>>
    OBVIOUS
  <2>1. CASE UNCHANGED eventVars
    BY <2>1 DEF eventVars
  <2>2. ASSUME NEW i \in Id, pos[i] = Absent, NEW p \in Positions, AddSends(i, p)
        PROVE  Visibility!Next
    <3>1. AddEntity(i, p) /\ pos' = [pos EXCEPT ![i] = p]
      BY <2>2 DEF AddSends, AddEntity
    <3>2. sent' = [Visibility!Nothing EXCEPT
                     !.entered = Visibility!Sight(pos') \ Visibility!Sight(pos)]
      <4>1. AddTold(i, p) = Visibility!Sight(pos') \ Visibility!Sight(pos)
        BY <2>2, <3>1, AddTellsSight
      <4>2. sent' = Sending(AddTold(i, p), {}, {})
        BY <2>2 DEF AddSends
      <4> QED BY <4>1, <4>2 DEF Sending, Visibility!Nothing
    <3>3. Visibility!Appear(i, p)
      BY <2>2, <3>1, <3>2 DEF Visibility!Appear
    <3> QED BY <3>3 DEF Visibility!Next
  <2>3. ASSUME NEW i \in Id, RemoveSends(i) PROVE Visibility!Next
    <3>1. RemoveEntity(i) /\ pos[i] # Absent /\ pos' = [pos EXCEPT ![i] = Absent]
      BY <2>3 DEF RemoveSends, RemoveEntity
    <3>2. sent' = [Visibility!Nothing EXCEPT
                     !.left = { s \in Visibility!Sight(pos) : s[2] = i }]
      BY <2>3, <3>1, RemoveTellsSight DEF RemoveSends, Sending, Visibility!Nothing
    <3>3. Visibility!Disappear(i)
      BY <3>1, <3>2 DEF Visibility!Disappear
    <3> QED BY <3>3 DEF Visibility!Next
  <2>4. ASSUME NEW i \in Id, NEW p \in Positions, MoveSends(i, p)
        PROVE  Visibility!Next
    <3>1. MoveEntity(i, p) /\ pos[i] # Absent /\ pos' = [pos EXCEPT ![i] = p]
      BY <2>4 DEF MoveSends, MoveEntity
    <3>2. sent' = Sending(MoveEntered(i, p), MoveMoved(i, p), MoveLeft(i, p))
      BY <2>4 DEF MoveSends
    <3>3. Visibility!Move(i, p)
      BY <3>1, <3>2, MoveTellsSight DEF Sending, Visibility!Move
    <3> QED BY <3>3 DEF Visibility!Next
  <2>5. ASSUME NEW i \in Id, UpdateSends(i) PROVE Visibility!Next
    <3>1. UpdatePlayerAoi(i) /\ i \in Players /\ pos[i] # Absent /\ pos' = pos
      BY <2>5 DEF UpdateSends, UpdatePlayerAoi
    <3>2. subscribed[i] = View(SectorOf(pos[i]))
      BY <3>1 DEF IInv, SubscriptionsExact
    <3>3. sent' = Visibility!Nothing
      BY <2>5, <3>2 DEF UpdateSends, Sending, Snapshots, GivenUp, Visibility!Nothing
    <3> QED BY <3>1, <3>3 DEF Visibility!Next, Visibility!Refresh
  <2> QED BY <2>1, <2>2, <2>3, <2>4, <2>5 DEF EventNext
<1> QED
  BY <1>1, <1>2, Inductive, EventsAdded, PTL DEF EventSpec, Visible, Visibility!Spec

=============================================================================
