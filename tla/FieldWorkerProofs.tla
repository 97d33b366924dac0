------------------------- MODULE FieldWorkerProofs --------------------------
(***************************************************************************)
(* Proofs about FieldWorker, for any players, monsters, positions, hits    *)
(* and delays, with or without players that leave or enter twice.          *)
(*                                                                         *)
(* The invariant of AoiWorldProofs does not hold here: a player that       *)
(* enters again is filed a second time and keeps the sectors it watched.   *)
(* What is left of it is weaker for everybody (Filed, Watching) and exact  *)
(* for those that neither left nor entered again (FiledOnce, WatchesOnly). *)
(* The first is what InViewKnown needs, the second OnlyViewersHear.        *)
(***************************************************************************)
EXTENDS FieldWorker, AoiWorldProofs

\* Whoever is in the grid is filed in the sector of its position, ...
Filed == \A i \in Id : pos[i] # Absent => SectorOf(pos[i]) \in occupied[i]

\* ... and in no other sector, unless it left or entered again.
FiledOnce ==
    \A i \in Id \ churned :
        occupied[i] = IF pos[i] = Absent THEN {} ELSE {SectorOf(pos[i])}

\* A player in the grid subscribes to its view square and watches all of it, ...
Watching ==
    \A w \in Players :
        pos[w] # Absent => /\ subscribed[w] = View(SectorOf(pos[w]))
                           /\ subscribed[w] \subseteq watched[w]

\* ... and nothing else, unless it left or entered again.
WatchesOnly ==
    \A w \in Players \ churned :
        watched[w] = IF pos[w] = Absent THEN {} ELSE View(SectorOf(pos[w]))

\* The players of the field and the living monsters are those in the grid,
\* the monsters where their transforms are.
Bodies ==
    /\ players = { w \in Players : pos[w] # Absent }
    /\ \A m \in Monsters : pos[m] = IF hits[m] = 0 THEN Absent ELSE mpos[m]

Grid == TypeOK /\ churned \subseteq Players /\ Filed /\ FiledOnce /\ Watching /\ WatchesOnly

FieldInv ==
    /\ FieldTypeOK
    /\ Grid
    /\ Bodies
    /\ InViewKnown
    /\ GoneForgotten
    /\ OnlyViewersHear

-----------------------------------------------------------------------------
(* What the events of an operation must achieve. *)

\* Whoever is in view afterwards was in view before and is not hidden, or is
\* told about.
Informed(told, left) ==
    \A w \in Players : \A s \in Id \ {w} :
        Sees(w, s)' => \/ <<w, s>> \in told
                       \/ /\ <<w, s>> \notin left /\ pos'[s] = pos[s]
                          /\ Sees(w, s)

\* Between two that never left nor entered again, only what is in view is told
\* about, and what drops out of view is hidden.
Honest(told, left) ==
    \A w \in Players : \A s \in Id \ {w} :
        {w, s} \cap churned' = {} =>
            /\ <<w, s>> \in told => Sees(w, s)'
            /\ Sees(w, s) => Sees(w, s)' \/ <<w, s>> \in left

\* Events are about entities that are in the grid afterwards.
Alive(told) ==
    told \subseteq Players \X Id /\ \A ws \in told : pos'[ws[2]] # Absent

\* What a watcher knows stays well-typed.
LEMMA DeliverType ==
    ASSUME NEW known \in [Players -> [Id -> Positions \cup {Absent}]],
           NEW where \in [Id -> Positions \cup {Absent}],
           NEW told, NEW left
    PROVE  Deliver(known, told, left, where) \in [Players -> [Id -> Positions \cup {Absent}]]
BY DEF Deliver

\* add_entity, of an entity that is not in the grid or of a player again.
LEMMA GridAdd ==
    ASSUME Grid, NEW i \in Id, NEW p \in Positions, AddEntity(i, p),
           churned \subseteq churned', churned' \subseteq Players,
           pos[i] = Absent \/ i \in churned'
    PROVE  /\ Grid'
           /\ pos' = [pos EXCEPT ![i] = p]
           /\ Informed(AddTold(i, p), {})
           /\ Honest(AddTold(i, p), {})
           /\ Alive(AddTold(i, p))
<1> DEFINE c == SectorOf(p)
           view == View(SectorOf(p))
           told == AddTold(i, p)
<1>0. /\ c \in Sectors /\ view \in SUBSET Sectors /\ p # Absent
      /\ pos \in [Id -> Positions \cup {Absent}] /\ pos' = [pos EXCEPT ![i] = p]
  BY GeometryType, PositionsAssumption DEF AddEntity, Grid, TypeOK
<1>1. \A j \in Id :
        /\ pos'[j] = IF j = i THEN p ELSE pos[j]
        /\ occupied'[j] = IF j = i THEN occupied[j] \cup {c} ELSE occupied[j]
  BY <1>0 DEF AddEntity, AddOccupied, Grid, TypeOK
<1>2. \A w \in Players :
        /\ watched'[w] = IF w = i THEN watched[w] \cup view ELSE watched[w]
        /\ subscribed'[w] = IF w = i THEN view ELSE subscribed[w]
  <2>1. i \in Players => Rebuilt(i, {}, view) = watched[i] \cup view
    BY DEF Rebuilt
  <2> QED BY <2>1 DEF AddEntity, AddWatched, Grid, TypeOK
<1>3. TypeOK'
  <2>1. pos' \in [Id -> Positions \cup {Absent}]
    BY <1>0
  <2>2. occupied' \in [Id -> SUBSET Sectors]
    BY <1>0 DEF AddEntity, AddOccupied, Grid, TypeOK
  <2>3. /\ subscribed' \in [Players -> SUBSET Sectors]
        /\ watched' \in [Players -> SUBSET Sectors]
    BY <1>0 DEF AddEntity, AddWatched, Rebuilt, Grid, TypeOK
  <2>4. shown' \in [Players -> [Id -> Positions \cup {Absent}]]
    BY <1>0, <2>1, DeliverType DEF AddEntity, Grid, TypeOK
  <2> QED BY <2>1, <2>2, <2>3, <2>4 DEF TypeOK
<1>4. Players \subseteq Id
  BY DEF Id
<1>5. Filed' /\ FiledOnce'
  BY <1>0, <1>1 DEF Filed, FiledOnce, Grid
<1>6. Watching' /\ WatchesOnly'
  <2>1. Watching'
    BY <1>0, <1>1, <1>2, <1>4 DEF Watching, Grid
  <2>2. ASSUME NEW w \in Players \ churned'
        PROVE  watched'[w] = IF pos'[w] = Absent THEN {} ELSE View(SectorOf(pos'[w]))
    <3>1. watched[w] = IF pos[w] = Absent THEN {} ELSE View(SectorOf(pos[w]))
      BY DEF Grid, WatchesOnly
    <3>2. CASE w = i
      <4>1. watched[w] = {}
        BY <3>1, <3>2
      <4>2. watched'[w] = view
        BY <1>2, <3>2, <4>1
      <4> QED BY <1>0, <1>1, <1>4, <3>2, <4>2
    <3>3. CASE w # i
      BY <1>1, <1>2, <1>4, <3>1, <3>3
    <3> QED BY <3>2, <3>3
  <2>3. WatchesOnly'
    BY <2>2 DEF WatchesOnly
  <2> QED BY <2>1, <2>3
<1>7. \A w \in Players : \A s \in Id :
        <<w, s>> \in told <=>
           \/ s = i /\ w # i /\ c \in watched'[w]
           \/ w = i /\ s # i /\ pos'[s] # Absent /\ occupied'[s] \cap view # {}
  <2>1. told = ToWatchers(watched', c, i)
                 \cup (IF i \in Players THEN Snapshots(i, view, pos', occupied') ELSE {})
    BY DEF AddTold, AddEntity
  <2> QED BY <2>1 DEF ToWatchers, Snapshots, Present
<1>8. Informed(told, {})
  BY <1>0, <1>1, <1>2, <1>4, <1>7 DEF Informed, Sees, InView, Grid, Filed, Watching
<1>9. Honest(told, {})
  <2> SUFFICES ASSUME NEW w \in Players, NEW s \in Id \ {w}, {w, s} \cap churned' = {}
               PROVE  /\ <<w, s>> \in told => Sees(w, s)'
                      /\ Sees(w, s) => Sees(w, s)'
    BY DEF Honest
  <2>1. CASE s = i
    <3>1. ~Sees(w, s)
      BY <2>1 DEF Sees
    <3>2. watched'[w] = IF pos'[w] = Absent THEN {} ELSE View(SectorOf(pos'[w]))
      BY <1>6 DEF WatchesOnly
    <3> QED BY <1>0, <1>1, <1>4, <1>7, <2>1, <3>1, <3>2 DEF Sees, InView
  <2>2. CASE w = i
    <3>1. ~Sees(w, s)
      BY <2>2 DEF Sees
    <3>2. occupied'[s] = IF pos'[s] = Absent THEN {} ELSE {SectorOf(pos'[s])}
      BY <1>5 DEF FiledOnce
    <3> QED BY <1>0, <1>1, <1>4, <1>7, <2>2, <3>1, <3>2 DEF Sees, InView
  <2>3. CASE w # i /\ s # i
    BY <1>1, <1>4, <1>7, <2>3 DEF Sees
  <2> QED BY <2>1, <2>2, <2>3
<1>10. Alive(told)
  <2>1. told \subseteq Players \X Id
    BY DEF AddTold, ToWatchers, Snapshots, Present
  <2> QED BY <1>0, <1>1, <1>4, <1>7, <2>1 DEF Alive
<1> QED BY <1>0, <1>3, <1>5, <1>6, <1>8, <1>9, <1>10 DEF Grid

\* move_entity.
LEMMA GridMove ==
    ASSUME Grid, NEW i \in Id, NEW p \in Positions, MoveEntity(i, p), churned' = churned
    PROVE  /\ Grid'
           /\ pos' = [pos EXCEPT ![i] = p]
           /\ Informed(MoveTold(i, p), MoveLeft(i, p))
           /\ Honest(MoveTold(i, p), MoveLeft(i, p))
           /\ Alive(MoveTold(i, p))
<1> DEFINE old == SectorOf(pos[i])
           c == SectorOf(p)
           view == View(SectorOf(p))
           told == MoveTold(i, p)
           left == MoveLeft(i, p)
<1>0. /\ c \in Sectors /\ view \in SUBSET Sectors /\ p # Absent /\ pos[i] # Absent
      /\ pos \in [Id -> Positions \cup {Absent}] /\ pos' = [pos EXCEPT ![i] = p]
  BY GeometryType, PositionsAssumption DEF MoveEntity, Grid, TypeOK
<1>1. \A j \in Id :
        /\ pos'[j] = IF j = i THEN p ELSE pos[j]
        /\ occupied'[j] = IF j # i THEN occupied[j]
                          ELSE IF c = old THEN occupied[j]
                          ELSE (occupied[j] \ {old}) \cup {c}
  BY <1>0 DEF MoveEntity, MoveOccupied, Grid, TypeOK
<1>2. \A w \in Players :
        /\ watched'[w] = IF w # i THEN watched[w]
                         ELSE (watched[w] \ (subscribed[w] \ view)) \cup (view \ subscribed[w])
        /\ subscribed'[w] = IF w = i THEN view ELSE subscribed[w]
  BY DEF MoveEntity, MoveWatched, Rebuilt, Grid, TypeOK
<1>3. TypeOK'
  <2>1. pos' \in [Id -> Positions \cup {Absent}]
    BY <1>0
  <2>2. occupied' \in [Id -> SUBSET Sectors]
    BY <1>0 DEF MoveEntity, MoveOccupied, Grid, TypeOK
  <2>3. /\ subscribed' \in [Players -> SUBSET Sectors]
        /\ watched' \in [Players -> SUBSET Sectors]
    BY <1>0 DEF MoveEntity, MoveWatched, Rebuilt, Grid, TypeOK
  <2>4. shown' \in [Players -> [Id -> Positions \cup {Absent}]]
    BY <1>0, <2>1, DeliverType DEF MoveEntity, Grid, TypeOK
  <2> QED BY <2>1, <2>2, <2>3, <2>4 DEF TypeOK
<1>4. Players \subseteq Id
  BY DEF Id
<1>5. Filed' /\ FiledOnce'
  BY <1>0, <1>1 DEF Filed, FiledOnce, Grid
<1>6. Watching' /\ WatchesOnly'
  <2>1. Watching'
    BY <1>0, <1>1, <1>2, <1>4 DEF Watching, Grid
  <2>2. ASSUME NEW w \in Players \ churned'
        PROVE  watched'[w] = IF pos'[w] = Absent THEN {} ELSE View(SectorOf(pos'[w]))
    <3>1. watched[w] = IF pos[w] = Absent THEN {} ELSE View(SectorOf(pos[w]))
      BY DEF Grid, WatchesOnly
    <3>2. CASE w = i
      <4>1. subscribed[w] = watched[w]
        BY <1>0, <3>1, <3>2 DEF Grid, Watching
      <4>2. watched'[w] = view
        BY <1>2, <3>2, <4>1
      <4> QED BY <1>0, <1>1, <1>4, <3>2, <4>2
    <3>3. CASE w # i
      BY <1>1, <1>2, <1>4, <3>1, <3>3
    <3> QED BY <3>2, <3>3
  <2>3. WatchesOnly'
    BY <2>2 DEF WatchesOnly
  <2> QED BY <2>1, <2>3
<1>7. \A w \in Players : \A s \in Id :
        /\ <<w, s>> \in told <=>
             \/ s = i /\ w # i /\ c \in watched'[w]
             \/ w = i /\ s = i
             \/ /\ w = i /\ s # i /\ pos'[s] # Absent
                /\ occupied'[s] \cap (view \ subscribed[i]) # {}
        /\ <<w, s>> \in left <=>
             \/ s = i /\ w # i /\ old \in watched'[w] /\ c \notin watched'[w]
             \/ /\ w = i /\ s # i /\ pos'[s] # Absent
                /\ occupied'[s] \cap (subscribed[i] \ view) # {}
                /\ SectorOf(pos'[s]) \notin view
  <2>1. /\ told = ToWatchers(watched', c, i)
                    \cup (IF i \in Players
                          THEN {<<i, i>>} \cup
                               Snapshots(i, view \ subscribed[i], pos', occupied')
                          ELSE {})
        /\ left = (ToWatchers(watched', old, i) \ ToWatchers(watched', c, i))
                    \cup (IF i \in Players
                          THEN GivenUp(i, subscribed[i] \ view, view, pos', occupied')
                          ELSE {})
    BY MoveTells DEF MoveLeft, MoveEntity
  <2> QED BY <2>1 DEF ToWatchers, Snapshots, GivenUp, Present
<1>8. Informed(told, left)
  <2> SUFFICES ASSUME NEW w \in Players, NEW s \in Id \ {w}, Sees(w, s)'
               PROVE  \/ <<w, s>> \in told
                      \/ /\ <<w, s>> \notin left /\ pos'[s] = pos[s]
                         /\ Sees(w, s)
    BY DEF Informed
  <2>1. CASE s = i
    BY <1>0, <1>1, <1>2, <1>4, <1>7, <2>1 DEF Sees, InView, Grid, Watching
  <2>2. CASE w = i
    <3>1. /\ pos'[s] = pos[s] /\ occupied'[s] = occupied[s] /\ pos[s] # Absent
          /\ SectorOf(pos[s]) \in view /\ SectorOf(pos[s]) \in occupied[s]
      BY <1>1, <1>4, <2>2 DEF Sees, InView, Grid, Filed
    <3>2. <<w, s>> \notin left
      BY <1>7, <2>2, <3>1
    <3>3. CASE SectorOf(pos[s]) \in subscribed[i]
      <4>1. subscribed[i] = View(old)
        BY <1>0, <2>2 DEF Grid, Watching
      <4> QED BY <1>0, <2>2, <3>1, <3>2, <3>3, <4>1 DEF Sees, InView
    <3>4. CASE SectorOf(pos[s]) \notin subscribed[i]
      BY <1>7, <2>2, <3>1, <3>4
    <3> QED BY <3>3, <3>4
  <2>3. CASE w # i /\ s # i
    BY <1>1, <1>4, <1>7, <2>3 DEF Sees
  <2> QED BY <2>1, <2>2, <2>3
<1>9. Honest(told, left)
  <2> SUFFICES ASSUME NEW w \in Players, NEW s \in Id \ {w}, {w, s} \cap churned' = {}
               PROVE  /\ <<w, s>> \in told => Sees(w, s)'
                      /\ Sees(w, s) => Sees(w, s)' \/ <<w, s>> \in left
    BY DEF Honest
  <2>1. CASE s = i
    BY <1>0, <1>1, <1>2, <1>4, <1>6, <1>7, <2>1 DEF Sees, InView, Grid, WatchesOnly
  <2>2. CASE w = i
    <3>1. occupied'[s] = IF pos'[s] = Absent THEN {} ELSE {SectorOf(pos'[s])}
      BY <1>5 DEF FiledOnce
    <3>2. subscribed[i] = View(old) /\ pos'[w] = p /\ pos'[s] = pos[s]
      BY <1>0, <1>1, <1>4, <2>2 DEF Grid, Watching
    <3>3. <<w, s>> \in told => Sees(w, s)'
      BY <1>0, <1>7, <2>2, <3>1, <3>2 DEF Sees, InView
    <3>4. Sees(w, s) /\ ~Sees(w, s)' => <<w, s>> \in left
      BY <1>0, <1>7, <2>2, <3>1, <3>2 DEF Sees, InView
    <3> QED BY <3>3, <3>4
  <2>3. CASE w # i /\ s # i
    BY <1>1, <1>4, <1>7, <2>3 DEF Sees
  <2> QED BY <2>1, <2>2, <2>3
<1>10. Alive(told)
  <2>1. told \subseteq Players \X Id
    BY <1>4, MoveTells DEF ToWatchers, Snapshots, Present
  <2> QED BY <1>0, <1>1, <1>4, <1>7, <2>1 DEF Alive
<1> QED BY <1>0, <1>3, <1>5, <1>6, <1>8, <1>9, <1>10 DEF Grid

\* remove_entity, of a monster, or of a player that counts as gone from then on.
LEMMA GridRemove ==
    ASSUME Grid, NEW i \in Id, RemoveEntity(i),
           churned \subseteq churned', churned' \subseteq Players,
           i \in Players => i \in churned'
    PROVE  /\ Grid'
           /\ pos' = [pos EXCEPT ![i] = Absent]
           /\ \A w \in Players, s \in Id :
                 Sees(w, s)' => w # i /\ s # i /\ Sees(w, s) /\ pos'[s] = pos[s]
<1>0. /\ pos[i] # Absent
      /\ pos \in [Id -> Positions \cup {Absent}] /\ pos' = [pos EXCEPT ![i] = Absent]
  BY DEF RemoveEntity, Grid, TypeOK
<1>1. \A j \in Id :
        /\ pos'[j] = IF j = i THEN Absent ELSE pos[j]
        /\ occupied'[j] = IF j = i THEN occupied[j] \ {SectorOf(pos[i])} ELSE occupied[j]
  BY <1>0 DEF RemoveEntity, Grid, TypeOK
<1>2. \A w \in Players : w # i => watched'[w] = watched[w] /\ subscribed'[w] = subscribed[w]
  BY DEF RemoveEntity, Grid, TypeOK
<1>3. TypeOK'
  <2>1. pos' \in [Id -> Positions \cup {Absent}] /\ occupied' \in [Id -> SUBSET Sectors]
    BY <1>0 DEF RemoveEntity, Grid, TypeOK
  <2>2. /\ subscribed' \in [Players -> SUBSET Sectors]
        /\ watched' \in [Players -> SUBSET Sectors]
    BY DEF RemoveEntity, Grid, TypeOK
  <2>3. Deliver(shown, {}, RemoveLeft(i), pos) \in [Players -> [Id -> Positions \cup {Absent}]]
    BY <1>0, DeliverType DEF Grid, TypeOK
  <2>4. shown' \in [Players -> [Id -> Positions \cup {Absent}]]
    BY <2>3 DEF RemoveEntity
  <2> QED BY <2>1, <2>2, <2>4 DEF TypeOK
<1>4. Players \subseteq Id
  BY DEF Id
<1>5. Filed' /\ FiledOnce'
  BY <1>0, <1>1 DEF Filed, FiledOnce, Grid
<1>6. Watching' /\ WatchesOnly'
  BY <1>0, <1>1, <1>2, <1>4 DEF Watching, WatchesOnly, Grid
<1>7. \A w \in Players, s \in Id :
        Sees(w, s)' => w # i /\ s # i /\ Sees(w, s) /\ pos'[s] = pos[s]
  BY <1>1, <1>4 DEF Sees
<1> QED BY <1>0, <1>3, <1>5, <1>6, <1>7 DEF Grid

-----------------------------------------------------------------------------
(* What players and the watcher table know after an operation. *)

\* Honest events that inform everybody, tracked by the table and delivered to
\* the scenes, keep the three properties, also if a scene is told a position
\* twice (Burst).
LEMMA EventsKnown ==
    ASSUME FieldInv, NEW told, NEW left,
           pos' \in [Id -> Positions \cup {Absent}],
           Informed(told, left), Honest(told, left), Alive(told),
           \A i \in Id : pos'[i] = Absent => pos[i] = Absent,
           churned \subseteq churned',
           watchers' = Track(told, left),
           \A w \in Players, s \in Id :
              pos'[s] # Absent =>
                 scene'[w][s] \in {Deliver(scene, told, left, pos')[w][s], pos'[s]}
    PROVE  InViewKnown' /\ GoneForgotten' /\ OnlyViewersHear'
<1>1. watchers \subseteq Players \X Id /\ watchers' \subseteq Players \X Id
  BY DEF FieldInv, FieldTypeOK, Track, Alive
<1>2. \A w \in Players, s \in Id : <<w, s>> \in watchers' <=>
        <<w, s>> \in told \/ (<<w, s>> \in watchers /\ <<w, s>> \notin left)
  BY DEF Track
<1>3. InViewKnown'
  <2> SUFFICES ASSUME NEW w \in Players, NEW s \in Id \ {w}, Sees(w, s)'
               PROVE  scene'[w][s] = pos'[s] /\ <<w, s>> \in watchers'
    BY DEF InViewKnown
  <2>0. scene'[w][s] \in {Deliver(scene, told, left, pos')[w][s], pos'[s]}
    BY DEF Sees
  <2>1. CASE <<w, s>> \in told
    BY <1>2, <2>0, <2>1 DEF Deliver
  <2>2. CASE <<w, s>> \notin told
    <3>1. <<w, s>> \notin left /\ pos'[s] = pos[s] /\ Sees(w, s)
      BY <2>2 DEF Informed
    <3>2. scene[w][s] = pos[s] /\ <<w, s>> \in watchers
      BY <3>1 DEF FieldInv, InViewKnown
    <3> QED BY <1>2, <2>0, <2>2, <3>1, <3>2 DEF Deliver
  <2> QED BY <2>1, <2>2
<1>4. GoneForgotten'
  <2> SUFFICES ASSUME NEW s \in Id, pos'[s] = Absent, NEW w \in Players, <<w, s>> \in watchers'
               PROVE  FALSE
    BY DEF GoneForgotten, Hearers
  <2>1. <<w, s>> \notin told
    BY DEF Alive
  <2>2. <<w, s>> \in watchers
    BY <1>2, <2>1
  <2> QED BY <2>2 DEF FieldInv, GoneForgotten, Hearers
<1>5. OnlyViewersHear'
  <2> SUFFICES ASSUME NEW w \in Players, NEW s \in Id, <<w, s>> \in watchers', w # s,
                      {w, s} \cap churned' = {}
               PROVE  Sees(w, s)'
    BY <1>1 DEF OnlyViewersHear
  <2>1. CASE <<w, s>> \in told
    BY <2>1 DEF Honest
  <2>2. CASE <<w, s>> \notin told
    <3>1. <<w, s>> \in watchers /\ <<w, s>> \notin left
      BY <1>2, <2>2
    <3>2. Sees(w, s)
      BY <3>1 DEF FieldInv, OnlyViewersHear
    <3> QED BY <3>1, <3>2 DEF Honest
  <2> QED BY <2>1, <2>2
<1> QED BY <1>3, <1>4, <1>5

\* The removal of i from the grid and from the table keeps them.
LEMMA RemovalKnown ==
    ASSUME FieldInv, NEW i \in Id,
           pos' = [pos EXCEPT ![i] = Absent],
           \A w \in Players, s \in Id :
              Sees(w, s)' => w # i /\ s # i /\ Sees(w, s) /\ pos'[s] = pos[s],
           churned \subseteq churned', i \in Players => i \in churned',
           watchers' = Forget(i),
           \A w \in Players, s \in Id : w # i /\ s # i => scene'[w][s] = scene[w][s]
    PROVE  InViewKnown' /\ GoneForgotten' /\ OnlyViewersHear'
<1>1. watchers \subseteq Players \X Id /\ pos \in [Id -> Positions \cup {Absent}]
  BY DEF FieldInv, FieldTypeOK, TypeOK
<1>2. \A w \in Players, s \in Id : <<w, s>> \in watchers' <=> <<w, s>> \in watchers /\ s # i
  BY DEF Forget
<1>3. InViewKnown'
  BY <1>2 DEF FieldInv, InViewKnown
<1>4. GoneForgotten'
  BY <1>1, <1>2 DEF FieldInv, GoneForgotten, Hearers
<1>5. OnlyViewersHear'
  <2> SUFFICES ASSUME NEW w \in Players, NEW s \in Id, <<w, s>> \in watchers', w # s,
                      {w, s} \cap churned' = {}
               PROVE  Sees(w, s)'
    BY <1>1 DEF OnlyViewersHear, Forget
  <2>1. w # i /\ s # i /\ <<w, s>> \in watchers
    BY <1>2
  <2>2. Sees(w, s)
    BY <2>1 DEF FieldInv, OnlyViewersHear
  <2> QED BY <1>1, <2>1, <2>2 DEF Sees, Id
<1> QED BY <1>3, <1>4, <1>5

\* Steps that leave the grid and the scenes alone, and forget at most the
\* watchers of what is not in the grid, keep them, too.
LEMMA QuietKnown ==
    ASSUME FieldInv, UNCHANGED <<aoi, scene, churned>>,
           watchers' \subseteq watchers,
           \A ws \in watchers : pos[ws[2]] # Absent => ws \in watchers'
    PROVE  Grid' /\ InViewKnown' /\ GoneForgotten' /\ OnlyViewersHear'
<1>1. \A w, s : Sees(w, s)' <=> Sees(w, s)
  BY DEF aoi, Sees, InView
<1>2. Grid'
  BY DEF aoi, FieldInv, Grid, TypeOK, Filed, FiledOnce, Watching, WatchesOnly
<1>3. InViewKnown'
  BY <1>1 DEF aoi, FieldInv, InViewKnown, Sees
<1>4. GoneForgotten'
  BY DEF aoi, FieldInv, GoneForgotten, Hearers
<1>5. OnlyViewersHear'
  BY <1>1 DEF FieldInv, OnlyViewersHear
<1> QED BY <1>2, <1>3, <1>4, <1>5

-----------------------------------------------------------------------------
(* The steps of the field. *)

LEMMA InitField == FieldInit => FieldInv
<1> SUFFICES ASSUME FieldInit PROVE FieldInv
  OBVIOUS
<1>0. Players \cap Monsters = {} /\ Absent \notin Positions /\ MaxHits # 0
  BY KindsAssumption, PositionsAssumption, FieldAssumption
<1>1. \A i \in Monsters : SpawnAt[i] \in Positions /\ SectorOf(SpawnAt[i]) \in Sectors
  BY FieldAssumption, GeometryType
<1>2. FieldTypeOK
  <2>1. TypeOK
    BY <1>1 DEF FieldInit, TypeOK
  <2> QED BY <2>1, FieldAssumption DEF FieldInit, FieldTypeOK
<1>3. Filed /\ FiledOnce
  BY <1>0, <1>1 DEF FieldInit, Filed, FiledOnce
<1>4. Watching /\ WatchesOnly
  BY <1>0 DEF FieldInit, Watching, WatchesOnly, Id
<1>5. Grid
  BY <1>2, <1>3, <1>4 DEF Grid, FieldTypeOK
<1>6. Bodies
  BY <1>0 DEF FieldInit, Bodies, Id
<1>7. InViewKnown /\ GoneForgotten /\ OnlyViewersHear
  BY <1>0 DEF FieldInit, InViewKnown, GoneForgotten, OnlyViewersHear, Hearers, Sees, Id
<1> QED BY <1>2, <1>5, <1>6, <1>7 DEF FieldInv

\* A player enters, for the first time, again after it left, or again while
\* it is in the field.
LEMMA EnterFieldInv ==
    ASSUME FieldInv, NEW p \in Players, EnterField(p)
    PROVE  FieldInv'
<1> DEFINE told == AddTold(p, Entry)
<1>0. /\ p \in Id /\ Entry \in Positions /\ Entry # Absent /\ p \notin Monsters
      /\ Monsters \subseteq Id /\ Players \subseteq Id
  BY FieldAssumption, KindsAssumption, PositionsAssumption DEF Id
<1>1. /\ AddEntity(p, Entry) /\ churned' = churned \cup (players \cap {p})
      /\ players' = players \cup {p} /\ watchers' = Track(told, {})
      /\ scene' = Burst(p, Deliver(scene, told, {}, pos'))
      /\ UNCHANGED <<hits, mpos, timer, deadHeard>>
  BY DEF EnterField, monsters
<1>2. FieldTypeOK /\ Grid /\ Bodies
  BY DEF FieldInv
<1>3. churned \subseteq churned' /\ churned' \subseteq Players /\ (pos[p] = Absent \/ p \in churned')
  BY <1>1, <1>2 DEF FieldTypeOK, Bodies
<1>4. /\ Grid' /\ pos' = [pos EXCEPT ![p] = Entry]
      /\ Informed(told, {}) /\ Honest(told, {}) /\ Alive(told)
  BY <1>0, <1>1, <1>2, <1>3, GridAdd
<1>5. pos \in [Id -> Positions \cup {Absent}] /\ pos' \in [Id -> Positions \cup {Absent}]
  BY <1>2, <1>4 DEF Grid, TypeOK
<1>6. \A s \in Id : pos'[s] = IF s = p THEN Entry ELSE pos[s]
  BY <1>4, <1>5
<1>7. Bodies'
  BY <1>0, <1>1, <1>2, <1>6 DEF Bodies
<1>8. FieldTypeOK'
  <2>1. Deliver(scene, told, {}, pos') \in [Players -> [Id -> Positions \cup {Absent}]]
    BY <1>2, <1>5, DeliverType DEF FieldTypeOK
  <2>2. \A m \in Monsters : mpos[m] \in Positions
    BY <1>2 DEF FieldTypeOK
  <2>3. scene' \in [Players -> [Id -> Positions \cup {Absent}]]
    BY <1>0, <1>1, <1>5, <2>1, <2>2 DEF Burst
  <2>4. watchers' \subseteq Players \X Id
    BY <1>1, <1>2, <1>4 DEF FieldTypeOK, Track, Alive
  <2> QED BY <1>1, <1>2, <1>3, <1>4, <2>3, <2>4 DEF FieldTypeOK, Grid
<1>9. ASSUME NEW w \in Players, NEW s \in Id, pos'[s] # Absent
      PROVE  scene'[w][s] \in {Deliver(scene, told, {}, pos')[w][s], pos'[s]}
  <2>1. scene'[w][s] =
           IF w = p /\ s \in players \cup {p} THEN pos'[s]
           ELSE IF w = p /\ s \in Monsters THEN mpos[s]
           ELSE IF w \in players /\ s = p THEN pos'[p]
           ELSE Deliver(scene, told, {}, pos')[w][s]
    BY <1>1 DEF Burst
  <2>2. s \in Monsters => mpos[s] = pos'[s]
    BY <1>0, <1>2, <1>6, <1>9 DEF Bodies
  <2> QED BY <2>1, <2>2
<1>10. InViewKnown' /\ GoneForgotten' /\ OnlyViewersHear'
  <2>1. \A i \in Id : pos'[i] = Absent => pos[i] = Absent
    BY <1>0, <1>6
  <2> QED BY <1>1, <1>3, <1>4, <1>5, <1>9, <2>1, EventsKnown
<1> QED BY <1>4, <1>7, <1>8, <1>10 DEF FieldInv

\* A player leaves.
LEMMA RemovePlayerInv ==
    ASSUME FieldInv, NEW p \in Players, RemovePlayer(p)
    PROVE  FieldInv'
<1>0. p \in Id /\ p \notin Monsters /\ Monsters \subseteq Id /\ Players \subseteq Id
  BY KindsAssumption DEF Id
<1>1. /\ RemoveEntity(p) /\ churned' = churned \cup {p}
      /\ players' = players \ {p} /\ watchers' = Forget(p)
      /\ scene' = [Deliver(scene, {}, RemoveLeft(p), pos) EXCEPT ![p] = [s \in Id |-> Absent]]
      /\ UNCHANGED <<hits, mpos, timer, deadHeard>>
  BY DEF RemovePlayer, monsters
<1>2. FieldTypeOK /\ Grid /\ Bodies
  BY DEF FieldInv
<1>3. churned \subseteq churned' /\ churned' \subseteq Players /\ p \in churned'
  BY <1>1, <1>2 DEF FieldTypeOK
<1>4. /\ Grid' /\ pos' = [pos EXCEPT ![p] = Absent]
      /\ \A w \in Players, s \in Id :
            Sees(w, s)' => w # p /\ s # p /\ Sees(w, s) /\ pos'[s] = pos[s]
  BY <1>0, <1>1, <1>2, <1>3, GridRemove
<1>5. pos \in [Id -> Positions \cup {Absent}]
  BY <1>2 DEF Grid, TypeOK
<1>6. Bodies'
  <2>1. \A s \in Id : pos'[s] = IF s = p THEN Absent ELSE pos[s]
    BY <1>4, <1>5
  <2> QED BY <1>0, <1>1, <1>2, <2>1 DEF Bodies
<1>7. Deliver(scene, {}, RemoveLeft(p), pos) \in [Players -> [Id -> Positions \cup {Absent}]]
  BY <1>2, <1>5, DeliverType DEF FieldTypeOK
<1>8. FieldTypeOK'
  <2>1. scene' \in [Players -> [Id -> Positions \cup {Absent}]]
    BY <1>1, <1>7
  <2> QED BY <1>1, <1>2, <1>3, <1>4, <2>1 DEF FieldTypeOK, Grid, Forget
<1>9. InViewKnown' /\ GoneForgotten' /\ OnlyViewersHear'
  <2>1. \A w \in Players, s \in Id : w # p /\ s # p => scene'[w][s] = scene[w][s]
    BY <1>1, <1>7 DEF Deliver, RemoveLeft, ToWatchers
  <2> QED BY <1>0, <1>1, <1>3, <1>4, <2>1, RemovalKnown
<1> QED BY <1>4, <1>6, <1>8, <1>9 DEF FieldInv

\* A player or a monster moves: the parts both have in common.
LEMMA MovesInv ==
    ASSUME FieldInv, NEW i \in Id, NEW q \in Positions, Moves(i, q)
    PROVE  /\ pos \in [Id -> Positions \cup {Absent}]
           /\ pos[i] # Absent /\ pos' = [pos EXCEPT ![i] = q]
           /\ Grid' /\ InViewKnown' /\ GoneForgotten' /\ OnlyViewersHear'
           /\ watchers' \subseteq Players \X Id
           /\ scene' \in [Players -> [Id -> Positions \cup {Absent}]]
<1> DEFINE told == MoveTold(i, q)
           left == MoveLeft(i, q)
<1>1. /\ MoveEntity(i, q) /\ watchers' = Track(told, left) /\ churned' = churned
      /\ scene' = Deliver(scene, told, left, pos')
  BY DEF Moves
<1>2. FieldTypeOK /\ Grid
  BY DEF FieldInv
<1>3. /\ Grid' /\ pos' = [pos EXCEPT ![i] = q]
      /\ Informed(told, left) /\ Honest(told, left) /\ Alive(told)
  BY <1>1, <1>2, GridMove
<1>4. pos \in [Id -> Positions \cup {Absent}] /\ pos' \in [Id -> Positions \cup {Absent}]
  BY <1>2, <1>3 DEF Grid, TypeOK
<1>5. pos[i] # Absent /\ q # Absent
  BY <1>1, PositionsAssumption DEF MoveEntity
<1>6. \A j \in Id : pos'[j] = Absent => pos[j] = Absent
  BY <1>3, <1>4, <1>5
<1>7. InViewKnown' /\ GoneForgotten' /\ OnlyViewersHear'
  <2>1. \A w \in Players, s \in Id :
          pos'[s] # Absent => scene'[w][s] \in {Deliver(scene, told, left, pos')[w][s], pos'[s]}
    BY <1>1
  <2> HIDE DEF told, left
  <2> QED BY <1>1, <1>3, <1>4, <1>6, <2>1, EventsKnown
<1>8. watchers' \subseteq Players \X Id
  BY <1>1, <1>2, <1>3 DEF FieldTypeOK, Track, Alive
<1>9. scene' \in [Players -> [Id -> Positions \cup {Absent}]]
  BY <1>1, <1>2, <1>4, DeliverType DEF FieldTypeOK
<1> QED BY <1>3, <1>4, <1>5, <1>7, <1>8, <1>9

LEMMA PlayerMovesInv ==
    ASSUME FieldInv, NEW p \in Players, NEW q \in Positions, PlayerMoves(p, q)
    PROVE  FieldInv'
<1>0. /\ p \in Id /\ p \notin Monsters /\ Monsters \subseteq Id /\ Players \subseteq Id
      /\ q # Absent
  BY KindsAssumption, PositionsAssumption DEF Id
<1>1. p \in players /\ Moves(p, q) /\ UNCHANGED <<players, hits, mpos, timer, deadHeard, churned>>
  BY DEF PlayerMoves, Moves
<1>2. /\ pos \in [Id -> Positions \cup {Absent}] /\ pos' = [pos EXCEPT ![p] = q]
      /\ Grid' /\ InViewKnown' /\ GoneForgotten' /\ OnlyViewersHear'
      /\ watchers' \subseteq Players \X Id
      /\ scene' \in [Players -> [Id -> Positions \cup {Absent}]]
  BY <1>0, <1>1, MovesInv
<1>3. FieldTypeOK /\ Bodies
  BY DEF FieldInv
<1>4. FieldTypeOK'
  BY <1>1, <1>2, <1>3 DEF FieldTypeOK, Grid
<1>5. Bodies'
  <2>1. \A s \in Id : pos'[s] = IF s = p THEN q ELSE pos[s]
    BY <1>2
  <2> QED BY <1>0, <1>1, <1>3, <2>1 DEF Bodies
<1> QED BY <1>2, <1>4, <1>5 DEF FieldInv

LEMMA MonsterMovesInv ==
    ASSUME FieldInv, NEW m \in Monsters, NEW q \in Positions, MonsterMoves(m, q)
    PROVE  FieldInv'
<1>0. /\ m \in Id /\ m \notin Players /\ Monsters \subseteq Id /\ Players \subseteq Id
      /\ q # Absent
  BY KindsAssumption, PositionsAssumption DEF Id
<1>1. /\ hits[m] > 0 /\ Moves(m, q) /\ mpos' = [mpos EXCEPT ![m] = q]
      /\ UNCHANGED <<players, hits, timer, deadHeard, churned>>
  BY DEF MonsterMoves, Moves
<1>2. /\ pos \in [Id -> Positions \cup {Absent}] /\ pos' = [pos EXCEPT ![m] = q]
      /\ Grid' /\ InViewKnown' /\ GoneForgotten' /\ OnlyViewersHear'
      /\ watchers' \subseteq Players \X Id
      /\ scene' \in [Players -> [Id -> Positions \cup {Absent}]]
  BY <1>0, <1>1, MovesInv
<1>3. FieldTypeOK /\ Bodies
  BY DEF FieldInv
<1>4. FieldTypeOK'
  BY <1>1, <1>2, <1>3 DEF FieldTypeOK, Grid
<1>5. Bodies'
  <2>1. \A s \in Id : pos'[s] = IF s = m THEN q ELSE pos[s]
    BY <1>2
  <2>2. \A k \in Monsters : mpos'[k] = IF k = m THEN q ELSE mpos[k]
    BY <1>1, <1>3 DEF FieldTypeOK
  <2>3. hits[m] # 0
    BY <1>1
  <2> QED BY <1>0, <1>1, <1>3, <2>1, <2>2, <2>3 DEF Bodies
<1> QED BY <1>2, <1>4, <1>5 DEF FieldInv

\* A dead monster waits, or a living one is hit.
LEMMA WaitOrWoundInv ==
    ASSUME FieldInv, NEW m \in Monsters, SpawnWait(m) \/ \E p \in Players : Wound(p, m)
    PROVE  FieldInv'
<1>1. /\ UNCHANGED <<aoi, players, mpos, watchers, scene, deadHeard, churned>>
      /\ FieldTypeOK /\ Bodies
  BY DEF SpawnWait, Wound, FieldInv
<1>2. Grid' /\ InViewKnown' /\ GoneForgotten' /\ OnlyViewersHear'
  BY <1>1, QuietKnown
<1>3. /\ hits' \in [Monsters -> 0..MaxHits] /\ timer' \in [Monsters -> 0..RespawnDelay]
      /\ \A k \in Monsters : hits'[k] = 0 <=> hits[k] = 0
  <2>1. CASE SpawnWait(m)
    BY <1>1, <2>1, FieldAssumption DEF SpawnWait, FieldTypeOK
  <2>2. CASE \E p \in Players : Wound(p, m)
    BY <1>1, <2>2, FieldAssumption DEF Wound, FieldTypeOK
  <2> QED BY <2>1, <2>2
<1>4. FieldTypeOK'
  BY <1>1, <1>2, <1>3 DEF FieldTypeOK, Grid
<1>5. Bodies'
  BY <1>1, <1>3 DEF Bodies, aoi
<1> QED BY <1>2, <1>4, <1>5 DEF FieldInv

\* A dead monster comes back.
LEMMA RespawnInv ==
    ASSUME FieldInv, NEW m \in Monsters, Respawn(m)
    PROVE  FieldInv'
<1> DEFINE told == AddTold(m, SpawnAt[m])
<1>0. /\ m \in Id /\ m \notin Players /\ Monsters \subseteq Id /\ Players \subseteq Id
      /\ SpawnAt[m] \in Positions /\ SpawnAt[m] # Absent /\ MaxHits \in Nat /\ MaxHits # 0
  BY KindsAssumption, PositionsAssumption, FieldAssumption DEF Id
<1>1. /\ hits[m] = 0 /\ AddEntity(m, SpawnAt[m])
      /\ hits' = [hits EXCEPT ![m] = MaxHits] /\ mpos' = [mpos EXCEPT ![m] = SpawnAt[m]]
      /\ timer' = [timer EXCEPT ![m] = 0] /\ watchers' = Track(told, {})
      /\ scene' = Deliver(scene, told, {}, pos')
      /\ deadHeard' \subseteq deadHeard /\ UNCHANGED <<players, churned>>
  BY DEF Respawn
<1>2. FieldTypeOK /\ Grid /\ Bodies
  BY DEF FieldInv
<1>3. pos[m] = Absent /\ churned \subseteq churned' /\ churned' \subseteq Players
  BY <1>1, <1>2 DEF FieldTypeOK, Bodies
<1>4. /\ Grid' /\ pos' = [pos EXCEPT ![m] = SpawnAt[m]]
      /\ Informed(told, {}) /\ Honest(told, {}) /\ Alive(told)
  BY <1>0, <1>1, <1>2, <1>3, GridAdd
<1>5. pos \in [Id -> Positions \cup {Absent}] /\ pos' \in [Id -> Positions \cup {Absent}]
  BY <1>2, <1>4 DEF Grid, TypeOK
<1>6. \A s \in Id : pos'[s] = IF s = m THEN SpawnAt[m] ELSE pos[s]
  BY <1>4, <1>5
<1>7. FieldTypeOK'
  <2>1. /\ hits' \in [Monsters -> 0..MaxHits] /\ mpos' \in [Monsters -> Positions]
        /\ timer' \in [Monsters -> 0..RespawnDelay]
    BY <1>0, <1>1, <1>2, FieldAssumption DEF FieldTypeOK
  <2>2. scene' \in [Players -> [Id -> Positions \cup {Absent}]]
    BY <1>1, <1>2, <1>5, DeliverType DEF FieldTypeOK
  <2>3. watchers' \subseteq Players \X Id
    BY <1>1, <1>2, <1>4 DEF FieldTypeOK, Track, Alive
  <2> QED BY <1>1, <1>2, <1>4, <2>1, <2>2, <2>3 DEF FieldTypeOK, Grid
<1>8. Bodies'
  <2>1. \A k \in Monsters : /\ mpos'[k] = IF k = m THEN SpawnAt[m] ELSE mpos[k]
                            /\ hits'[k] = IF k = m THEN MaxHits ELSE hits[k]
    BY <1>1, <1>2 DEF FieldTypeOK
  <2> QED BY <1>0, <1>1, <1>2, <1>6, <2>1 DEF Bodies
<1>9. InViewKnown' /\ GoneForgotten' /\ OnlyViewersHear'
  <2>1. \A i \in Id : pos'[i] = Absent => pos[i] = Absent
    BY <1>0, <1>6
  <2>2. \A w \in Players, s \in Id :
          pos'[s] # Absent => scene'[w][s] \in {Deliver(scene, told, {}, pos')[w][s], pos'[s]}
    BY <1>1
  <2> HIDE DEF told
  <2> QED BY <1>1, <1>3, <1>4, <1>5, <2>1, <2>2, EventsKnown
<1> QED BY <1>4, <1>7, <1>8, <1>9 DEF FieldInv

\* A monster is killed.
LEMMA KillInv ==
    ASSUME FieldInv, NEW p \in Players, NEW m \in Monsters, Kill(p, m)
    PROVE  FieldInv'
<1>0. m \in Id /\ m \notin Players /\ Monsters \subseteq Id /\ Players \subseteq Id
  BY KindsAssumption DEF Id
<1>1. /\ RemoveEntity(m) /\ hits' = [hits EXCEPT ![m] = 0]
      /\ timer' = [timer EXCEPT ![m] = 0] /\ watchers' = Forget(m)
      /\ scene' = Deliver(scene, {}, RemoveLeft(m), pos)
      /\ deadHeard' \subseteq deadHeard \cup (Players \X Monsters)
      /\ UNCHANGED <<players, mpos, churned>>
  BY DEF Kill, BroadcastAiState, Hearers
<1>2. FieldTypeOK /\ Grid /\ Bodies
  BY DEF FieldInv
<1>3. /\ Grid' /\ pos' = [pos EXCEPT ![m] = Absent]
      /\ \A w \in Players, s \in Id :
            Sees(w, s)' => w # m /\ s # m /\ Sees(w, s) /\ pos'[s] = pos[s]
  BY <1>0, <1>1, <1>2, GridRemove DEF FieldTypeOK
<1>4. pos \in [Id -> Positions \cup {Absent}]
  BY <1>2 DEF Grid, TypeOK
<1>5. FieldTypeOK'
  <2>1. hits' \in [Monsters -> 0..MaxHits] /\ timer' \in [Monsters -> 0..RespawnDelay]
    BY <1>1, <1>2, FieldAssumption DEF FieldTypeOK
  <2>2. scene' \in [Players -> [Id -> Positions \cup {Absent}]]
    BY <1>1, <1>2, <1>4, DeliverType DEF FieldTypeOK
  <2> QED BY <1>1, <1>2, <1>3, <2>1, <2>2 DEF FieldTypeOK, Grid, Forget
<1>6. Bodies'
  <2>1. \A s \in Id : pos'[s] = IF s = m THEN Absent ELSE pos[s]
    BY <1>3, <1>4
  <2>2. \A k \in Monsters : hits'[k] = IF k = m THEN 0 ELSE hits[k]
    BY <1>1, <1>2 DEF FieldTypeOK
  <2> QED BY <1>0, <1>1, <1>2, <2>1, <2>2 DEF Bodies
<1>7. InViewKnown' /\ GoneForgotten' /\ OnlyViewersHear'
  <2>1. \A w \in Players, s \in Id : w # m /\ s # m => scene'[w][s] = scene[w][s]
    BY <1>1 DEF Deliver, RemoveLeft, ToWatchers
  <2> QED BY <1>0, <1>1, <1>3, <2>1, RemovalKnown
<1> QED BY <1>3, <1>5, <1>6, <1>7 DEF FieldInv

\* A dead monster is hit.
LEMMA HitDeadInv ==
    ASSUME FieldInv, NEW p \in Players, NEW m \in Monsters, HitDead(p, m)
    PROVE  FieldInv'
<1>1. /\ hits[m] = 0 /\ timer' = [timer EXCEPT ![m] = 0] /\ watchers' = Forget(m)
      /\ deadHeard' \subseteq deadHeard \cup (Players \X Monsters)
      /\ UNCHANGED <<aoi, players, hits, mpos, scene, churned>>
      /\ FieldTypeOK /\ Bodies
  BY DEF HitDead, BroadcastAiState, Hearers, FieldInv
<1>2. watchers' \subseteq watchers /\ \A ws \in watchers : pos[ws[2]] # Absent => ws \in watchers'
  BY <1>1 DEF Forget, Bodies
<1>3. Grid' /\ InViewKnown' /\ GoneForgotten' /\ OnlyViewersHear'
  BY <1>1, <1>2, QuietKnown
<1>4. timer' \in [Monsters -> 0..RespawnDelay]
  BY <1>1, FieldAssumption DEF FieldTypeOK
<1>5. FieldTypeOK'
  BY <1>1, <1>2, <1>3, <1>4 DEF FieldTypeOK, Grid
<1>6. Bodies'
  BY <1>1 DEF Bodies, aoi
<1> QED BY <1>3, <1>5, <1>6 DEF FieldInv

-----------------------------------------------------------------------------
\* The invariant of the reachable states of a field.
THEOREM FieldInductive == FieldSpec => []FieldInv
<1>1. FieldInv /\ [FieldNext]_fieldVars => FieldInv'
  <2> SUFFICES ASSUME FieldInv, [FieldNext]_fieldVars PROVE FieldInv'
    OBVIOUS
  <2>1. CASE UNCHANGED fieldVars
    <3>1. UNCHANGED <<aoi, players, hits, mpos, timer, watchers, scene, deadHeard, churned>>
      BY <2>1 DEF fieldVars, monsters
    <3>2. Grid' /\ InViewKnown' /\ GoneForgotten' /\ OnlyViewersHear'
      BY <3>1, QuietKnown
    <3> QED BY <3>1, <3>2 DEF FieldInv, FieldTypeOK, Grid, Bodies, aoi
  <2>2. ASSUME NEW p \in Players, EnterField(p) PROVE FieldInv'
    BY <2>2, EnterFieldInv
  <2>3. ASSUME NEW p \in Players, RemovePlayer(p) PROVE FieldInv'
    BY <2>3, RemovePlayerInv
  <2>4. ASSUME NEW p \in Players, NEW q \in Positions, PlayerMoves(p, q) PROVE FieldInv'
    BY <2>4, PlayerMovesInv
  <2>5. ASSUME NEW m \in Monsters, NEW q \in Positions, MonsterMoves(m, q) PROVE FieldInv'
    BY <2>5, MonsterMovesInv
  <2>6. ASSUME NEW m \in Monsters, SpawnWait(m) \/ \E p \in Players : Wound(p, m)
        PROVE  FieldInv'
    BY <2>6, WaitOrWoundInv
  <2>7. ASSUME NEW m \in Monsters, Respawn(m) PROVE FieldInv'
    BY <2>7, RespawnInv
  <2>8. ASSUME NEW p \in Players, NEW m \in Monsters, Kill(p, m) PROVE FieldInv'
    BY <2>8, KillInv
  <2>9. ASSUME NEW p \in Players, NEW m \in Monsters, HitDead(p, m) PROVE FieldInv'
    BY <2>9, HitDeadInv
  <2> QED BY <2>1, <2>2, <2>3, <2>4, <2>5, <2>6, <2>7, <2>8, <2>9 DEF FieldNext
<1> QED BY <1>1, InitField, PTL DEF FieldSpec

\* Every state of a field is well-typed.
THEOREM FieldTypes == FieldSpec => []FieldTypeOK
BY FieldInductive, PTL DEF FieldInv

\* Whoever is in a player's view is in its scene and broadcasts to it, through
\* kills, respawns, departures and second entries.
THEOREM NobodyMissing == FieldSpec => []InViewKnown
BY FieldInductive, PTL DEF FieldInv

\* What left the grid has no watchers left.
THEOREM NothingLingers == FieldSpec => []GoneForgotten
BY FieldInductive, PTL DEF FieldInv

\* Broadcasts between those that neither left nor entered again go to viewers
\* only.
THEOREM NoEavesdropper == FieldSpec => []OnlyViewersHear
BY FieldInductive, PTL DEF FieldInv
=============================================================================
