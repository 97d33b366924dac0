---------------------------- MODULE FieldWorker ----------------------------
(***************************************************************************)
(* One field: the players and monsters that FieldWorker                    *)
(* (worker/fieldWorker.cpp) puts into the grid of AoiWorld, the watcher    *)
(* table of FieldAoiSystem (field/FieldAoiSystem.cpp), through which state *)
(* and stat broadcasts go, and the death and respawn of monsters           *)
(* (field/monster/MonsterWorld.cpp, Systems/SpawnSystem.cpp).              *)
(*                                                                         *)
(* Abstractions.                                                           *)
(*  - Handlers and ticks are atomic, as if one thread ran them all.        *)
(*  - A tick moves a player or a monster anywhere: directions and speeds   *)
(*    are not modelled, nor is the combat against players.                 *)
(*  - A monster's hp is the number of hits (10 hp each) it has left;       *)
(*    pendingRespawn is true exactly while it has none.                    *)
(*  - Player::pos_ equals the player's position in the grid.  A monster's  *)
(*    transform does too while it lives, and outlives it: mpos.            *)
(*  - Every player has a live session: scene is what its client was sent.  *)
(***************************************************************************)
EXTENDS AoiWorld

CONSTANTS
    Entry,         \* where OnRecv_EnterField puts a player
    SpawnAt,       \* SpawnAt[m]: spawnX, spawnY of monster m
    MaxHits,       \* hits a monster takes
    RespawnDelay,  \* CSpawnInfo::respawnDelay, in ticks; create_monster leaves 0
    ReEnter,       \* whether EnterField may be handled for a player in the field
    Leave          \* whether the owner of the sessions calls remove_player

ASSUME FieldAssumption ==
    /\ Entry \in Positions /\ SpawnAt \in [Monsters -> Positions]
    /\ MaxHits \in Nat \ {0} /\ RespawnDelay \in Nat
    /\ ReEnter \in BOOLEAN /\ Leave \in BOOLEAN

VARIABLES
    players,    \* players_
    hits,       \* stats.hp of each monster, in hits
    mpos,       \* transform of each monster
    timer,      \* respawnTimer of each monster
    watchers,   \* FieldAoiSystem::watchers_, as pairs <<watcher, subject>>
    scene,      \* scene[w][s]: where w's client was last told that s is
    deadHeard,  \* history: <<w, m>> if w was sent the Dead state of m's last death
    churned     \* history: the players that left, or entered again

aoi == <<pos, subscribed, occupied, watched, shown>>
monsters == <<hits, mpos, timer>>
fieldVars == <<aoi, players, monsters, watchers, scene, deadHeard, churned>>

-----------------------------------------------------------------------------
(* FieldAoiSystem. *)
\* Faults: only Leave events are tracked; Leave events are not tracked.
TrackLeavesOnly(told, left) == watchers \ left
TrackNoLeaves(told, left) == watchers \cup told

\* The callback of setup_aoi_callback, for all events of one operation.
Track(told, left) == (watchers \ left) \cup told
\* Fault: erased as a watcher instead of as a subject.
ForgetWatcher(i) == { ws \in watchers : ws[1] # i }

\* remove_entity: the events of the removal are tracked, then the subject's
\* list is erased; the lists it is in as a watcher are not.
Forget(i) == { ws \in watchers : ws[2] # i }

\* for_each_watcher: the players a broadcast about s goes to.
Hearers(wat, s) == { w \in Players : <<w, s>> \in wat }

\* broadcast_ai_state: the pairs <<player, monster>> of its receivers.
BroadcastAiState(wat, m) == Hearers(wat, m) \X {m}

-----------------------------------------------------------------------------
(* Entering and leaving. *)

\* send_field_enter, to the newcomer about everybody in players_ and in
\* `monsters' (dead ones included), and to everybody about the newcomer.
Burst(p, known) ==
    [w \in Players |-> [s \in Id |->
        IF w = p /\ s \in players \cup {p} THEN pos'[s]
        ELSE IF w = p /\ s \in Monsters THEN mpos[s]
        ELSE IF w \in players /\ s = p THEN pos'[p]
        ELSE known[w][s]]]

\* OnRecv_EnterField and add_player.  A player whose second EnterField was
\* read before the first was handled enters again, wherever it is by then.
EnterField(p) ==
    /\ ReEnter \/ p \notin players
    /\ AddEntity(p, Entry)
    /\ players' = players \cup {p}
    /\ watchers' = Track(AddTold(p, Entry), {})
    /\ scene' = Burst(p, Deliver(scene, AddTold(p, Entry), {}, pos'))
    /\ churned' = churned \cup (players \cap {p})
    /\ UNCHANGED <<monsters, deadHeard>>

\* remove_player.
RemovePlayer(p) ==
    /\ Leave /\ p \in players
    /\ RemoveEntity(p)
    /\ players' = players \ {p}
    /\ watchers' = Forget(p)
    /\ scene' = [Deliver(scene, {}, RemoveLeft(p), pos)
                   EXCEPT ![p] = [s \in Id |-> Absent]]
    /\ churned' = churned \cup {p}
    /\ UNCHANGED <<monsters, deadHeard>>

-----------------------------------------------------------------------------
(* Ticks. *)

Moves(i, q) ==
    /\ MoveEntity(i, q)
    /\ watchers' = Track(MoveTold(i, q), MoveLeft(i, q))
    /\ scene' = Deliver(scene, MoveTold(i, q), MoveLeft(i, q), pos')
    /\ UNCHANGED <<players, hits, timer, deadHeard, churned>>

\* tick_players.
PlayerMoves(p, q) == p \in players /\ Moves(p, q) /\ UNCHANGED mpos

\* MovementSystem: a living monster; the move of its transform and of its
\* entity in the grid go together.
MonsterMoves(m, q) ==
    /\ hits[m] > 0
    /\ Moves(m, q)
    /\ mpos' = [mpos EXCEPT ![m] = q]

\* SpawnSystem: a dead monster with a positive delay counts ticks, ...
SpawnWait(m) ==
    /\ hits[m] = 0 /\ RespawnDelay > 0 /\ timer[m] + 1 < RespawnDelay
    /\ timer' = [timer EXCEPT ![m] = @ + 1]
    /\ UNCHANGED <<aoi, players, hits, mpos, watchers, scene, deadHeard, churned>>

\* ... and comes back where it was spawned (spawnInAoi; its remove_entity
\* finds nothing, the death removed the monster).
Respawn(m) ==
    /\ hits[m] = 0 /\ RespawnDelay > 0 /\ timer[m] + 1 >= RespawnDelay
    /\ AddEntity(m, SpawnAt[m])
    /\ hits' = [hits EXCEPT ![m] = MaxHits]
    /\ mpos' = [mpos EXCEPT ![m] = SpawnAt[m]]
    /\ timer' = [timer EXCEPT ![m] = 0]
    /\ watchers' = Track(AddTold(m, SpawnAt[m]), {})
    /\ scene' = Deliver(scene, AddTold(m, SpawnAt[m]), {}, pos')
    /\ deadHeard' = { wm \in deadHeard : wm[2] # m }
    /\ UNCHANGED <<players, churned>>

-----------------------------------------------------------------------------
(* handle_skill: any player hits any monster, however far, dead or alive.   *)

Wound(p, m) ==
    /\ p \in players /\ hits[m] > 1
    /\ hits' = [hits EXCEPT ![m] = @ - 1]
    /\ UNCHANGED <<aoi, players, mpos, timer, watchers, scene, deadHeard, churned>>

\* The last hit: kill_monster, removeFromAoi, then the broadcast of Dead.
Kill(p, m) ==
    /\ p \in players /\ hits[m] = 1
    /\ RemoveEntity(m)
    /\ hits' = [hits EXCEPT ![m] = 0]
    /\ timer' = [timer EXCEPT ![m] = 0]
    /\ watchers' = Forget(m)
    /\ scene' = Deliver(scene, {}, RemoveLeft(m), pos)
    /\ deadHeard' = { wm \in deadHeard : wm[2] # m } \cup BroadcastAiState(watchers', m)
    /\ UNCHANGED <<players, mpos, churned>>

\* A hit on a dead monster kills it again: its respawn starts over.
HitDead(p, m) ==
    /\ p \in players /\ hits[m] = 0
    /\ timer' = [timer EXCEPT ![m] = 0]
    /\ watchers' = Forget(m)
    /\ deadHeard' = deadHeard \cup BroadcastAiState(watchers', m)
    /\ UNCHANGED <<aoi, players, hits, mpos, scene, churned>>

-----------------------------------------------------------------------------
\* The constructor, before the first player: SpawnMonstersEvenGrid.
FieldInit ==
    /\ pos = [i \in Id |-> IF i \in Monsters THEN SpawnAt[i] ELSE Absent]
    /\ subscribed = [w \in Players |-> {}]
    /\ occupied = [i \in Id |-> IF i \in Monsters THEN {SectorOf(SpawnAt[i])} ELSE {}]
    /\ watched = [w \in Players |-> {}]
    /\ shown = [w \in Players |-> [s \in Id |-> Absent]]
    /\ players = {}
    /\ hits = [m \in Monsters |-> MaxHits]
    /\ mpos = SpawnAt
    /\ timer = [m \in Monsters |-> 0]
    /\ watchers = {}
    /\ scene = [w \in Players |-> [s \in Id |-> Absent]]
    /\ deadHeard = {}
    /\ churned = {}

FieldNext ==
    \/ \E p \in Players :
          \/ EnterField(p) \/ RemovePlayer(p)
          \/ \E q \in Positions : PlayerMoves(p, q)
          \/ \E m \in Monsters : Wound(p, m) \/ Kill(p, m) \/ HitDead(p, m)
    \/ \E m \in Monsters :
          \/ \E q \in Positions : MonsterMoves(m, q)
          \/ SpawnWait(m) \/ Respawn(m)

FieldSpec == FieldInit /\ [][FieldNext]_fieldVars

-----------------------------------------------------------------------------
(* Properties. *)

FieldTypeOK ==
    /\ TypeOK
    /\ players \subseteq Players
    /\ hits \in [Monsters -> 0..MaxHits]
    /\ mpos \in [Monsters -> Positions]
    /\ timer \in [Monsters -> 0..RespawnDelay]
    /\ watchers \subseteq Players \X Id
    /\ scene \in [Players -> [Id -> Positions \cup {Absent}]]
    /\ deadHeard \subseteq Players \X Monsters
    /\ churned \subseteq Players

\* Nobody in view is missing: whoever is in a player's view is in its scene,
\* at the current position, and counts the player among its watchers, so that
\* state and stat broadcasts reach it.  Kills, respawns, players that leave
\* and players that enter twice leave no gap.
InViewKnown ==
    \A w \in Players : \A s \in Id \ {w} :
        Sees(w, s) => scene[w][s] = pos[s] /\ <<w, s>> \in watchers

\* Nobody is told about the state of what is gone: an entity that is not in
\* the grid has no watchers, whichever events its removal raised.
GoneForgotten == \A s \in Id : pos[s] = Absent => Hearers(watchers, s) = {}

\* Broadcasts go to viewers only, as long as neither of the two left or entered
\* again, whatever other players and the monsters do: remove_entity leaves the
\* entries of a player that goes, and add_entity those of one that comes back.
OnlyViewersHear ==
    \A ws \in watchers :
        ws[1] # ws[2] /\ {ws[1], ws[2]} \cap churned = {} => Sees(ws[1], ws[2])

\* fieldWorker.cpp l. 363-366 broadcasts Dead when a monster dies, README.md
\* promises state broadcasts: whoever watched the monster hears of its death.
DeathHeard ==
    [][\A m \in Monsters :
          hits[m] > 0 /\ hits'[m] = 0 => Hearers(watchers, m) \X {m} \subseteq deadHeard'
      ]_fieldVars

=============================================================================
