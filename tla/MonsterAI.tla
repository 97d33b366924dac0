----------------------------- MODULE MonsterAI -----------------------------
(***************************************************************************)
(* One monster of a field and the players around it.  MonsterWorld::update *)
(* runs SpawnSystem, AISystem, MovementSystem and CombatSystem one after   *)
(* the other on the tick thread (field/monster/MonsterWorld.cpp, Systems); *)
(* skill hits come from the thread of the FieldWorker, without a lock, and *)
(* fall between any two of the steps below, inside AISystem::update too.   *)
(*                                                                         *)
(* Abstractions.                                                           *)
(*  - The field is a line seen from the monster: gap[p] is the signed      *)
(*    distance to player p, and all distances of Far or more are one.      *)
(*  - hp is the number of hits (10 hp each) the monster has left.          *)
(*  - Timers count ticks of 0.1 s, idlePatrolTimer counts thinks: every    *)
(*    think takes 0.3 s off it.  In float, 0.3 - 0.1 - 0.1 - 0.1 is above  *)
(*    0 by 1.5e-8: thinks are 4 ticks apart; 1.0 s and 0.9 s are 10 and 9. *)
(*  - The policy network and the random numbers answer anything.           *)
(*  - The hp of the players is in Storage (Hit), and who the broadcasts of *)
(*    the monster's state go to in FieldWorker.                            *)
(***************************************************************************)
EXTENDS Integers, FiniteSets

CONSTANTS
    Players,
    None,           \* targetId 0
    Far,            \* bound: from here on all distances look alike
    Reach,          \* Reach[archer], and so on: attackRange (1.3, archers 17)
    Sight,          \* sightRange (11, archers 18)
    Disengage,      \* disengageRange (15.4, archers 25.2)
    FleeEnd,        \* fleeEndDist (16, archers 22)
    Kite,           \* desiredMin, of archers (11.9)
    Pace,           \* Pace[s]: how far moveSpeed s takes the monster in a tick
    PlayerPace,     \* bound: how far a player gets between two monster ticks
    ThinkTicks, AttackTicks, CdTicks,   \* 4, 10 and 9 (see above)
    FleeThinks,     \* fleeMinTime, in thinks: 4
    PatrolThinks,   \* lengths of a patrol, in thinks: 5..12
    IdleThinks,     \* lengths of a rest, in thinks: 3..7
    MaxHits, LowHits,   \* 20 hits, the last 5 of them low hp
    Respawns,       \* whether respawnDelay is set (create_monster leaves 0)
    Leave           \* whether the owner of the sessions calls remove_player

States == {"Idle", "Patrol", "Chase", "Attack", "Return", "Dead"}

\* moveSpeed: 0, patrol_speed, chase_speed, flee_speed, or the 6.0 that
\* MovementSystem falls back to.
Speeds == {"none", "patrol", "chase", "flee", "default"}

\* No tick takes a monster as far as disengageRange: it walks less than 1 in one.
ASSUME RangeAssumption ==
    /\ Far \in Nat /\ PlayerPace \in Nat /\ Pace \in [Speeds -> Nat]
    /\ Reach \in [BOOLEAN -> 0..Far] /\ Sight \in [BOOLEAN -> 0..Far]
    /\ Disengage \in [BOOLEAN -> 0..Far] /\ FleeEnd \in [BOOLEAN -> 0..Far]
    /\ Kite \in Nat
    /\ \A s \in Speeds, a \in BOOLEAN : Pace[s] <= Disengage[a]

\* A think falls into the cooldown and into the wait for a blow: 4, 9 and 10.
ASSUME TimerAssumption ==
    /\ ThinkTicks \in Nat \ {0} /\ AttackTicks \in Nat \ {0} /\ CdTicks \in Nat
    /\ ThinkTicks < CdTicks /\ ThinkTicks <= AttackTicks
    /\ FleeThinks \in Nat \ {0}
    /\ PatrolThinks \subseteq Nat \ {0} /\ IdleThinks \subseteq Nat \ {0}

ASSUME HitsAssumption ==
    /\ LowHits \in Nat /\ MaxHits \in Nat /\ LowHits < MaxHits
    /\ Respawns \in BOOLEAN /\ Leave \in BOOLEAN /\ None \notin Players

VARIABLES
    archer,       \* monsterType = 1
    players,      \* players_
    gap,
    phase,        \* the next step of the tick
    hp, dirty,    \* stats
    state, target, think, attackTimer, attackCd, roam,   \* CAI (roam: idlePatrolTimer)
    dir, speed,   \* CAI: moveDir, moveSpeed
    synced,       \* CAI: netSynced
    old,          \* oldState, while AISystem looks at the monster, or None
    told,         \* history: the state last broadcast since it (re)appeared, or None
    owed,         \* history: its hp changed, and the clients must still be told
    slain,        \* history: it was dead when AISystem came to it in this tick
    jumped,       \* history: players that entered since the last think
    since         \* history: ticks since the last strike, LongAgo at most, and if
                  \* the target has left in the meantime

env == <<archer, players, gap>>
stats == <<hp, dirty>>
mind == <<state, target, roam>>
clocks == <<think, attackTimer, attackCd>>
motion == <<dir, speed>>
hearsay == <<synced, old, told, owed>>
history == <<slain, jumped, since>>
vars == <<env, phase, stats, mind, clocks, motion, hearsay, history>>

Abs(n) == IF n < 0 THEN -n ELSE n
Sign(n) == IF n > 0 THEN 1 ELSE IF n < 0 THEN -1 ELSE 0
Saturate(n) == IF n > Far THEN Far ELSE IF n < -Far THEN -Far ELSE n
Dist(p) == Abs(gap[p])
Gaps == (-Far)..Far
LongAgo == CdTicks + AttackTicks

-----------------------------------------------------------------------------
(* Around the ticks. *)

\* OnRecv_EnterField and add_player put a player at the entry, wherever the
\* monster is, and again if its client asks again.
Enter(p, d) ==
    /\ gap' = [gap EXCEPT ![p] = d]
    /\ players' = players \cup {p}
    /\ jumped' = jumped \cup {p}
    /\ UNCHANGED <<archer, phase, stats, mind, clocks, motion, hearsay, slain, since>>

\* remove_player.  A monster that attacked p keeps its state, and the timer of
\* its blow runs on, until a think with roam = 0: whoever comes into reach then
\* is struck at once.
Remove(p) ==
    /\ Leave /\ p \in players
    /\ players' = players \ {p}
    /\ gap' = [gap EXCEPT ![p] = Far]
    /\ since' = IF p = target THEN LongAgo ELSE since
    /\ UNCHANGED <<archer, phase, stats, mind, clocks, motion, hearsay, slain, jumped>>

\* Fault: the stats are not marked.
HurtUnmarked ==
    /\ dirty' = dirty
    /\ owed' = (phase # "clean")
    /\ UNCHANGED <<env, phase, target, roam, clocks, motion, synced, old, history>>

\* player_attack_monster, on the thread of the field.  Of a hit that
\* falls between the broadcast of the stats and the reset of dirty the clients
\* never hear: it is not owed.
Hurt ==
    /\ dirty' = TRUE
    /\ owed' = (phase # "clean")
    /\ UNCHANGED <<env, phase, target, roam, clocks, motion, synced, old, history>>

Wound == hp > 1 /\ hp' = hp - 1 /\ Hurt /\ UNCHANGED <<state, told>>

\* The last hit, and every hit on a dead monster: kill_monster, and the
\* broadcast of handle_skill.
Kill == hp <= 1 /\ hp' = 0 /\ Hurt /\ state' = "Dead" /\ told' = "Dead"

-----------------------------------------------------------------------------
(* A tick: the players that move do so (update_world runs tick_players in   *)
(* between), then SpawnSystem::update.  FieldWorker counts its delay.       *)

Tick ==
    /\ phase = "tick" /\ phase' = "sync"
    /\ since' = IF since < LongAgo THEN since + 1 ELSE since
    /\ UNCHANGED <<archer, players, dirty, roam, attackCd, motion, synced, old, slain,
                   jumped>>

PlayersMove ==
    /\ \E step \in [players -> (-PlayerPace)..PlayerPace] :
          gap' = [p \in Players |->
                    IF p \in players THEN Saturate(gap[p] + step[p]) ELSE gap[p]]
    /\ UNCHANGED <<hp, state, target, think, attackTimer, told, owed>>

\* Nothing is broadcast and nothing marked: the clients see a new monster.
Respawn ==
    /\ Respawns /\ hp = 0 /\ hp' = MaxHits
    /\ \E d \in [players -> Gaps] :
          gap' = [p \in Players |-> IF p \in players THEN d[p] ELSE Far]
    /\ state' = "Idle" /\ target' = None
    /\ think' = 0 /\ attackTimer' = 0
    /\ told' = None /\ owed' = FALSE

-----------------------------------------------------------------------------
(* set_monster_move, and what AISystem::update does before it thinks. *)

Halt == dir' = 0 /\ speed' = "none"

\* A null direction or speed stops the monster, whatever the other one is.
Walk(d, s) == IF d = 0 \/ s = "none" THEN Halt ELSE dir' = d /\ speed' = s

Still == {"Idle", "Attack", "Dead"}

\* Fault: the cooldown is not held at 0.
CooledBelowZero == attackCd - 1

Cooled == IF attackCd > 0 THEN attackCd - 1 ELSE 0

\* The cooldown, the first broadcast, and the broadcast of changed stats.
Sync ==
    /\ phase = "sync"
    /\ old' = state
    /\ attackCd' = Cooled
    /\ synced' = TRUE
    /\ told' = IF synced THEN told ELSE state
    /\ owed' = (synced /\ ~dirty /\ owed)
    /\ IF synced THEN UNCHANGED motion
       ELSE IF state \in Still THEN Halt ELSE Walk(dir, "patrol")
    /\ slain' = (hp = 0)
    /\ phase' = IF dirty THEN "clean" ELSE "check"
    /\ UNCHANGED <<env, stats, mind, think, attackTimer, jumped, since>>

\* st.dirty = false, after the broadcast.
Clean ==
    /\ phase = "clean" /\ phase' = "check"
    /\ dirty' = FALSE
    /\ UNCHANGED <<env, hp, mind, clocks, motion, hearsay, history>>

\* The broadcast of a state that is not the one AISystem found.
Say ==
    /\ told' = IF state' # old THEN state' ELSE told
    /\ old' = None
    /\ UNCHANGED <<synced, owed>>

\* Fault: a dead monster keeps the state it has.
CorpseInState ==
    /\ phase = "check" /\ phase' = "move"
    /\ hp = 0
    /\ state' = state /\ target' = None
    /\ Halt /\ Say
    /\ UNCHANGED <<env, stats, roam, clocks, history>>

Corpse ==
    /\ phase = "check" /\ phase' = "move"
    /\ hp = 0
    /\ state' = "Dead" /\ target' = None
    /\ Halt /\ Say
    /\ UNCHANGED <<env, stats, roam, clocks, history>>

Wait ==
    /\ phase = "check" /\ phase' = "move"
    /\ hp > 0 /\ think > 1
    /\ think' = think - 1
    /\ old' = None
    /\ UNCHANGED <<env, stats, mind, attackTimer, attackCd, motion, synced, told, owed,
                   history>>

WakeUp ==
    /\ phase = "check" /\ phase' = "think"
    /\ hp > 0 /\ think <= 1
    /\ think' = ThinkTicks
    /\ UNCHANGED <<env, stats, mind, attackTimer, attackCd, motion, hearsay, history>>

-----------------------------------------------------------------------------
(* AISystem::update, a think.  Each action is one way out of it; t is the   *)
(* target it ends up with.                                                  *)

\* findClosestPlayer: one of the closest in sight; their hp does not matter.
Closest ==
    { p \in players : Dist(p) < Sight[archer] /\ \A q \in players : Dist(p) <= Dist(q) }

\* The old target while it is in the field, else the closest player.
Pick == IF target \in players THEN {target} ELSE IF Closest = {} THEN {None} ELSE Closest

\* Fault: the distance is compared with the square of the range.
TooFarSquared(t) == t # None /\ Dist(t) > Disengage[archer] * Disengage[archer]

TooFar(t) == t # None /\ Dist(t) > Disengage[archer]
Low == hp <= LowHits
Away(t) == IF gap[t] = 0 THEN dir ELSE -Sign(gap[t])

\* What every way out has in common.
Thinks ==
    /\ phase = "think" /\ phase' = "move"
    /\ jumped' = {}
    /\ Say
    /\ UNCHANGED <<env, stats, clocks, slain, since>>

GiveUp(t) ==
    /\ TooFar(t)
    /\ state' = "Idle" /\ target' = None /\ roam' = 0
    /\ Halt

\* A flight lasts FleeThinks; the think after its last one starts it again.
FleeTime == IF roam = 0 THEN FleeThinks ELSE roam - 1

SafeNow(t) == t # None /\ FleeTime = 0 /\ Dist(t) >= FleeEnd[archer]

StopFleeing(t) ==
    /\ ~TooFar(t) /\ Low /\ SafeNow(t)
    /\ state' = "Idle" /\ target' = None /\ roam' = 0
    /\ Halt

\* Without a target, the monster runs on the way it goes.
Flee(t) ==
    /\ ~TooFar(t) /\ Low /\ ~SafeNow(t)
    /\ state' = "Return" /\ target' = t /\ roam' = FleeTime
    /\ IF t # None THEN Walk(Away(t), "flee")
       ELSE \E d \in {-1, 1} : Walk(IF dir = 0 THEN d ELSE dir, "flee")

Patrol(t) ==
    /\ t = None /\ ~Low /\ roam = 0
    /\ state' = "Patrol" /\ target' = None /\ roam' \in PatrolThinks
    /\ \E d \in {-1, 1} : Walk(d, "patrol")

Rest(t) ==
    /\ t = None /\ ~Low /\ roam = 0
    /\ state' = "Idle" /\ target' = None /\ roam' \in IdleThinks
    /\ Halt

RoamOn(t) ==
    /\ t = None /\ ~Low /\ roam > 0
    /\ roam' = roam - 1 /\ target' = None
    /\ UNCHANGED state
    /\ IF state = "Idle" THEN Halt ELSE Walk(dir, speed)

Fights(t) == t # None /\ ~TooFar(t) /\ ~Low /\ target' = t /\ UNCHANGED roam

\* Archers keep their distance, ...
StepBack(t) ==
    /\ Fights(t) /\ archer /\ Dist(t) < Kite
    /\ state' = "Return"
    /\ Walk(Away(t), "flee")

Shoot(t) ==
    /\ Fights(t) /\ archer /\ Dist(t) >= Kite /\ Dist(t) <= Reach[archer]
    /\ state' = "Attack"
    /\ Halt

Pursue(t) ==
    /\ Fights(t) /\ archer /\ Dist(t) >= Kite /\ Dist(t) > Reach[archer]
    /\ state' = "Chase"
    /\ Walk(dir, "chase")

\* What the network may answer, whatever it is shown.
Answers == States \ {"Dead"}

\* Fault: the gate looks at the cooldown only.
GateCooldown(t, answer) ==
    IF answer \in {"Idle", "Patrol"} THEN "Idle"
    ELSE IF answer = "Attack" /\ attackCd = 0 THEN "Attack"
    ELSE "Chase"

\* ... the others do what the policy says, as far as the gate lets it: hp is
\* not low here, so that Return, too, becomes Chase.
Gate(t, answer) ==
    IF answer \in {"Idle", "Patrol"} THEN "Idle"
    ELSE IF answer = "Attack" /\ Dist(t) <= Reach[archer] /\ attackCd = 0 THEN "Attack"
    ELSE "Chase"

Obey(t) ==
    /\ Fights(t) /\ ~archer
    /\ \E answer \in Answers : state' = Gate(t, answer)
    /\ IF state' = "Chase" THEN Walk(dir, "chase") ELSE Halt

Decide(t) ==
    \/ GiveUp(t) \/ StopFleeing(t) \/ Flee(t)
    \/ Patrol(t) \/ Rest(t) \/ RoamOn(t)
    \/ StepBack(t) \/ Shoot(t) \/ Pursue(t) \/ Obey(t)

Think == \E t \in Pick : Decide(t) /\ Thinks

-----------------------------------------------------------------------------
(* MovementSystem::update. *)

\* The monster goes one tick that way: the players come closer or fall back.
Go(d, s) ==
    /\ gap' = [p \in Players |->
                 IF p \in players THEN Saturate(gap[p] - d * Pace[s]) ELSE gap[p]]
    /\ dir' = d /\ speed' = s

\* Whether there is somebody to run to.
Ahead == target \in players /\ gap[target] # 0

Stand ==
    /\ \/ state \in Still
       \/ state = "Chase" /\ ~Ahead
       \/ state \in {"Patrol", "Return"} /\ (dir = 0 \/ speed = "none")
    /\ Halt
    /\ UNCHANGED gap

\* The speed AISystem set is gone if it set it with the null direction.
Chase ==
    /\ state = "Chase" /\ Ahead
    /\ Go(Sign(gap[target]), IF speed = "none" THEN "default" ELSE speed)

Stroll ==
    /\ state \in {"Patrol", "Return"} /\ dir # 0 /\ speed # "none"
    /\ Go(dir, speed)

Move ==
    /\ phase = "move" /\ phase' = "combat"
    /\ Stand \/ Chase \/ Stroll
    /\ UNCHANGED <<archer, players, stats, mind, clocks, hearsay, history>>

-----------------------------------------------------------------------------
(* CombatSystem::update.  Nobody looks at the distance again. *)

Peace == state # "Attack" /\ attackTimer' = 0 /\ UNCHANGED <<attackCd, since>>

Charge ==
    /\ state = "Attack" /\ attackTimer + 1 < AttackTicks
    /\ attackTimer' = attackTimer + 1
    /\ UNCHANGED <<attackCd, since>>

\* The target has left: the blow stays ready.
Hold ==
    /\ state = "Attack" /\ attackTimer + 1 >= AttackTicks /\ target \notin players
    /\ attackTimer' = AttackTicks
    /\ UNCHANGED <<attackCd, since>>

\* Fault: the blow sets no attackCd.
StrikeNoCooldown ==
    /\ state = "Attack" /\ attackTimer + 1 >= AttackTicks /\ target \in players
    /\ attackTimer' = 0 /\ attackCd' = attackCd
    /\ since' = 0

Strike ==
    /\ state = "Attack" /\ attackTimer + 1 >= AttackTicks /\ target \in players
    /\ attackTimer' = 0 /\ attackCd' = CdTicks
    /\ since' = 0

Combat ==
    /\ phase = "combat" /\ phase' = "tick"
    /\ Peace \/ Charge \/ Hold \/ Strike
    /\ slain' = FALSE
    /\ UNCHANGED <<env, stats, mind, think, motion, hearsay, jumped>>

-----------------------------------------------------------------------------
\* create_monster: CAI and CStats as they are declared.
Init ==
    /\ archer \in BOOLEAN
    /\ players = {} /\ gap = [p \in Players |-> Far]
    /\ phase = "tick"
    /\ hp = MaxHits /\ dirty = FALSE
    /\ state = "Patrol" /\ target = None /\ roam = 0
    /\ think = 0 /\ attackTimer = 0 /\ attackCd = 0
    /\ dir = 0 /\ speed = "none"
    /\ synced = FALSE /\ old = None /\ told = None /\ owed = FALSE
    /\ slain = FALSE /\ jumped = {} /\ since = LongAgo

TickStep ==
    \/ Tick /\ (PlayersMove \/ Respawn)
    \/ Sync \/ Clean \/ Corpse \/ Wait \/ WakeUp \/ Think \/ Move \/ Combat

Next ==
    \/ TickStep
    \/ \E p \in Players : Remove(p) \/ \E d \in Gaps : Enter(p, d)
    \/ Wound \/ Kill

Spec == Init /\ [][Next]_vars

\* The server calls update_world as long as it runs.
FairSpec == Spec /\ WF_vars(TickStep)

-----------------------------------------------------------------------------
(* Properties. *)

MonsterTypeOK ==
    /\ archer \in BOOLEAN /\ players \subseteq Players /\ gap \in [Players -> Gaps]
    /\ phase \in {"tick", "sync", "clean", "check", "think", "move", "combat"}
    /\ hp \in 0..MaxHits /\ dirty \in BOOLEAN
    /\ state \in States /\ target \in Players \cup {None}
    /\ think \in 0..ThinkTicks /\ attackTimer \in 0..AttackTicks /\ attackCd \in 0..CdTicks
    /\ roam \in 0..FleeThinks \cup UNION { 0..n : n \in PatrolThinks \cup IdleThinks }
    /\ dir \in {-1, 0, 1} /\ speed \in Speeds
    /\ synced \in BOOLEAN /\ old \in States \cup {None}
    /\ told \in States \cup {None} /\ owed \in BOOLEAN
    /\ slain \in BOOLEAN
    /\ jumped \subseteq Players /\ since \in 0..LongAgo

\* How far a player can have got since the last think.
Drift == PlayerPace * (ThinkTicks - think)

\* A blow lands near the monster.  CombatSystem strikes without looking at
\* the distance, on what a think saw up to ThinkTicks - 1 ticks ago: when it
\* does, its target is within reach or has walked off since that think, unless
\* it entered the field again in the meantime.
AttackInReach ==
    phase = "combat" /\ state = "Attack" /\ target \in players \ jumped =>
        Dist(target) <= Reach[archer] + Drift

\* A pursuit ends: whoever is chased is within disengageRange, or has got out
\* of it since the last think.
ChaseInRange ==
    phase = "combat" /\ state = "Chase" /\ target \in players \ jumped =>
        Dist(target) <= Disengage[archer] + Drift

\* While its target stays, the blows of a monster are spaced by the attackTimer
\* of CombatSystem, and those of melee monsters also by attackCd: a think always
\* falls into the cooldown and breaks the attack off, so that the timer starts
\* over after it.
StrikePace ==
    [][since' = 0 /\ since # 0 =>
          since >= IF archer THEN AttackTicks ELSE CdTicks + AttackTicks - 1]_vars

\* A dead monster lies still.  A think may overwrite the state of a kill that
\* falls into it, for the rest of that tick; from the next tick on, the
\* monster neither moves nor strikes.
CorpseStill ==
    slain /\ hp = 0 /\ phase \in {"move", "combat"} => state = "Dead" /\ speed = "none"

\* Between the ticks, the clients know what a living monster does, unless it
\* has respawned and done nothing new since, and what they do not know of its
\* hp they will be told in the next tick.
ClientsTold ==
    /\ phase = "tick" /\ hp > 0 => told \in {state, None}
    /\ owed => dirty

\* AISystem.cpp l. 122: a monster with low hp flees and "stops when it has run
\* a certain distance": once everybody is far away, it does not flee for ever.
Alone == \A p \in players : Dist(p) > Disengage[archer]
FleeingEnds == <>[]Alone => []<>(state # "Return")

=============================================================================
