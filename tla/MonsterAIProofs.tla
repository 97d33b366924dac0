--------------------------- MODULE MonsterAIProofs --------------------------
(***************************************************************************)
(* Proofs about MonsterAI, for any number of players, any ranges, speeds   *)
(* and timers in the order the code has them: blows land near the monster  *)
(* and keep their distance in time, a dead monster lies still, and the     *)
(* clients know what a living one does, whatever falls between the steps   *)
(* of a tick.                                                              *)
(***************************************************************************)
EXTENDS MonsterAI, TLAPS

-----------------------------------------------------------------------------
(* The inductive invariant. *)

\* The steps of a tick in which AISystem has not come to the monster yet, and
\* those in which it has been there.
Before == {"sync", "clean", "check"}
After == {"move", "combat"}

\* Where the distance to the target can be: what the last think allowed, and
\* what the player walked since, the current tick included once it began.
Walked == IF phase \in Before THEN Drift + PlayerPace ELSE Drift

Ranges ==
    target \in players \ jumped /\ phase # "think" =>
        /\ state = "Attack" => Dist(target) <= Reach[archer] + Walked
        /\ state = "Chase" => Dist(target) <= Disengage[archer] + Walked

\* A monster found dead was not brought back in this tick, and has been halted.
Slain ==
    slain =>
        /\ hp = 0 /\ phase \notin {"tick", "sync", "think"}
        /\ phase \in After => state = "Dead" /\ speed = "none"

\* What the clients last heard of a living monster is its state, or, until the
\* broadcast of this tick, the one AISystem found.
Told ==
    /\ hp > 0 => /\ told \in {state, None}
                 /\ phase \in {"clean", "check", "think"} => old = state
    /\ owed => dirty
    /\ phase = "clean" => ~owed

\* The timers of a fight.  A blow is prepared since the last one at most, and
\* the cooldown is what is left of CdTicks since then.
Timers ==
    /\ state = "Attack" => think >= 1
    /\ state = "Attack" /\ target \notin players => since = LongAgo
    /\ phase = "think" => think = ThinkTicks
    /\ IF phase = "tick" THEN attackTimer <= since ELSE attackTimer < since \/ since = LongAgo
    /\ since < LongAgo =>
          attackCd = LET s == IF phase = "sync" THEN since - 1 ELSE since
                     IN  IF s < CdTicks THEN CdTicks - s ELSE 0

\* A melee monster that attacks goes on from its last blow, until the next
\* think, or has begun after the cooldown.
Early(ticks) == think >= 1 /\ since + think <= ticks
Late(ticks) == CdTicks <= since /\ attackTimer + CdTicks <= since + ticks
Busy == state = "Attack" \/ attackTimer > 0

Rounds ==
    ~archer /\ since < LongAgo =>
        /\ phase = "tick" /\ Busy => Early(ThinkTicks) \/ Late(1)
        /\ phase \in Before /\ Busy => Early(ThinkTicks + 1) \/ Late(0)
        /\ phase = "think" /\ Busy => since <= ThinkTicks \/ Late(0)
        /\ phase \in After /\ state = "Attack" => Early(ThinkTicks) \/ Late(0)

IInv == MonsterTypeOK /\ Ranges /\ Slain /\ Told /\ Timers /\ Rounds

-----------------------------------------------------------------------------
(* Distances, and the lengths of a patrol. *)

\* Cutting a distance off at Far makes nothing farther.
LEMMA SaturateShrinks ==
    ASSUME NEW n \in Int
    PROVE  Saturate(n) \in Gaps /\ Abs(Saturate(n)) <= Abs(n) /\ Abs(n) \in Nat
BY RangeAssumption DEF Saturate, Abs, Gaps

\* A step of a player adds its length at most.
LEMMA StepAway ==
    ASSUME NEW g \in Int, NEW d \in (-PlayerPace)..PlayerPace
    PROVE  Abs(Saturate(g + d)) <= Abs(g) + PlayerPace
<1>1. g + d \in Int /\ Abs(g + d) <= Abs(g) + PlayerPace /\ PlayerPace \in Nat /\ Abs(g) \in Nat
  BY RangeAssumption DEF Abs
<1> QED BY <1>1, SaturateShrinks, RangeAssumption DEF Gaps, Abs

\* Running towards a player in range leaves it in range, though the monster
\* may run past it.
LEMMA Approach ==
    ASSUME NEW g \in Int, g # 0, NEW v \in Nat, NEW range \in Nat, v <= range, Abs(g) <= range
    PROVE  Abs(Saturate(g - Sign(g) * v)) <= range
<1>1. g - Sign(g) * v \in Int /\ Abs(g - Sign(g) * v) <= range
  BY DEF Abs, Sign
<1>2. Saturate(g - Sign(g) * v) \in Int
  BY <1>1, SaturateShrinks, RangeAssumption DEF Gaps
<1> QED BY <1>1, <1>2, SaturateShrinks DEF Abs

LEMMA DistNat == MonsterTypeOK => \A p \in Players : gap[p] \in Int /\ Dist(p) \in Nat
BY RangeAssumption DEF MonsterTypeOK, Gaps, Dist, Abs

LEMMA RangeNat ==
    ASSUME NEW a \in BOOLEAN
    PROVE  Reach[a] \in Nat /\ Disengage[a] \in Nat /\ Sight[a] \in Nat /\ FleeEnd[a] \in Nat
BY RangeAssumption

\* What players walk is not negative, and each tick that a think is put off
\* adds to it.
LEMMA DriftGrows ==
    /\ \A k \in 0..ThinkTicks : PlayerPace * (ThinkTicks - k) \in Nat
    /\ \A k \in 1..ThinkTicks :
          PlayerPace * (ThinkTicks - (k - 1)) = PlayerPace * (ThinkTicks - k) + PlayerPace
<1>1. PlayerPace \in Nat /\ ThinkTicks \in Nat
  BY RangeAssumption, TimerAssumption
<1>2. \A m, n \in Nat : m * n \in Nat /\ m * (n + 1) = m * n + m
  OBVIOUS
<1>3. ASSUME NEW k \in 0..ThinkTicks PROVE ThinkTicks - k \in Nat
  BY <1>1
<1>4. ASSUME NEW k \in 1..ThinkTicks
      PROVE  ThinkTicks - k \in Nat /\ ThinkTicks - (k - 1) = (ThinkTicks - k) + 1
  BY <1>1
<1> QED BY <1>1, <1>2, <1>3, <1>4

LEMMA WalkedNat ==
    ASSUME MonsterTypeOK
    PROVE  Drift \in Nat /\ Walked \in Nat /\ PlayerPace \in Nat
BY DriftGrows, RangeAssumption DEF Drift, Walked, MonsterTypeOK

Roams == 0..FleeThinks \cup UNION { 0..n : n \in PatrolThinks \cup IdleThinks }

LEMMA RoamsDown ==
    /\ 0 \in Roams /\ FleeThinks \in Roams /\ PatrolThinks \subseteq Roams /\ IdleThinks \subseteq Roams
    /\ \A r \in Roams : r \in Nat /\ (r > 0 => r - 1 \in Roams)
<1>1. FleeThinks \in Nat /\ \A n \in PatrolThinks \cup IdleThinks : n \in Nat
  BY TimerAssumption
<1>2. \A n \in Nat : 0 \in 0..n /\ n \in 0..n /\ \A r \in 0..n : r \in Nat /\ (r > 0 => r - 1 \in 0..n)
  OBVIOUS
<1>3. \A r : r \in Roams <=> r \in 0..FleeThinks \/ \E n \in PatrolThinks \cup IdleThinks : r \in 0..n
  BY DEF Roams
<1> HIDE DEF Roams
<1> QED BY <1>1, <1>2, <1>3

-----------------------------------------------------------------------------
LEMMA InitIInv == Init => IInv
<1> SUFFICES ASSUME Init PROVE IInv
  OBVIOUS
<1> USE DEF Init
<1>1. MonsterTypeOK
  <2>1. /\ Far \in Gaps /\ MaxHits \in 0..MaxHits /\ 0 \in 0..ThinkTicks /\ 0 \in 0..AttackTicks
        /\ 0 \in 0..CdTicks /\ LongAgo \in 0..LongAgo
    BY RangeAssumption, TimerAssumption, HitsAssumption DEF Gaps, LongAgo
  <2> QED BY <2>1, RoamsDown DEF MonsterTypeOK, States, Speeds, Roams
<1>2. Ranges /\ Slain /\ Told
  BY DEF Ranges, Slain, Told
<1>3. Timers /\ Rounds
  BY TimerAssumption DEF Timers, Rounds, LongAgo
<1> QED BY <1>1, <1>2, <1>3 DEF IInv

-----------------------------------------------------------------------------
(* Around the ticks. *)

LEMMA EnterIInv ==
    ASSUME IInv, NEW p \in Players, NEW d \in Gaps, Enter(p, d)
    PROVE  IInv'
<1> USE DEF IInv, stats, mind, clocks, motion, hearsay
<1>0. /\ gap' = [gap EXCEPT ![p] = d] /\ players' = players \cup {p} /\ jumped' = jumped \cup {p}
      /\ UNCHANGED <<archer, phase, stats, mind, clocks, motion, hearsay, slain, since>>
  BY DEF Enter
<1>1. MonsterTypeOK'
  BY <1>0 DEF MonsterTypeOK
<1>2. Ranges'
  <2>1. target \in players' \ jumped' => target \in players \ jumped /\ gap'[target] = gap[target]
    BY <1>0 DEF MonsterTypeOK
  <2> QED BY <1>0, <2>1 DEF Ranges, Walked, Drift, Dist
<1>3. Slain' /\ Told' /\ Timers' /\ Rounds'
  BY <1>0 DEF Slain, Told, Timers, Rounds, Early, Late, Busy
<1> QED BY <1>1, <1>2, <1>3

LEMMA RemoveIInv ==
    ASSUME IInv, NEW p \in Players, Remove(p)
    PROVE  IInv'
<1> USE DEF IInv, stats, mind, clocks, motion, hearsay
<1>0. /\ p \in players /\ players' = players \ {p} /\ gap' = [gap EXCEPT ![p] = Far]
      /\ since' = IF p = target THEN LongAgo ELSE since
      /\ UNCHANGED <<archer, phase, stats, mind, clocks, motion, hearsay, slain, jumped>>
  BY DEF Remove
<1>1. MonsterTypeOK' /\ AttackTicks <= LongAgo /\ LongAgo \in Nat /\ AttackTicks \in Nat
  BY <1>0, RangeAssumption, TimerAssumption DEF MonsterTypeOK, Gaps, LongAgo
<1>2. Ranges'
  <2>1. target \in players' \ jumped' => target \in players \ jumped /\ gap'[target] = gap[target]
    BY <1>0 DEF MonsterTypeOK
  <2> QED BY <1>0, <2>1 DEF Ranges, Walked, Drift, Dist
<1>3. Slain' /\ Told'
  BY <1>0 DEF Slain, Told
<1>4. Timers' /\ Rounds'
  <2>1. attackTimer \in 0..AttackTicks
    BY DEF MonsterTypeOK
  <2> QED BY <1>0, <1>1, <2>1 DEF Timers, Rounds, Early, Late, Busy
<1> QED BY <1>1, <1>2, <1>3, <1>4

\* A hit.
LEMMA HitIInv ==
    ASSUME IInv, Wound \/ Kill
    PROVE  IInv'
<1> USE DEF IInv, env, clocks, motion, history
<1>0. /\ dirty' = TRUE /\ owed' = (phase # "clean") /\ hp' \in 0..MaxHits
      /\ \/ hp > 0 /\ hp' > 0 /\ UNCHANGED <<state, told>>
         \/ hp' = 0 /\ state' = "Dead"  /\ told' = "Dead"
      /\ hp = 0 => hp' = 0
      /\ UNCHANGED <<env, phase, target, roam, clocks, motion, synced, old, history>>
  BY HitsAssumption DEF Wound, Kill, Hurt, MonsterTypeOK
<1>1. MonsterTypeOK'
  BY <1>0 DEF MonsterTypeOK, States
<1>2. Ranges' /\ Slain'
  BY <1>0 DEF Ranges, Walked, Drift, Dist, Slain
<1>4. Told'
  <2>1. phase' = "clean" => ~owed'
    BY <1>0
  <2>2. hp' > 0 => hp > 0 /\ state' = state /\ told' = told /\ old' = old /\ phase' = phase
    BY <1>0 DEF MonsterTypeOK
  <2> QED BY <1>0, <2>1, <2>2 DEF Told
<1>3. Timers' /\ Rounds'
  BY <1>0 DEF Timers, Rounds, Early, Late, Busy
<1> QED BY <1>1, <1>2, <1>3, <1>4

-----------------------------------------------------------------------------
(* The tick up to the think. *)

\* The players walk, or the monster is there again.
LEMMA TickIInv ==
    ASSUME IInv, Tick, PlayersMove \/ Respawn
    PROVE  IInv'
<1> USE DEF IInv, motion
<1>0. /\ phase = "tick" /\ phase' = "sync"
      /\ since' = IF since < LongAgo THEN since + 1 ELSE since
      /\ UNCHANGED <<archer, players, dirty, roam, attackCd, motion, synced, old, slain, jumped>>
  BY DEF Tick
<1>1. since \in 0..LongAgo /\ LongAgo \in Nat /\ since' \in 0..LongAgo /\ (since < LongAgo => since' = since + 1)
  BY <1>0, TimerAssumption DEF MonsterTypeOK, LongAgo
<1>2. /\ attackTimer \in 0..AttackTicks /\ think \in 0..ThinkTicks
      /\ AttackTicks \in Nat /\ CdTicks \in Nat /\ ThinkTicks \in Nat
  BY TimerAssumption DEF MonsterTypeOK
<1>3. CASE PlayersMove
  <2>1. PICK step \in [players -> (-PlayerPace)..PlayerPace] :
          gap' = [p \in Players |-> IF p \in players THEN Saturate(gap[p] + step[p]) ELSE gap[p]]
    BY <1>3 DEF PlayersMove
  <2>2. UNCHANGED <<hp, state, target, think, attackTimer, told, owed>>
    BY <1>3 DEF PlayersMove
  <2>3. ASSUME NEW p \in Players
        PROVE  gap'[p] \in Gaps /\ (p \in players => Abs(gap'[p]) <= Abs(gap[p]) + PlayerPace)
    <3>1. gap[p] \in Int /\ gap[p] \in Gaps
      BY DistNat DEF MonsterTypeOK
    <3>2. CASE p \in players
      <4>1. gap'[p] = Saturate(gap[p] + step[p]) /\ step[p] \in (-PlayerPace)..PlayerPace
        BY <2>1, <3>2
      <4>2. gap[p] + step[p] \in Int
        BY <3>1, <4>1, RangeAssumption
      <4> QED BY <3>1, <4>1, <4>2, StepAway, SaturateShrinks
    <3>3. CASE p \notin players
      BY <2>1, <3>1, <3>3
    <3> QED BY <3>2, <3>3
  <2>4. MonsterTypeOK'
    <3>1. gap' \in [Players -> Gaps]
      BY <2>1, <2>3
    <3> QED BY <1>0, <1>1, <2>2, <3>1 DEF MonsterTypeOK
  <2>5. Ranges'
    <3>1. Walked = Drift /\ Walked' = Drift + PlayerPace /\ Drift \in Nat /\ PlayerPace \in Nat
      BY <1>0, <2>2, WalkedNat DEF Walked, Drift, Before
    <3>2. archer \in BOOLEAN /\ players \subseteq Players
      BY DEF MonsterTypeOK
    <3>3. ASSUME target \in players \ jumped
          PROVE  Dist(target)' <= Dist(target) + PlayerPace /\ Dist(target)' \in Nat /\ Dist(target) \in Nat
      <4>1. target \in Players /\ gap'[target] \in Int /\ target' = target
        BY <2>2, <2>3, <3>2, <3>3, RangeAssumption DEF Gaps
      <4> QED BY <2>3, <3>3, <4>1, DistNat DEF Dist, Abs
    <3>4. Reach[archer] \in Nat /\ Disengage[archer] \in Nat
      BY <3>2, RangeNat
    <3> QED BY <1>0, <2>2, <3>1, <3>3, <3>4 DEF Ranges
  <2>6. Slain' /\ Told'
    BY <1>0, <2>2 DEF Slain, Told
  <2>7. Timers'
    BY <1>0, <1>1, <1>2, <2>2 DEF Timers
  <2>8. Rounds'
    BY <1>0, <1>1, <1>2, <2>2 DEF Rounds, Early, Late, Busy, Before, After
  <2> QED BY <2>4, <2>5, <2>6, <2>7, <2>8
<1>4. CASE Respawn
  <2>1. /\ hp' = MaxHits /\ state' = "Idle" /\ target' = None /\ think' = 0 /\ attackTimer' = 0
        /\ told' = None /\ owed' = FALSE
    BY <1>4 DEF Respawn
  <2>2. gap' \in [Players -> Gaps]
    <3>1. PICK d \in [players -> Gaps] : gap' = [p \in Players |-> IF p \in players THEN d[p] ELSE Far]
      BY <1>4 DEF Respawn
    <3>2. Far \in Gaps
      BY RangeAssumption DEF Gaps
    <3> QED BY <3>1, <3>2
  <2>3. MonsterTypeOK'
    <3>1. hp' \in 0..MaxHits /\ think' \in 0..ThinkTicks /\ attackTimer' \in 0..AttackTicks
      BY <1>2, <2>1, HitsAssumption
    <3> QED BY <1>0, <1>1, <2>1, <2>2, <3>1 DEF MonsterTypeOK, States
  <2>4. Ranges' /\ Slain' /\ Told'
    BY <1>0, <2>1 DEF Ranges, Slain, Told
  <2>5. Timers'
    BY <1>0, <1>1, <1>2, <2>1 DEF Timers
  <2>6. Rounds'
    BY <1>0, <2>1 DEF Rounds, Early, Late, Busy, Before, After
  <2> QED BY <2>3, <2>4, <2>5, <2>6
<1> QED BY <1>3, <1>4

LEMMA SyncIInv ==
    ASSUME IInv, Sync
    PROVE  IInv'
<1> USE DEF IInv, env, stats, mind
<1>0. /\ phase = "sync" /\ phase' \in {"clean", "check"} /\ old' = state
      /\ attackCd' = Cooled /\ told' \in {told, state} /\ slain' = (hp = 0)
      /\ owed' = (synced /\ ~dirty /\ owed) /\ synced' = TRUE
      /\ UNCHANGED <<env, stats, mind, think, attackTimer, jumped, since>>
  BY DEF Sync
<1>1. dir' \in {-1, 0, 1} /\ speed' \in Speeds
  BY DEF Sync, Halt, Walk, Speeds, MonsterTypeOK, motion
<1>2. owed' = FALSE
  <2>1. owed => dirty
    BY DEF Told
  <2> QED BY <1>0, <2>1, Zenon
<1>3. slain' \in BOOLEAN /\ (slain' => hp = 0)
  BY <1>0, Zenon
<1>4. attackCd \in 0..CdTicks /\ attackCd' \in 0..CdTicks /\ CdTicks \in Nat
  BY <1>0, TimerAssumption DEF MonsterTypeOK, Cooled
<1>5. MonsterTypeOK'
  <2>1. told' \in States \cup {None}
    BY <1>0 DEF MonsterTypeOK
  <2> QED BY <1>0, <1>1, <1>2, <1>3, <1>4, <2>1 DEF MonsterTypeOK
<1>6. Ranges'
  BY <1>0 DEF Ranges, Walked, Drift, Dist, Before
<1>7. Slain' /\ Told'
  BY <1>0, <1>2, <1>3 DEF Slain, Told, After
<1>8. Timers'
  <2>1. since \in Nat
    BY DEF MonsterTypeOK
  <2> QED BY <1>0, <1>4, <2>1 DEF Timers, Cooled
<1>9. Rounds'
  BY <1>0 DEF Rounds, Early, Late, Busy, Before, After
<1> QED BY <1>5, <1>6, <1>7, <1>8, <1>9

LEMMA CleanIInv ==
    ASSUME IInv, Clean
    PROVE  IInv'
<1> USE DEF IInv, env, mind, clocks, motion, hearsay, history
<1>0. /\ phase = "clean" /\ phase' = "check" /\ dirty' = FALSE
      /\ UNCHANGED <<env, hp, mind, clocks, motion, hearsay, history>>
  BY DEF Clean
<1>1. MonsterTypeOK'
  BY <1>0 DEF MonsterTypeOK
<1>2. Ranges' /\ Slain' /\ Told'
  BY <1>0 DEF Ranges, Walked, Drift, Dist, Before, Slain, Told, After
<1>3. Timers' /\ Rounds'
  BY <1>0 DEF Timers, Rounds, Early, Late, Busy, Before, After
<1> QED BY <1>1, <1>2, <1>3

LEMMA CorpseIInv ==
    ASSUME IInv, Corpse
    PROVE  IInv'
<1> USE DEF IInv, env, stats, clocks, history
<1>0. /\ phase = "check" /\ phase' = "move" /\ hp = 0 /\ state' = "Dead" /\ target' = None
      /\ dir' = 0 /\ speed' = "none" /\ old' = None /\ told' \in {"Dead", told}
      /\ UNCHANGED <<env, stats, roam, clocks, history, synced, owed>>
  BY DEF Corpse, Halt, Say
<1>1. MonsterTypeOK'
  BY <1>0 DEF MonsterTypeOK, States, Speeds
<1>2. Ranges' /\ Slain' /\ Told'
  BY <1>0 DEF Ranges, Slain, Told, After
<1>3. Timers' /\ Rounds'
  BY <1>0 DEF Timers, Rounds, Early, Late, Busy, Before, After
<1> QED BY <1>1, <1>2, <1>3

LEMMA WaitIInv ==
    ASSUME IInv, Wait
    PROVE  IInv'
<1> USE DEF IInv, env, stats, mind, motion, history
<1>0. /\ phase = "check" /\ phase' = "move" /\ hp > 0 /\ think > 1 /\ think' = think - 1 /\ old' = None
      /\ UNCHANGED <<env, stats, mind, attackTimer, attackCd, motion, synced, told, owed, history>>
  BY DEF Wait
<1>1. think \in 1..ThinkTicks /\ think' \in 0..ThinkTicks /\ think' >= 1
  BY <1>0, TimerAssumption DEF MonsterTypeOK
<1>2. MonsterTypeOK'
  BY <1>0, <1>1 DEF MonsterTypeOK
<1>3. Ranges'
  <2>1. Walked' = Walked
    BY <1>0, <1>1, DriftGrows DEF Walked, Drift, Before
  <2> QED BY <1>0, <2>1 DEF Ranges, Dist
<1>4. Slain' /\ Told'
  BY <1>0 DEF Slain, Told
<1>5. Timers' /\ Rounds'
  <2>1. since \in Nat /\ ThinkTicks \in Nat
    BY TimerAssumption DEF MonsterTypeOK
  <2> QED BY <1>0, <1>1, <2>1 DEF Timers, Rounds, Early, Late, Busy, Before, After
<1> QED BY <1>2, <1>3, <1>4, <1>5

LEMMA WakeUpIInv ==
    ASSUME IInv, WakeUp
    PROVE  IInv'
<1> USE DEF IInv, env, stats, mind, motion, hearsay, history
<1>0. /\ phase = "check" /\ phase' = "think" /\ hp > 0 /\ think <= 1 /\ think' = ThinkTicks
      /\ UNCHANGED <<env, stats, mind, attackTimer, attackCd, motion, hearsay, history>>
  BY DEF WakeUp
<1>1. think \in 0..ThinkTicks /\ since \in Nat /\ ThinkTicks \in Nat \ {0}
  BY TimerAssumption DEF MonsterTypeOK
<1>2. MonsterTypeOK'
  BY <1>0, <1>1 DEF MonsterTypeOK
<1>3. Ranges' /\ Slain' /\ Told'
  BY <1>0 DEF Ranges, Slain, Told, After
<1>4. Timers' /\ Rounds'
  BY <1>0, <1>1 DEF Timers, Rounds, Early, Late, Busy, Before, After
<1> QED BY <1>2, <1>3, <1>4

-----------------------------------------------------------------------------
(* The think. *)

\* Whoever is picked is in the field, and nobody only if the target is not.
LEMMA PickIs ==
    ASSUME MonsterTypeOK, NEW t \in Pick
    PROVE  /\ t \in players \cup {None} /\ t \in Players \cup {None}
           /\ t # None => t \in players /\ t \in Players
           /\ t = None => target \notin players
BY HitsAssumption DEF Pick, Closest, MonsterTypeOK

LEMMA WalkTypes ==
    ASSUME NEW d \in {-1, 0, 1}, NEW s \in Speeds, Walk(d, s) \/ Halt
    PROVE  dir' \in {-1, 0, 1} /\ speed' \in Speeds
BY DEF Walk, Halt, Speeds

\* The ways out of a think stay within the types ...
LEMMA DecideTypes ==
    ASSUME MonsterTypeOK, NEW t \in Pick, Decide(t)
    PROVE  /\ state' \in States /\ target' \in Players \cup {None} /\ roam' \in Roams
           /\ dir' \in {-1, 0, 1} /\ speed' \in Speeds
<1>1. t \in Players \cup {None}
  BY PickIs
<1>2. roam \in Roams /\ FleeTime \in Roams
  BY RoamsDown DEF MonsterTypeOK, Roams, FleeTime
<1>3. dir \in {-1, 0, 1} /\ speed \in Speeds /\ state \in States
  BY DEF MonsterTypeOK
<1>4. t # None => Away(t) \in {-1, 0, 1}
  <2>1. ASSUME t # None PROVE gap[t] \in Int
    BY <1>1, <2>1, DistNat
  <2>2. t # None => Sign(gap[t]) \in {-1, 0, 1}
    BY <2>1 DEF Sign
  <2> QED BY <1>3, <2>2 DEF Away
<1>5. "flee" \in Speeds /\ "patrol" \in Speeds /\ "chase" \in Speeds
  BY DEF Speeds
<1> HIDE DEF Roams
<1>6. CASE GiveUp(t) \/ StopFleeing(t)
  BY <1>2, <1>3, <1>6, RoamsDown, WalkTypes DEF GiveUp, StopFleeing, States
<1>7. CASE Flee(t)
  <2>1. state' \in States /\ target' \in Players \cup {None} /\ roam' \in Roams
    BY <1>1, <1>2, <1>7 DEF Flee, States
  <2>2. \E d \in {-1, 0, 1} : Walk(d, "flee")
    BY <1>3, <1>4, <1>7 DEF Flee
  <2> QED BY <1>5, <2>1, <2>2, WalkTypes
<1>8. CASE Patrol(t) \/ Rest(t)
  <2>1. state' \in States /\ target' \in Players \cup {None} /\ roam' \in Roams
    BY <1>8, RoamsDown DEF Patrol, Rest, States
  <2>2. Halt \/ \E d \in {-1, 0, 1} : Walk(d, "patrol")
    BY <1>8 DEF Patrol, Rest
  <2> QED BY <1>5, <2>1, <2>2, WalkTypes
<1>9. CASE RoamOn(t)
  <2>1. state' \in States /\ target' \in Players \cup {None} /\ roam' \in Roams
    BY <1>2, <1>3, <1>9, RoamsDown DEF RoamOn
  <2>2. Halt \/ Walk(dir, speed)
    BY <1>9 DEF RoamOn
  <2> QED BY <1>3, <2>1, <2>2, WalkTypes
<1>10. CASE StepBack(t) \/ Shoot(t) \/ Pursue(t)
  <2>1. state' \in States /\ target' \in Players \cup {None} /\ roam' \in Roams /\ t # None
    BY <1>1, <1>2, <1>10 DEF StepBack, Shoot, Pursue, Fights, States
  <2>2. Halt \/ Walk(Away(t), "flee") \/ Walk(dir, "chase")
    BY <1>10 DEF StepBack, Shoot, Pursue
  <2> QED BY <1>3, <1>4, <1>5, <2>1, <2>2, WalkTypes
<1>11. CASE Obey(t)
  <2>1. state' \in States /\ target' \in Players \cup {None} /\ roam' \in Roams
    BY <1>1, <1>2, <1>11 DEF Obey, Fights, Gate, States
  <2>2. Halt \/ Walk(dir, "chase")
    BY <1>11 DEF Obey
  <2> QED BY <1>3, <1>5, <2>1, <2>2, WalkTypes
<1> QED BY <1>6, <1>7, <1>8, <1>9, <1>10, <1>11 DEF Decide

\* ... and choose a fight with somebody in range only, melee monsters a blow
\* only after the cooldown.  Without a target, the state stays at most.
LEMMA DecideFights ==
    ASSUME MonsterTypeOK, NEW t \in Pick, Decide(t)
    PROVE  /\ state' = "Attack" =>
                \/ state = "Attack" /\ target \notin players /\ target' = None
                \/ /\ target' = t /\ t \in players /\ Dist(t) <= Reach[archer]
                   /\ archer \/ attackCd = 0
           /\ state' = "Chase" =>
                target' = None \/ (target' = t /\ t \in players /\ Dist(t) <= Disengage[archer])
<1>1. /\ t # None => t \in players /\ t \in Players
      /\ t = None => target \notin players
  BY PickIs
<1>2. Disengage[archer] \in Nat /\ (t # None => Dist(t) \in Nat)
  BY <1>1, RangeNat, DistNat DEF MonsterTypeOK
<1>3. t # None /\ ~TooFar(t) => Dist(t) <= Disengage[archer]
  BY <1>2 DEF TooFar
<1>4. CASE GiveUp(t) \/ StopFleeing(t) \/ Flee(t) \/ Patrol(t) \/ Rest(t) \/ StepBack(t)
  BY <1>4 DEF GiveUp, StopFleeing, Flee, Patrol, Rest, StepBack
<1>5. CASE RoamOn(t)
  BY <1>1, <1>5 DEF RoamOn
<1>6. CASE Shoot(t) \/ Pursue(t)
  BY <1>1, <1>3, <1>6 DEF Shoot, Pursue, Fights
<1>7. CASE Obey(t)
  BY <1>1, <1>3, <1>7 DEF Obey, Fights, Gate
<1> QED BY <1>4, <1>5, <1>6, <1>7 DEF Decide

LEMMA ThinkIInv ==
    ASSUME IInv, Think
    PROVE  IInv'
<1> USE DEF IInv, env, stats, clocks
<1>1. PICK t \in Pick : Decide(t) /\ Thinks
  BY DEF Think
<1>0. /\ phase = "think" /\ phase' = "move" /\ jumped' = {} /\ old' = None
      /\ told' = IF state' # old THEN state' ELSE told
      /\ UNCHANGED <<env, stats, clocks, slain, since, synced, owed>>
  BY <1>1 DEF Thinks, Say
<1>2. /\ state' \in States /\ target' \in Players \cup {None} /\ roam' \in Roams
      /\ dir' \in {-1, 0, 1} /\ speed' \in Speeds
  BY <1>1, DecideTypes
<1>3. /\ state' = "Attack" =>
           \/ state = "Attack" /\ target \notin players /\ target' = None
           \/ /\ target' = t /\ t \in players /\ Dist(t) <= Reach[archer]
              /\ archer \/ attackCd = 0
      /\ state' = "Chase" =>
           target' = None \/ (target' = t /\ t \in players /\ Dist(t) <= Disengage[archer])
  BY <1>1, DecideFights
<1>4. None \notin players
  BY HitsAssumption DEF MonsterTypeOK
<1>5. MonsterTypeOK'
  BY <1>0, <1>2 DEF MonsterTypeOK, Roams
<1>6. Ranges'
  <2>1. Walked' = Drift' /\ Drift' \in Nat
    BY <1>0, <1>5, DriftGrows DEF Walked, Drift, Before, MonsterTypeOK
  <2>2. archer \in BOOLEAN /\ players \subseteq Players
    BY DEF MonsterTypeOK
  <2>3. Reach[archer] \in Nat /\ Disengage[archer] \in Nat
    BY <2>2, RangeNat
  <2>4. ASSUME target' \in players
        PROVE  /\ Dist(target)' = Dist(target') /\ Dist(target') \in Nat
               /\ state' = "Attack" => Dist(target') <= Reach[archer]
               /\ state' = "Chase" => Dist(target') <= Disengage[archer]
    BY <1>0, <1>3, <1>4, <2>2, <2>4, DistNat DEF Dist
  <2> QED BY <1>0, <2>1, <2>3, <2>4 DEF Ranges
<1>7. Slain'
  BY <1>0 DEF Slain
<1>8. Told'
  BY <1>0 DEF Told
<1>9. since \in Nat /\ attackTimer \in Nat /\ CdTicks \in Nat /\ ThinkTicks \in Nat \ {0} /\ ThinkTicks < CdTicks
  BY TimerAssumption DEF MonsterTypeOK
<1>10. Timers'
  BY <1>0, <1>3, <1>4, <1>9 DEF Timers
<1>11. Rounds'
  <2>1. ASSUME ~archer, since < LongAgo, state' = "Attack" PROVE Late(0)
    <3>1. attackCd = 0
      <4>1. state = "Attack" /\ target \notin players => since = LongAgo
        BY DEF Timers
      <4>2. since # LongAgo
        BY <1>9, <2>1, TimerAssumption DEF LongAgo
      <4> QED BY <1>3, <2>1, <4>1, <4>2
    <3>2. CdTicks <= since
      BY <1>0, <1>9, <2>1, <3>1 DEF Timers
    <3>3. attackTimer > 0 => attackTimer + CdTicks <= since + 0
      BY <1>0, <1>9, <2>1, <3>2 DEF Rounds, Busy, Late
    <3> QED BY <1>9, <3>2, <3>3 DEF Late
  <2> QED BY <1>0, <2>1 DEF Rounds, Late, Before, After
<1> QED BY <1>5, <1>6, <1>7, <1>8, <1>10, <1>11

-----------------------------------------------------------------------------
(* Movement and combat. *)

LEMMA MoveIInv ==
    ASSUME IInv, Move
    PROVE  IInv'
<1> USE DEF IInv, stats, mind, clocks, hearsay, history
<1>0. /\ phase = "move" /\ phase' = "combat"
      /\ UNCHANGED <<archer, players, stats, mind, clocks, hearsay, history>>
  BY DEF Move
<1>1. /\ archer \in BOOLEAN /\ players \subseteq Players /\ gap \in [Players -> Gaps]
      /\ dir \in {-1, 0, 1} /\ speed \in Speeds
  BY DEF MonsterTypeOK
<1>2. \A p \in Players : gap[p] \in Int
  BY DistNat
<1>3. ASSUME NEW d \in {-1, 0, 1}, NEW s \in Speeds, Go(d, s)
      PROVE  /\ gap' \in [Players -> Gaps] /\ dir' = d /\ speed' = s
             /\ \A p \in players : gap'[p] = Saturate(gap[p] - d * Pace[s])
  <2>1. ASSUME NEW p \in Players PROVE gap[p] - d * Pace[s] \in Int
    BY <1>2, RangeAssumption
  <2> QED BY <1>1, <1>3, <2>1, SaturateShrinks DEF Go
<1>4. \/ Stand
      \/ Chase /\ \E s \in Speeds : Go(Sign(gap[target]), s) /\ Sign(gap[target]) \in {-1, 1}
      \/ Stroll /\ \E s \in Speeds : Go(dir, s)
  <2>1. Ahead => gap[target] \in Int
    BY <1>1, <1>2 DEF Ahead
  <2>2. CASE Chase
    BY <1>1, <2>1, <2>2 DEF Chase, Ahead, Sign, Speeds
  <2> QED BY <1>1, <2>2 DEF Move, Stroll
<1>5. gap' \in [Players -> Gaps] /\ dir' \in {-1, 0, 1} /\ speed' \in Speeds
  <2>1. CASE Stand
    BY <1>1, <2>1 DEF Stand, Halt, Speeds
  <2> QED BY <1>1, <1>3, <1>4, <2>1
<1>6. MonsterTypeOK'
  BY <1>0, <1>5 DEF MonsterTypeOK
<1>7. Ranges'
  <2>1. Walked' = Walked /\ Walked \in Nat
    BY <1>0, WalkedNat DEF Walked, Drift, Before
  <2>2. CASE Stand
    BY <1>0, <2>1, <2>2 DEF Stand, Ranges, Dist
  <2>3. CASE Stroll
    BY <1>0, <2>3 DEF Stroll, Ranges
  <2>4. CASE Chase /\ \E s \in Speeds : Go(Sign(gap[target]), s) /\ Sign(gap[target]) \in {-1, 1}
    <3>1. PICK s \in Speeds : Go(Sign(gap[target]), s)
      BY <2>4
    <3>2. state = "Chase" /\ target \in players /\ gap[target] # 0 /\ gap[target] \in Int
      BY <1>1, <1>2, <2>4 DEF Chase, Ahead
    <3>3. gap'[target] = Saturate(gap[target] - Sign(gap[target]) * Pace[s])
      BY <1>3, <2>4, <3>1, <3>2
    <3>4. ASSUME target \in players \ jumped PROVE Dist(target)' <= Disengage[archer] + Walked
      <4>1. Abs(gap[target]) <= Disengage[archer] + Walked
        BY <1>0, <3>2, <3>4 DEF Ranges, Dist
      <4>2. Disengage[archer] \in Nat /\ Pace[s] \in Nat /\ Pace[s] <= Disengage[archer]
        BY <1>1, RangeAssumption
      <4>3. Disengage[archer] + Walked \in Nat /\ Pace[s] <= Disengage[archer] + Walked
        BY <2>1, <4>2
      <4> QED BY <1>0, <3>2, <3>3, <4>1, <4>2, <4>3, Approach DEF Dist
    <3> QED BY <1>0, <2>1, <3>2, <3>4 DEF Ranges
  <2> QED BY <1>4, <2>2, <2>3, <2>4
<1>8. Slain'
  <2>1. state = "Dead" => speed' = "none"
    BY DEF Move, Stand, Chase, Stroll, Halt
  <2> QED BY <1>0, <2>1 DEF Slain, After
<1>9. Told' /\ Timers' /\ Rounds'
  BY <1>0 DEF Told, Timers, Rounds, Early, Late, Busy, Before, After
<1> QED BY <1>6, <1>7, <1>8, <1>9

\* Blows keep their distance in time.
LEMMA CombatIInv ==
    ASSUME IInv, Combat
    PROVE  /\ IInv'
           /\ since' = 0 /\ since # 0 => since >= IF archer THEN AttackTicks ELSE CdTicks + AttackTicks - 1
<1> USE DEF IInv, env, stats, mind, motion, hearsay
<1>0. /\ phase = "combat" /\ phase' = "tick" /\ slain' = FALSE
      /\ UNCHANGED <<env, stats, mind, think, motion, hearsay, jumped>>
  BY DEF Combat
<1>1. /\ since \in 0..LongAgo /\ LongAgo = CdTicks + AttackTicks /\ attackTimer \in 0..AttackTicks
      /\ attackCd \in 0..CdTicks /\ think \in 0..ThinkTicks
      /\ AttackTicks \in Nat \ {0} /\ CdTicks \in Nat \ {0} /\ ThinkTicks \in Nat \ {0}
      /\ ThinkTicks <= AttackTicks
  BY TimerAssumption DEF MonsterTypeOK, LongAgo
<1>2. Ranges' /\ Slain' /\ Told'
  BY <1>0 DEF Ranges, Walked, Drift, Dist, Before, Slain, Told
<1>3. /\ state = "Attack" => think >= 1
      /\ state = "Attack" /\ target \notin players => since = LongAgo
      /\ attackTimer < since \/ since = LongAgo
      /\ since < LongAgo => attackCd = IF since < CdTicks THEN CdTicks - since ELSE 0
  BY <1>0 DEF Timers
<1>4. ~archer /\ since < LongAgo /\ state = "Attack" =>
         \/ since + think <= ThinkTicks
         \/ CdTicks <= since /\ attackTimer + CdTicks <= since
  BY <1>0, <1>1 DEF Rounds, Early, Late, After
<1>5. CASE Peace
  <2>1. state # "Attack" /\ attackTimer' = 0 /\ attackCd' = attackCd /\ since' = since
    BY <1>5 DEF Peace
  <2>2. MonsterTypeOK'
    <3>1. attackTimer' \in 0..AttackTicks /\ attackCd' \in 0..CdTicks /\ since' \in 0..LongAgo
      BY <1>1, <2>1
    <3> QED BY <1>0, <3>1 DEF MonsterTypeOK
  <2>3. Timers' /\ Rounds'
    BY <1>0, <1>1, <1>3, <2>1 DEF Timers, Rounds, Busy, Before, After
  <2> QED BY <1>2, <2>1, <2>2, <2>3
<1>6. CASE Charge
  <2>1. /\ state = "Attack" /\ attackTimer + 1 < AttackTicks
        /\ attackTimer' = attackTimer + 1 /\ attackCd' = attackCd /\ since' = since
    BY <1>6 DEF Charge
  <2>2. MonsterTypeOK'
    <3>1. attackTimer' \in 0..AttackTicks /\ attackCd' \in 0..CdTicks /\ since' \in 0..LongAgo
      BY <1>1, <2>1
    <3> QED BY <1>0, <3>1 DEF MonsterTypeOK
  <2>3. Timers'
    BY <1>0, <1>1, <1>3, <2>1 DEF Timers
  <2>4. Rounds'
    BY <1>0, <1>1, <1>3, <1>4, <2>1 DEF Rounds, Early, Late, Busy, Before, After
  <2> QED BY <1>2, <2>1, <2>2, <2>3, <2>4
<1>7. CASE Hold
  <2>1. /\ state = "Attack" /\ attackTimer' = AttackTicks /\ attackCd' = attackCd /\ since' = since
        /\ since = LongAgo
    BY <1>3, <1>7 DEF Hold
  <2>2. MonsterTypeOK'
    <3>1. attackTimer' \in 0..AttackTicks /\ attackCd' \in 0..CdTicks /\ since' \in 0..LongAgo
      BY <1>1, <2>1
    <3> QED BY <1>0, <3>1 DEF MonsterTypeOK
  <2>3. Timers' /\ Rounds'
    BY <1>0, <1>1, <1>3, <2>1 DEF Timers, Rounds
  <2> QED BY <1>2, <2>1, <2>2, <2>3
<1>8. CASE Strike
  <2>1. /\ state = "Attack" /\ attackTimer + 1 >= AttackTicks /\ target \in players
        /\ attackTimer' = 0 /\ attackCd' = CdTicks /\ since' = 0
    BY <1>8 DEF Strike
  <2>2. MonsterTypeOK'
    <3>1. attackTimer' \in 0..AttackTicks /\ attackCd' \in 0..CdTicks /\ since' \in 0..LongAgo
      BY <1>1, <2>1
    <3> QED BY <1>0, <3>1 DEF MonsterTypeOK
  <2>3. Timers'
    BY <1>0, <1>1, <1>3, <2>1 DEF Timers
  <2>4. Rounds'
    BY <1>0, <1>1, <1>3, <2>1 DEF Rounds, Early, Before, After
  <2>5. since >= AttackTicks
    BY <1>1, <1>3, <2>1
  <2>6. ~archer => since >= CdTicks + AttackTicks - 1
    <3>1. CASE since = LongAgo
      BY <1>1, <3>1
    <3>2. CASE ~archer /\ since < LongAgo
      <4>1. ~(since + think <= ThinkTicks)
        BY <1>1, <1>3, <2>1, <2>5
      <4> QED BY <1>1, <1>4, <2>1, <3>2, <4>1
    <3> QED BY <1>1, <3>1, <3>2
  <2> QED BY <1>2, <2>2, <2>3, <2>4, <2>5, <2>6
<1> QED BY <1>5, <1>6, <1>7, <1>8 DEF Combat

-----------------------------------------------------------------------------
\* Every step keeps the invariant, and no blow comes early.
LEMMA NextIInv ==
    ASSUME IInv, [Next]_vars
    PROVE  /\ IInv'
           /\ since' = 0 /\ since # 0 =>
                since >= IF archer THEN AttackTicks ELSE CdTicks + AttackTicks - 1
<1> DEFINE Paced == since' = 0 /\ since # 0 =>
                      since >= IF archer THEN AttackTicks ELSE CdTicks + AttackTicks - 1
<1>0. LongAgo \in Nat \ {0} /\ since \in Nat
  BY TimerAssumption DEF LongAgo, IInv, MonsterTypeOK
<1>1. CASE UNCHANGED vars
  <2> USE <1>1 DEF vars, env, stats, mind, clocks, motion, hearsay, history, IInv
  <2>1. MonsterTypeOK'
    BY DEF MonsterTypeOK
  <2>2. Ranges' /\ Slain' /\ Told'
    BY DEF Ranges, Walked, Drift, Dist, Slain, Told
  <2>3. Timers' /\ Rounds'
    BY DEF Timers, Rounds, Early, Late, Busy
  <2> QED BY <2>1, <2>2, <2>3
<1>2. ASSUME NEW p \in Players, Remove(p) \/ \E d \in Gaps : Enter(p, d) PROVE IInv' /\ Paced
  <2>1. CASE Remove(p)
    BY <1>0, <2>1, RemoveIInv DEF Remove
  <2>2. CASE \E d \in Gaps : Enter(p, d)
    BY <2>2, EnterIInv DEF Enter
  <2> QED BY <1>2, <2>1, <2>2
<1>3. CASE Wound \/ Kill
  <2>1. since' = since
    BY <1>3 DEF Wound, Kill, Hurt, history
  <2> QED BY <1>3, <2>1, HitIInv
<1>4. CASE Tick /\ (PlayersMove \/ Respawn)
  <2>1. since' # 0
    BY <1>0, <1>4 DEF Tick
  <2> QED BY <1>4, <2>1, TickIInv
<1>5. CASE Sync \/ Clean \/ Corpse \/ Wait \/ WakeUp \/ Think \/ Move
  <2>1. IInv'
    BY <1>5, SyncIInv, CleanIInv, CorpseIInv, WaitIInv, WakeUpIInv, ThinkIInv, MoveIInv
  <2>2. since' = since
    BY <1>5 DEF Sync, Clean, Corpse, Wait, WakeUp, Think, Thinks, Move, history
  <2> QED BY <2>1, <2>2
<1>6. CASE Combat
  BY <1>6, CombatIInv
<1> QED BY <1>1, <1>2, <1>3, <1>4, <1>5, <1>6 DEF Next, TickStep

\* The invariant of the reachable states of a monster.
THEOREM Inductive == Spec => []IInv
<1>1. IInv /\ [Next]_vars => IInv'
  BY NextIInv
<1> QED BY InitIInv, <1>1, PTL DEF Spec

\* The types: in particular the timers stay in their ranges.
THEOREM Types == Spec => []MonsterTypeOK
<1>1. IInv => MonsterTypeOK
  BY DEF IInv
<1> QED BY Inductive, <1>1, PTL

\* When a monster strikes, its target is within reach or has walked off since
\* the last think, or has entered the field again.
THEOREM BlowsLand == Spec => []AttackInReach
<1>1. IInv => AttackInReach
  BY DEF IInv, AttackInReach, Ranges, Walked, Before
<1> QED BY Inductive, <1>1, PTL

\* Whoever is chased is within disengageRange, or has left it since the last
\* think.
THEOREM PursuitsEnd == Spec => []ChaseInRange
<1>1. IInv => ChaseInRange
  BY DEF IInv, ChaseInRange, Ranges, Walked, Before
<1> QED BY Inductive, <1>1, PTL

\* A monster that was dead when its tick came to it neither moves nor strikes.
THEOREM DeadLieStill == Spec => []CorpseStill
<1>1. IInv => CorpseStill
  BY DEF IInv, CorpseStill, Slain, After
<1> QED BY Inductive, <1>1, PTL

\* Between ticks the clients know the state of a living monster, and what they
\* do not know of its hp is marked.
THEOREM ClientsKnow == Spec => []ClientsTold
<1>1. IInv => ClientsTold
  BY DEF IInv, ClientsTold, Told
<1> QED BY Inductive, <1>1, PTL

\* Two blows at a target that stays are as far apart as the timers say.
THEOREM BlowsSpaced == Spec => StrikePace
<1>1. IInv /\ [Next]_vars
      => [since' = 0 /\ since # 0 =>
            since >= IF archer THEN AttackTicks ELSE CdTicks + AttackTicks - 1]_vars
  BY NextIInv
<1> QED BY Inductive, <1>1, PTL DEF Spec, StrikePace

=============================================================================
