# A verification project for the game server

TLA+ models of the server's core (`src/field`, `src/worker`, `src/storage`, `src/net`,
`src/core/handlers`, `src/game`), the TLC runs that check them, and theorems that TLAPS checks. Paths below
are relative to the repository; `X.cpp:n` is a line of the server's source.

1. The system
2. Modules, and how they correspond to the code
3. Runs: what each checks, bounds, fairness
4. Theorems
5. Where code and documentation disagree
6. What is not modelled, and what is assumed
7. Plan

---------------------------------------------------------------------------------------------------

## 1. The system

A session-based field server. Network input is read on one libuv thread, routed to a *GameWorker*
(login, entering a field, skills) or to the *FieldWorker* of the session's field (movement); a tick
thread moves players and monsters; storage runs on a libuv timer and a database thread. The
repository holds no `main` and no `GameServer.h`: what wires the parts together (who calls
`update_world`, `remove_player`, `set_redis_rt_writer`, `on_session_closed`'s clean-up) is outside.

| thread | runs | touches |
|---|---|---|
| uv / net | `Session::on_read`, `flush_send_queue`, `StorageSystem::on_timer` | session state, both worker queues, `DirtyHub`, the job queue |
| GameWorker | `OnRecv_Login`, `OnRecv_EnterField`, `OnRecv_SkillCmd` (which forwards the skill to the field) | `PlayerManager`, session state, **the field's players and grid** (`add_player`) |
| FieldWorker | `handle_message`: `on_client_move_input`, `handle_skill` | players, monsters and the grid (hits and deaths), `DirtyHub`, `rt_q_` |
| tick | `update_world`: `tick_players`, `MonsterWorld::update` | players, monsters, the grid, `DirtyHub`, `rt_q_` |
| DB | `handle_db_job` | `rt_q_`, Redis, MySQL |

### Components

**AOI grid** (`field/AoiWorld.*`). *State:* `entities_` (position, sector, `subscribed`), and per
sector the sets `entities` and `watchers`. *Operations:* `add_entity`, `remove_entity`,
`move_entity`, `update_player_aoi`. *Interacts:* answers with Snapshot/Enter/Move/Leave events
through a callback. *Hard:* the sets are kept incrementally by three operations that each work out
what to undo; snapshots, enters and leaves of one move overlap. *Correct when:* sector sets and
subscriptions agree with the positions, and the events sent to a player add up to exactly what is
in its view.

**Field AOI system** (`field/FieldAoiSystem.*`). *State:* `watchers_`, a second copy of who watches
whom, kept from the events. *Operations:* forwarders to the grid, `remove_entity` (also erases the
subject's list), `for_each_watcher`. *Hard:* the copy can drift from the grid. *Correct when:* a
player in view is on the list, nobody else is, and nothing that is gone has listeners.

**Field worker** (`worker/fieldWorker.*`). *State:* `players_`, the monsters, accumulators.
*Operations:* `add_player`, `remove_player`, `on_client_move_input`, `handle_skill`,
`update_world`/`tick_players`, state and stat broadcasts, saving. *Hard:* three threads without a
lock; requests in an order nobody expects (a second EnterField, a hit on a dead monster).
*Correct when:* what clients were sent matches the field.

**Monster life and death** (`field/monster/MonsterWorld.*`, `Systems/SpawnSystem.*`,
`Components.h`). *State:* hp, transform, `pendingRespawn`, `respawnTimer`. *Operations:* create,
player attack, kill, respawn. *Correct when:* a death is told to those who watched, a dead
monster is out of the grid and comes back.

**Monster AI, movement, combat** (`Systems/AISystem`, `MovementSystem`, `CombatSystem`,
`MonsterEnvironment`, `RL/*`). *State:* AI state, target, think/attack/patrol timers, move
direction. *Operations:* three systems run one after the other in each tick; a think every fourth
tick. *Hard:* movement and combat act on what a think saw ticks ago; hits of the field's thread
fall into the middle of a think. *Correct when:* blows land near the monster and are spaced, a
pursuit ends, a corpse lies still, clients know what a monster does, fleeing ends.

**Message worker** (`worker/worker.*`). *State:* `running_` (atomic), `queue_` under a mutex, a
condition variable, the thread. *Operations:* `start`, `push`, `stop`, `loop`. *Hard:* lost
wake-ups, since notifications come after the mutex is released and `running_` is written without
it. *Correct when:* FIFO, no lost wake-up, prompt shutdown, nothing runs after `stop()`.

**Database worker** (`storage/DBWorker.*`). Like the former with a bounded queue (`try_push` may
refuse), a loop that drains at shutdown, and a `stop()` that does *not* pass through the mutex.

**Storage pipeline** (`storage/StorageSystem.*`, `DirtyHub.h`, `redis/`, `DB/Proc/`). *State:* dirty
sets in shards, `rt_q_` with the counter `rt_pending_`, jobs, two connections, the two stores.
*Operations:* mark, enqueue, the timer (steal, batch, push, re-mark what was refused), the job
(connect, flush to Redis, fetch from Redis, upsert into MySQL). *Hard:* marks race with stealing,
flushes race with pushes, every call can fail in the middle. *Correct when:* a saved state is never
lost, and no store goes back in time.

**Sessions and server** (`net/*`). *State:* `state_`, `fieldId_`, `player_id_`, the receive buffer,
the send queue with its async handle, `closing_`; the session registry. *Operations:* accept, read
(framing, routing by `state_`), send from any thread, flush, close. *Hard:* one async callback
answers several sends; a close falls between the steps of a send. *Correct when:* frames go out
once and in order, none waits for a callback that never comes, and frames are cut where the client
joined them.

**Handlers** (`core/handlers`, `core/dispatcher`) and **players** (`game/*`). *State:* the maps of
PlayerManager and SessionManager, `players_` and `fields_`. *Operations:* login, enter, skill,
move; the input timeout of the tick. *Hard:* the uv thread routes by a state the GameWorker sets;
clients ask twice, or close with requests still queued. *Correct when:* input moves its own player
only, whoever is in a field is reachable, an `InField` session has a player there, players without
a connection come to rest.

**Registries** (`FieldManager`, `workerManager`): maps under one mutex. **Tick threads**
(`core/thread_pool`), **configuration**, **wire protocol** (generated), **training environment**
(Python, offline), **unused storage code** (`FlushWorkerUv`, `userUpsert`).

Which of these is modelled, and how far, is in the `components` of `PROJECT.json`; the hazards of
the code, line by line, are in its `hazards`, each with the properties that would catch it.

---------------------------------------------------------------------------------------------------

## 2. Modules

```
               FieldWorker  -- EXTENDS -->  AoiWorld
                    ^                          ^
                    |                       AoiEvents  -- implements -->  AoiVisibility
                    |                          ^
            FieldWorkerProofs  -------->  AoiWorldProofs
            MCFieldWorker                 MCAoiWorld

CondVar  <-- EXTENDS --  Worker     <-- WorkerProofs
         <-- EXTENDS --  DBWorker   <-- DBWorkerProofs
                         Storage    <-- StorageProofs,   MCStorage
                         MonsterAI  <-- MonsterAIProofs, MCMonsterAI
                         GameFlow   <-- GameFlowProofs,  MCGameFlow
                         Transport  <-- TransportProofs
```

**AoiWorld** models every operation of the grid as one action. `occupied` and `watched` are the
sector sets, seen from the entity; they are updated by the code's own increments
(`MoveOccupied`, `Rebuilt`, ...), never recomputed from the positions. One operation's events are
two sets of pairs (watcher, subject): what it *tells* and what it *hides*; the order the code sends
them in is what makes `Deliver` give telling precedence (comment in the module). `Entity::sector`
is not a variable because every assignment to `pos` in the class assigns
`world_to_sector(pos)` to it. `update_player_aoi` is there too; nothing calls it.

**AoiEvents** is the grid with a history variable, `sent`: the events of the last operation, by kind
(Enter or Snapshot, Move, Leave). AoiWorld's `shown` is the sum of all events and cannot tell an Enter
from a Move, or an event from its repetition.

**AoiVisibility** is what the grid promises operation by operation, in terms of who sees whom before
and after: Enter for the sights gained, Leave for those lost, Move for everybody who sees the mover where
it arrives. No sectors, no watcher sets, no subscriptions. `AoiEvents!Visible` is the refinement.

**FieldWorker** extends the grid with `players_`, the watcher table, the monsters' lives and the
scene each client was told. `EnterField` is `OnRecv_EnterField` with `add_player` and the burst of
Enter packets; `Kill` is `handle_skill` down to the broadcast, in the code's order (removal from
the grid, erasing the watcher list, broadcast). Constants that stand for what is open in the
sources: `Leave` (nobody in the repository calls `remove_player`), `ReEnter` (a second EnterField
read by the net thread before the first was handled: `session.cpp:114` looks at the state the
handler sets), `RespawnDelay` (the code leaves 0; a positive value exercises `SpawnSystem`).

**CondVar** is a mutex with a condition variable and one waiting thread, as the C++ standard
defines them: `Block` releases and sleeps in one step, `Notify` does nothing if nobody sleeps,
waking up can be spurious and takes the mutex again. It is the only module of code outside the
repository; libuv's async handles are part of Transport.

**Worker**, **DBWorker**: every access to `running_`, to the queue and to the condition variable is
a step of its own; `loopPc`, `pushPc`, `stopPc`, `uvPc` say where each thread is. The loop's
predicate, the sleep and the wake-up are three steps, so a notification can fall between them.

**Storage** models the path of a player's state: a save is *snapshot, push, count, mark*
(`mark_dirty_state`), the timer steals shard by shard and pushes batch by batch, the DB thread
connects, swaps `rt_q_`, lowers the counter, writes a pipeline, connects again, fetches, upserts.
A state is a version number. `Hit` and `Throttled` change a player without saving it, as the code
does. With `Faults` every call of the DB thread may fail, a pipeline after any number of its
commands. `rt_pending_` is a counter modulo `PendingMod`, like the `uint32_t` it is. `Stop` may come
at any time: the timer ends, marks stay where they are, and the DB thread still carries out the
jobs it has accepted (`DbLeave` is the loop's exit). `saved` and `failed` are history variables: no
action reads them.

**MonsterAI** is one monster with the players around it. The field is a line seen from the monster
(`gap[p]`, signed, saturating at `Far`): every distance test of the code compares one distance with
one constant, and a chase or a flight only changes that distance; `Enter` puts a player anywhere.
A tick is a sequence of steps (`phase`): players move and SpawnSystem (`Tick`), the cooldown and
the first broadcasts (`Sync`), `st.dirty = false` (`Clean`), dead, waiting or thinking (`Corpse`,
`Wait`, `WakeUp`/`Think`), `Move`, `Combat`. `Wound` and `Kill`, on the field's thread, fall between
any two of them. A think has one action per way out of `AISystem::update`; the policy network may
answer anything (`Answers`), `Gate` is what the code lets through. Timers count ticks, with the
values float subtraction really gives (0.3 f less 0.1 f three times is above 0, so thinks are 4
ticks apart). `told`, `owed`, `slain`, `jumped` and `since` are history variables.

**GameFlow** is the way of a message from the client to its effect: `Read`/`Route` on the uv thread, the
queue of the GameWorker (`OnRecvLogin`, `OnRecvEnterField`, `OnRecvSkillCmd`), the queue of each field
(`Take`, `Handle`), and the tick that stops players whose input is over. The queues are the FIFO
queues that `Worker!Fifo` promises. `OnRecv_EnterField` is two steps: the session is shown as `InField`
before `add_player`. A session carries the id `Anon` before its login, which is an id that a player
may have (`tcp_server.cpp:59`: 4). `storage` says whether the owner called `set_storage`, without which
no field is created. Ages of input are in ticks of the field whose clock stamped them.

**Transport** is one session as a pipe. Sending: `send_payload` is look at `closing_`, push under the
mutex, `uv_async_send`; flushing is swap, then a write per frame. Receiving: the client appends
frames to a stream of bytes that know their frame (`ClientSends`, external), TCP delivers the next
`n` of them, for any `n` (`OnRead`), and the loop of `on_read` hands on one frame after the other
(`CutFrame`) until the buffer holds no whole one, and keeps the rest (`CutRest`). The loop is a step
per frame, since worker threads queue frames and wake the loop meanwhile.

Definitions marked `Fault:` are not part of any specification: each is a plausible bug in the
definition that follows it, used to see that a property notices it (`mutants` in `PROJECT.json`).

---------------------------------------------------------------------------------------------------

## 3. Runs

`tlc -config <cfg> <module>`; all finish within two or three minutes on two cores.

| run | module, cfg | checks | instance |
|---|---|---|---|
| `aoi` | MCAoiWorld, MCAoiWorld.cfg | `TypeOK`, `OccupancyExact`, `SubscriptionsExact`, `ViewExact`, `Visible` | 3 players, 1 monster, 5 points on 4 x 2 sectors, radius 1 |
| `field` | MCFieldWorker, MCFieldWorker.cfg | `InViewKnown`, `GoneForgotten`, `OnlyViewersHear` | 2 players, 1 monster, 3 points in 3 sectors, 2 hits; leave and re-enter, delay 2 |
| `monster` | MCMonsterAI, MCMonsterAI.cfg | `MonsterTypeOK`, `AttackInReach`, `ChaseInRange`, `CorpseStill`, `ClientsTold`, `StrikePace` | both kinds of monster, 1 player, distances up to 6, 2 hits, thinks every 2 ticks, blows every 3 |
| `gameflow` | MCGameFlow, MCGameFlow.cfg | `FlowTypeOK`, `InFieldHasPlayer`, `Reachable`, `SkillAfterEntry`, `OwnPlayerOnly`, `ClosedRests` | 2 sessions with 3 and 2 packets or 4 and 1, 2 logins, 2 fields, `Anon` = 1 |
| `transport` | Transport, Transport.cfg | `SentInOrder`, `NoLostWakeUp`, `FramesIntact`, `EverythingSent` | 2 threads with 2 sends; 2 frames of 0 or 2 bytes, header of 2 |
| `worker` | Worker, Worker.cfg | `TypeOK`, `Fifo`, `NoLostWakeUp`, `OneMoreAtMost`, `QuietOnceStopped`, `EverythingHandled`, `StopReturns` | 2 pushing threads, 3 messages |
| `dbworker` | DBWorker, DBWorker.cfg | `BoundedFifo`, `Drained`, `NoLostJob` | queue of 2, 4 jobs |
| `storage` | MCStorage, MCStorage.cfg | `NoLostUpdate`, `PendingExact`, `Downstream`, `NoRegress`, `SavedReachesMysql`, `AcceptedReachesMysql` | 2 players, 2 changes, job queue of 1, batches of 1, failures, a stop |

Four more runs end in a counterexample: section 5.

### What the passing runs show

- `aoi`: whatever the order of additions, moves and removals, the incremental sets equal what the
  positions say, and the sum of all events sent is the truth about the view. `Visible` is about each
  operation by itself: it sends what the change of the views calls for and nothing else, though the code
  never compares views (it subtracts the watcher sets of two sectors and the subscriptions before and
  after a rebuild). An Enter to somebody who sees the mover already, or a Leave to somebody who never
  did, leaves the sum of the events right; here both are violations. Five points suffice because the
  operations only compare sectors: two points share a sector (one of them left of the origin, so the
  clamp is used), others are neighbours, diagonal neighbours, two and three apart; a mover can keep, gain
  or lose a watcher, a watcher can keep, gain or lose a subject, and two players can do both to each
  other. The third player is a bystander of the other two. The theorems of section 4 lift the bound.
- `field`: the watcher table and the clients' scenes never *miss* anything in view, with players
  that enter twice, leave and come back, monsters killed, hit when dead, respawned; what is
  gone is on nobody's list; and players that entered once and stayed never hear *more* than they
  see. The others (`churned`) do: a removed player's own entries stay in the lists of others
  (`FieldAoiSystem.cpp:73-77`). Delay 2 is the smallest that has both a tick that waits and one that
  respawns. Three points suffice, since moves inside a sector are the grid's business (`aoi`).
- `monster`: CombatSystem strikes and MovementSystem runs on what a think saw up to
  `ThinkTicks - 1` ticks ago and nobody looks at the distance again; still the target is within reach
  (within the disengage range, for a chase) but for what it has walked since (`AttackInReach`,
  `ChaseInRange`), unless it entered the field again. Blows are spaced by the attack timer, those of
  melee monsters also by the cooldown (`StrikePace`). A kill that falls into a think may be
  overwritten, but from the next tick on the corpse lies still (`CorpseStill`). Between the ticks
  the clients know the state and will hear of the hp (`ClientsTold`), but for hits that fall between
  the broadcast of the stats and `st.dirty = false` (`AISystem.cpp:44`), which the code loses. The
  constants keep the order of the real ones, ties allowed (MCMonsterAI): reach, sight, disengage
  and flee end, kiting inside the reach, a think inside the cooldown; one player suffices for properties of
  a target, since another one matters only as somebody closer to pick.
- `gameflow`: two logins of one session, a second field, a close with requests queued, the id of a
  session that has not logged in: none of them lets a message move somebody else's player, unbinds a
  session that lives, or strands a session in a field without a player. Nobody tells the field of a
  close, so the player stays there; but it comes to rest (`ClosedRests`), with input still queued, and
  with two fields that tick the one player, of which only the one whose clock stamped its input knows
  when that is over. Three and two packets are login, enter, and one more of either kind, against
  another session that logs in and enters. With four, against a session that only logs in, the first
  gets to move a player that is in two fields (login, two fields, move), and to move after a second
  login. Of the fields, the second session asks for one only, which is enough to meet the first in it.
- `transport`: two sends that meet in every step, with a flush under way, make one callback
  answer several; the header of 2 and payloads of 0 and 2 put every cut (inside a header, between header
  and payload, inside a payload, at the end of a frame) into some read.
- `worker`, `dbworker`: all interleavings of pushers, the loop, a stop, and spurious wake-ups. In
  `worker` three messages and two threads let a message be pushed in every phase of the loop while
  another notification is under way. In `dbworker` four jobs against a queue of two reach
  refusal, refusal again after a take, and a stop with a full queue.
- `storage`: a saved state that is not in MySQL is always in somebody's hands, if only in the hub after
  a stop, unless a call with it failed (`NoLostUpdate`); the counter equals the queue but for pushes not yet counted
  and a flush not yet uncounted, *modulo its width* (`PendingExact`): a flush that overtakes the
  count of its own push wraps the unsigned counter, and that heals; neither store is ever given a
  state older than it has (`NoRegress`), and MySQL never gets ahead of Redis (`Downstream`), even
  with failures in the middle of a pipeline. Refused batches and a wrapped counter do not keep a
  state from arriving (`SavedReachesMysql`), and a stop does not take back a job that was accepted
  (`AcceptedReachesMysql`). Two changes let two writes of one player meet in every stage, or those of
  two players; a job queue of one makes refusal happen with two batches; `PendingMod` 8 exceeds the
  pushes that can be under way, as 2^32 does in the code, so that a wrapped counter is told from a
  small one.

`CHECK_DEADLOCK FALSE` is set where the system does come to an end: the workers and the storage
after a stop, a session after its close, the clients of `gameflow` after their last packet. The
`aoi`, `field` and `monster` runs check for deadlocks. `SYMMETRY` is used for safety only.

### Fairness

- `Worker`, `DBWorker`: weak fairness of each thread, for the steps it has begun: the loop, the rest
  of a push after its unlock, the rest of a stop. These are OS threads that are runnable whenever
  the step is enabled. Handlers return (`HandlerReturns` is a step of the loop). Nobody must push,
  stop or wake up spuriously.
- `Storage`: a save that began goes on, the timer is periodic (`uv_timer_start` with a repeat,
  `StorageSystem.cpp:209-220`) until the stop, the DB thread takes jobs as long as there are some
  (which is what `DBWorker!NoLostJob` and its loop give). Calls may fail: the liveness properties
  leave out the players whose calls did. The `DBWorker` of this model wakes up when it should: what
  `DBWorker::stop` can lose is section 5's business, and only delays `join()`.
- `Transport`: a call of `send_payload` that began returns, and the uv loop runs callbacks that are
  due and comes back from `on_read`. Nobody must send, and the client need not read or write.
- `GameFlow`: the GameWorker and the field threads handle what is queued (`Worker!EverythingHandled`),
  the owner ticks the fields, the uv loop calls `close_cb`. Clients do what they like.
- `MonsterAI`: only `FleeingEnds` uses fairness, of the steps of the tick.

---------------------------------------------------------------------------------------------------

## 4. Theorems

All proved with `tlapm`, for every value of the constants the named assumptions allow.

| module | theorems | state |
|---|---|---|
| AoiWorldProofs | `TypeCorrect`, `SectorsCorrect`, `SubscriptionsCorrect`, `ViewCorrect` | `TypeOK`, `OccupancyExact`, `SubscriptionsExact`, `ViewExact` |
| | `Refinement` | `EventSpec => Visible`: what the grid sends implements AoiVisibility |
| FieldWorkerProofs | `FieldTypes`, `NobodyMissing`, `NothingLingers`, `NoEavesdropper` | `FieldTypeOK`, `InViewKnown`, `GoneForgotten`, `OnlyViewersHear` |
| MonsterAIProofs | `Types`, `BlowsLand`, `PursuitsEnd`, `DeadLieStill`, `ClientsKnow` | `MonsterTypeOK`, `AttackInReach`, `ChaseInRange`, `CorpseStill`, `ClientsTold` |
| | `BlowsSpaced` | the action property `StrikePace` |
| GameFlowProofs | `Types`, `NobodyStranded`, `EventsReach`, `SkillsInTime` | `FlowTypeOK`, `InFieldHasPlayer`, `Reachable`, `SkillAfterEntry` |
| | `InputOfItsOwn` | the action property `OwnPlayerOnly` |
| StorageProofs | `Types`, `CounterExact`, `StoresFollow`, `UpdatesCarried` | `TypeOK`, `PendingExact`, `Downstream`, `NoLostUpdate` |
| | `StoresForward` | the action property `NoRegress` |
| TransportProofs | `TypeCorrect`, `OrderCorrect`, `WakeUpCorrect`, `FramingCorrect` | `TransportTypeOK`, `SentInOrder`, `NoLostWakeUp`, `FramesIntact` |
| WorkerProofs | `TypeCorrect`, `FifoCorrect`, `WakeUpCorrect`, `ShutdownPrompt`, `ShutdownFinal` | `TypeOK`, `Fifo`, `NoLostWakeUp`, `OneMoreAtMost`, `QuietOnceStopped` |
| DBWorkerProofs | `TypeCorrect`, `BoundedFifoCorrect`, `NoLostJobCorrect`, `ShutdownDrains` | `TypeOK`, `BoundedFifo`, `NoLostJob`, `Drained` |

So every invariant and every action property of a passing run is a theorem; the runs show it for one
instance, the theorems for every value of the constants. Each module proves one inductive invariant
(`IInv`, in FieldWorkerProofs `FieldInv`): a lemma for the initial states, a lemma per action with a
step per conjunct that the action can disturb, and the theorem `Inductive` (`FieldInductive`), from
which the others follow. TLC has checked each inductive invariant on the run's instance as well.

**AoiWorld.** Assumptions: players and monsters are disjoint, positions are pairs of integers, the
sector size and the radius are positive. `IInv` is the conjunction of `TypeOK`, `OccupancyExact`,
`SubscriptionsExact` and `ViewExact`. None of the four is inductive alone: `move_entity` leaves the
sector it computes from the old position, which is the right one only by `OccupancyExact`; the
events are addressed by the sectors' watcher sets, so `ViewExact` is kept only because
`SubscriptionsExact` says whose sets they are in. One lemma per operation (`AddIInv`, `RemoveIInv`,
`MoveIInv`, `UpdateStutters`), one step per conjunct under it. Under `IInv`, before and after the
operation, the events are the differences of `AoiVisibility!Sight` (`AddTellsSight`, `RemoveTellsSight`,
`MoveTellsSight`), from which every step of AoiEvents maps to a step of AoiVisibility;
`update_player_aoi` is a refresh that has nothing to say.

**Worker.** Assumptions: the loop's id is not the free mutex, the bound is a number. The inductive
invariant adds to the properties where the mutex owner can be (`Placed`), what the phases of a stop
imply for `running_` (`Phases`), what holds inside the critical section between predicate and sleep
(`Inside`) and what `cut` counts. `NoLostWakeUp` is kept because a `stop()` that cleared `running_`
has either its pass through the mutex or its notification still ahead of it.

**DBWorker.** The same shape. Its invariant has no such clause for `stop()`, as the code does not
keep one: see `dbworker_stop` below. `ShutdownDrains` follows from `Phases`: the loop leaves only with
an empty queue, and after `StopClear` nothing is pushed.

**FieldWorker.** Assumptions: those of the grid, an entry point and spawn points on it, at least one hit
per monster. The grid's own `IInv` does *not* carry over: a second EnterField files a player in a second
sector and keeps the sectors it watched (section 5), so `OccupancyExact` and `SubscriptionsExact` are false
here. What is left is inclusions that hold for everybody (`Filed`: an entity is filed where it is;
`Watching`: a player watches at least its view), from which `InViewKnown` follows, and equalities for
players that never left nor entered twice (`FiledOnce`, `WatchesOnly`), from which `OnlyViewersHear`
follows. `Bodies` ties the grid to the field: who is in `players_` and which monsters are alive.
`GridAdd`, `GridMove` and `GridRemove` say once what the events of an operation achieve (`Informed`:
whoever comes into view is told; `Honest`: nobody else is, between players that stayed); `EventsKnown`
and `RemovalKnown` carry that over to the watcher table and the scenes, and every action of the field
cites them.

**MonsterAI.** Assumptions: the ranges are below `Far`; a tick's walk is shorter than the disengage range
(the fastest monster walks less than 1 a tick, the range is 15.4 or 25.2), without which a pursuer could
overshoot its target by more than the range; a think is shorter than the cooldown and no longer than
the attack timer (4, 9 and 10 ticks). `AttackInReach` speaks of one phase only; `Ranges` says for all
phases how far the target can be: what the last think allowed plus what was walked since, this tick
included once it began (`Walked`). `CorpseStill` needs that a corpse found in this tick was not brought
back in it (`Slain`), `ClientsTold` that the state before the think is the one told last (`Told`).
`StrikePace` is the hardest: a blow resets two timers and the next one depends on both, on the thinks in
between and on the attack being broken off. `Timers` ties both timers to the time since the last blow;
`Rounds` has a melee monster either still in the interval of the think before (`Early`) or with a
timer that started after the cooldown (`Late`), with one tick of slack that depends on the phase.

**GameFlow.** Assumptions: `Anon` is a positive number, `None` is none of the sessions, fields, numbers and
messages. The properties relate three tables that different threads fill in
different orders. `Registered` (ids below `nextId` have an owner that was accepted), `Carries` (a
session's `player_id_` is its latest player, or nobody's name), `Located` (`InField` only with a
player and a field), `Entering` (between the two steps of EnterField the player is known) and `Inside`
bind them together; `Bound` is `Reachable` for players that are in no field yet, which is needed because
they enter one later. `OwnPlayerOnly` rests on `MovesOwned`: a Move in a queue comes from a session that
has a player, whose id only its own login changes; an `Anon` id never gets that far. `SkillAfterEntry`
is kept because nobody leaves a field. That ids never run out is counted: `Logins` (requests in the
queue and those handled) stays within `MaxPlayers`, which takes two lemmas on the cardinality of the
positions of a queue, each by a bijection.

**Storage.** Assumptions: finitely many players, positive bounds. The invariant orders the versions of each
player along the pipe: mysql <= fetched snapshot <= redis <= being flushed <= queued <= memory
(`Downstream`, `Fetched`, `QueuesOrdered`; `Sorted` and `Ahead` say that a queue is in order and that what
is flushed is older than what is queued). Without `Sorted` a pipeline that fails in the middle could
leave an older version for last. `NoLostUpdate` needs more than where the uid is: a mark that comes
before the write it announces would be worthless. `PushedFirst` says that a save is in the pipe before
it is counted and marked, `Flow` that a player nobody carries has reached MySQL or is in the job
at hand, and how far that job has come for it (`JobDone`). `CounterExact` is modular arithmetic
(`DivisionRemainder`, `RemainderUnique`) and the cardinality of the set of saves that have pushed and
not counted. `NoRegress` is an action property: the two writes of the DB thread are the only ones, and
each is justified by the order above.

**Transport.** Assumptions: the bounds are numbers and the header is not empty. The inductive
invariant is the types, with the clauses that the uv thread is busy only while the session is open and
that `local` is empty outside the writes, `Begun` (a thread in the middle of `send_payload` has a call
to its name), `SentInOrder`, `NoLostWakeUp`, `Framed` and `FramesIntact`. `SentInOrder` needs the clause
about `local`: the swap would forget what an earlier flush left there. `Framed` says that the stream is
the client's frames one after the other, for any number and length. `FramesIntact` then is kept by
each round of the loop: what the loop has not passed is the stream from the end of the last
frame handed on, so that the length it reads at the offset is that of the next frame (`AtHeader`), and when
it finds no whole frame, the next one has not arrived. One action per round of the loop is what makes
this an invariant rather than an induction over the buffer. The lemmas `ConcatBytes` and `SubSeqBytes`
say what insertion at the end and cutting out do to the bytes of a buffer.

**Model-checked only.** Liveness (`EverythingHandled`, `StopReturns`, `SavedReachesMysql`,
`AcceptedReachesMysql`, `EverythingSent`, `ClosedRests`) and everything about ENABLED are beyond the
prover. The properties of section 5 do not hold.

---------------------------------------------------------------------------------------------------

## 5. Where code and documentation disagree

Runs that end in a counterexample:

| run | property | what happens |
|---|---|---|
| `field_dead` | `DeathHeard` | `fieldWorker.cpp:363-366` broadcasts Dead to the watchers of a monster that `MonsterWorld.cpp:82-84` has just removed from the grid, with its list: nobody hears it. |
| `monster_flee` | `FleeingEnds` | `AISystem.cpp:122` has a monster at low hp flee a certain distance. A melee monster gives its target up at 15.4, before `fleeEndDist` 16; without a target each think that finds the timer at 0 sets it again (:132): it flees for ever, with nobody near. |
| `gameflow_race` | `FieldExclusive` | The server's README (l. 116-120) has the game logic of a field on the field's own thread only. `OnRecv_EnterField` calls `add_player` on the GameWorker's thread while the field's thread may be handling a message. |
| `dbworker_stop` | `StopReturns` | `DBWorker::stop` stores `running_` and notifies without the mutex: between the loop's predicate and its sleep both go unnoticed, and `join()` waits forever (`FairSpec`). |

Seen while reading, without a run of their own:

- `create_monster` leaves `respawnDelay` at 0 and `SpawnSystem.cpp:23` skips such monsters: a dead
  monster stays dead. `field` uses a positive delay.
- A second EnterField read before the first was handled re-adds a player that has moved:
  `add_entity` does not leave its old sector, where it stays filed. The actions of the grid
  alone therefore add an entity only while it is absent, and `field` reaches the second add.
- A job whose connection or call fails is dropped with its uids, unlike a refused one
  (`StorageSystem.cpp:57`, `:199`).
- A second login of a session leaves the first player registered and in its field; a second field
  leaves the player in the first one too; a closed session leaves its player everywhere.
- `tcp_server.cpp:59` gives every session the player id 4 before its login, an id `next_player_id`
  also hands out. `gameflow` shows that nothing comes of it.
- `fieldWorker.cpp:63` builds the grid with radius 2 (5 x 5 sectors); the server's README (l. 160,
  183) describes 3 x 3.
- `on_player_enter_field` (`fieldWorker.cpp:438`) tells a newcomer of every player and monster of the
  field, dead ones included; README l. 187 says that what is out of range is not visible. What is
  out of view is never followed by Move or Leave. `InViewKnown` therefore speaks of what is in view.
- `markPlayerDirty` (`fieldWorker.cpp:548`) marks a player that was hit without enqueuing a snapshot, and
  a move within `dirtyMinInterval_` of the last mark does neither: Redis, and MySQL after it, keep
  the older state until the next saved move. `Hit` and `Throttled` model this; the promises of
  Storage are about `saved` states.
- `db_max_queue` (`server_config.h:24`, 32) is loaded and never read; `DBWorker.h:41` uses 360.
- `CombatSystem.cpp:80` lacks a semicolon; it is read as intended.

---------------------------------------------------------------------------------------------------

## 6. What is not modelled, and what is assumed

- **Data races on a field.** `add_player` runs on the GameWorker's thread, moves and skills on the
  field's, ticks on a third, without a lock. FieldWorker takes each handler and each entity's
  tick as atomic, GameFlow all but EnterField, MonsterAI the steps named above; their results hold
  for executions in which what is atomic there does not overlap. That it can is what
  `gameflow_race` shows; what a torn container does then is undefined behaviour and is not modelled.
- **The accumulators of `update_world`** (at most 5 player and 3 monster ticks a call): its caller
  and period are not in the sources, so no bound could be promised.
- **What nothing calls**: `FieldManager::stop_all`, `remove_by_session`, `remove_by_id`,
  `workerManager`; and the start-up order of the workers, whose owner is not in the sources.
- **Destruction**: `~Worker` stops the thread after the members of a derived class are gone; the
  models end at `stop()`.
- **Packet loss and reordering** happen below TCP and are not modelled; connections break at any
  time (`Close`, `OnReadError`).
- What clients are told on entering beyond their view (`fieldWorker.cpp:438`), and the error acks.
- Floating point: positions are integer points, only the floor in `world_to_sector` matters to the
  properties of the grid, and distances that a constant separates to those of the monsters; timers
  have the tick counts that float arithmetic gives. Packet contents beyond who is where.
- Registries under one mutex, thread pool, configuration, generated code, ONNX inference, Python
  training code, the unused storage code. The policy's answer is arbitrary.

---------------------------------------------------------------------------------------------------

## 7. Plan

Done: AoiWorld, its events and their abstraction; Worker and DBWorker over CondVar; FieldWorker over the grid; Storage,
with its shutdown; GameFlow; MonsterAI; Transport; and for each of them the proof of every safety and
action property that its run checks.

Next:

1. **Worker as a queue**: an abstract queue with a shutdown, implemented by Worker and by DBWorker
   through their histories, as GameFlow and Storage assume of them today in words.
2. **Transport as a channel**: frames come out as they went in, both ways, without buffers, callbacks
   and bytes.
3. **Storage as a register per player**: memory, Redis and MySQL as three versions of which each
   follows the one before it.
