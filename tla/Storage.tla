------------------------------ MODULE Storage ------------------------------
(***************************************************************************)
(* How a player's state reaches Redis and MySQL (storage/StorageSystem.cpp,*)
(* storage/DirtyHub.h, storage/redis, storage/DB/Proc and the marking code *)
(* of worker/fieldWorker.cpp).                                             *)
(*                                                                         *)
(*  field threads --rtQ--------------------> DB thread --> redis           *)
(*        \--dirty--> uv timer --dbQ-------> DB thread --> redis -> mysql  *)
(*                                                                         *)
(* Abstractions.                                                           *)
(*  - A player's state (position, hp, sp) is a version that grows with     *)
(*    every change; redis and mysql hold the version they were last given, *)
(*    0 for no record.                                                     *)
(*  - Every player is alone in its field and in its shard of DirtyHub: the *)
(*    interleavings of one thread with two players are among those.        *)
(*  - The thread, mutex and condition variable behind dbQ are in DBWorker; *)
(*    here the DB thread takes a job whenever there is one.                *)
(***************************************************************************)
EXTENDS Integers, Sequences, FiniteSets, Functions

CONSTANTS
    Uids,         \* players
    MaxChanges,   \* bound: changes of the players' states, all together
    MaxQueue,     \* DBWorker::max_queue_
    MaxBatch,     \* cfg.storage.max_batch_uids
    PendingMod,   \* rt_pending_ counts modulo this (2^32 in the code)
    Faults        \* whether Redis and MySQL calls may fail

ASSUME BoundsAssumption ==
    /\ IsFiniteSet(Uids)
    /\ MaxChanges \in Nat /\ MaxQueue \in Nat \ {0} /\ MaxBatch \in Nat \ {0}
    /\ PendingMod \in Nat \ {0} /\ Faults \in BOOLEAN

VARIABLES
    version,    \* version[u]: the state of player u in memory
    fieldPc,    \* fieldPc[u]: where u's field thread is in a save
    rtQ,        \* rt_q_: pairs <<uid, version>>
    rtPending,  \* rt_pending_
    dirty,      \* DirtyHub: the uids in its shards
    started,    \* StorageSystem::Impl::started
    timerPc,    \* the uv timer callback: "idle", "stealing" or "pushing"
    unlooked,   \* the shards steal_all has yet to visit
    stolen,     \* uids stolen, not yet in a job
    dbQ,        \* jobs waiting: sets of uids
    dbPc,       \* the DB thread: where it is in handle_db_job
    job,        \* the job in its hands
    rtLocal,    \* rt_local_: the writes being flushed
    snap,       \* snap: the snapshots fetched, a set of <<uid, version>>
    connected,  \* redis_ctx && mysql
    redis,      \* redis[u]: the version in the rt hash of u, 0 if none
    mysql,      \* mysql[u]: the version in u's row, 0 if none
    saved,      \* history: the newest version of u that was enqueued and marked
    failed      \* history: uids whose state was in a call of the DB thread that failed

field == <<version, fieldPc, saved>>
hub == <<dirty>>
rt == <<rtQ, rtPending>>
timer == <<started, timerPc, unlooked, stolen>>
dbthread == <<dbPc, job, rtLocal, snap, connected, failed>>
stores == <<redis, mysql>>
vars == <<field, hub, rt, timer, dbQ, dbthread, stores>>

-----------------------------------------------------------------------------
(* The field threads.  fieldPc[u] is <<"idle">>, or the next step of a save *)
(* with the version its snapshot holds.                                     *)

Idle == <<"idle">>

\* How many changes there were.
Changes == FoldFunction(+, 0, version)

\* mark_dirty_state and mark_dirty_pos_if_needed: the player moved or stopped
\* by timeout; a snapshot is taken and enqueued before the uid is marked.
Save(u) ==
    /\ fieldPc[u] = Idle /\ Changes < MaxChanges
    /\ version' = [version EXCEPT ![u] = @ + 1]
    /\ fieldPc' = [fieldPc EXCEPT ![u] = <<"enqueue", version'[u]>>]
    /\ UNCHANGED <<saved, hub, rt, timer, dbQ, dbthread, stores>>

\* enqueue_rt_write: the push under rt_mu_ ...
RtPush(u) ==
    /\ fieldPc[u][1] = "enqueue"
    /\ rtQ' = Append(rtQ, <<u, fieldPc[u][2]>>)
    /\ fieldPc' = [fieldPc EXCEPT ![u][1] = "count"]
    /\ UNCHANGED <<version, saved, hub, rtPending, timer, dbQ, dbthread, stores>>

\* ... and the counter after it.
RtCount(u) ==
    /\ fieldPc[u][1] = "count"
    /\ rtPending' = (rtPending + 1) % PendingMod
    /\ fieldPc' = [fieldPc EXCEPT ![u][1] = "mark"]
    /\ UNCHANGED <<version, saved, hub, rtQ, timer, dbQ, dbthread, stores>>

\* dirtyHub_.mark_dirty at the end of a save.
Mark(u) ==
    /\ fieldPc[u][1] = "mark"
    /\ dirty' = dirty \cup {u}
    /\ saved' = [saved EXCEPT ![u] = fieldPc[u][2]]
    /\ fieldPc' = [fieldPc EXCEPT ![u] = Idle]
    /\ UNCHANGED <<version, rt, timer, dbQ, dbthread, stores>>

\* mark_dirty_pos_if_needed less than dirtyMinInterval_ after the last mark:
\* the player moved, and nothing else happens.  Neither does a stop it asks
\* for itself save anything.
Throttled(u) ==
    /\ fieldPc[u] = Idle /\ Changes < MaxChanges
    /\ version' = [version EXCEPT ![u] = @ + 1]
    /\ UNCHANGED <<fieldPc, saved, hub, rt, timer, dbQ, dbthread, stores>>

\* attack_player: the hit is applied to the player's stats, and
\* env_.markPlayerDirty marks the uid without enqueuing a snapshot.
Hit(u) ==
    /\ fieldPc[u] = Idle /\ Changes < MaxChanges
    /\ version' = [version EXCEPT ![u] = @ + 1]
    /\ dirty' = dirty \cup {u}
    /\ UNCHANGED <<fieldPc, saved, rt, timer, dbQ, dbthread, stores>>

-----------------------------------------------------------------------------
(* The uv timer (on_timer).                                                 *)

\* steal_all, shard by shard ...
TimerFires ==
    /\ started /\ timerPc = "idle"
    /\ timerPc' = "stealing"
    /\ unlooked' = Uids
    /\ stolen' = {}
    /\ UNCHANGED <<started, field, hub, rt, dbQ, dbthread, stores>>

StealShard(u) ==
    /\ timerPc = "stealing" /\ u \in unlooked
    /\ unlooked' = unlooked \ {u}
    /\ stolen' = stolen \cup (dirty \cap {u})
    /\ dirty' = dirty \ {u}
    /\ UNCHANGED <<started, field, rt, timerPc, dbQ, dbthread, stores>>
\* Fault: the hub is cleared once all shards are stolen.
StealDoneClears ==
    /\ timerPc = "stealing" /\ unlooked = {}
    /\ timerPc' = "pushing"
    /\ dirty' = {}
    /\ UNCHANGED <<field, rt, started, unlooked, stolen, dbQ, dbthread, stores>>

StealDone ==
    /\ timerPc = "stealing" /\ unlooked = {}
    /\ timerPc' = "pushing"
    /\ UNCHANGED <<field, hub, rt, started, unlooked, stolen, dbQ, dbthread, stores>>

\* Nothing was dirty: an empty job if real-time writes are pending.  A full
\* queue refuses it, and the result is ignored.
PushEmptyJob ==
    /\ timerPc = "pushing" /\ stolen = {}
    /\ timerPc' = "idle"
    /\ dbQ' = IF rtPending > 0 /\ Len(dbQ) < MaxQueue THEN Append(dbQ, {}) ELSE dbQ
    /\ UNCHANGED <<field, hub, rt, started, unlooked, stolen, dbthread, stores>>
\* Fault: a refused batch is forgotten.
PushBatchDrops(batch) ==
    /\ timerPc = "pushing"
    /\ batch # {}
    /\ Cardinality(batch) = MaxBatch \/ (batch = stolen /\ Cardinality(batch) < MaxBatch)
    /\ stolen' = stolen \ batch
    /\ timerPc' = IF stolen' = {} THEN "idle" ELSE "pushing"
    /\ dbQ' = IF Len(dbQ) < MaxQueue THEN Append(dbQ, batch) ELSE dbQ
    /\ UNCHANGED <<field, dirty, rt, started, unlooked, dbthread, stores>>

\* ... then batch by batch; the uids of a refused batch are marked again.
\* The callback ends with the last batch.
PushBatch(batch) ==
    /\ timerPc = "pushing"
    /\ batch # {}
    /\ Cardinality(batch) = MaxBatch \/ (batch = stolen /\ Cardinality(batch) < MaxBatch)
    /\ stolen' = stolen \ batch
    /\ timerPc' = IF stolen' = {} THEN "idle" ELSE "pushing"
    /\ IF Len(dbQ) < MaxQueue
       THEN dbQ' = Append(dbQ, batch) /\ UNCHANGED dirty
       ELSE dirty' = dirty \cup batch /\ UNCHANGED dbQ
    /\ UNCHANGED <<field, rt, started, unlooked, dbthread, stores>>

\* stop, on the thread of the timer: no timer any more, and the DB thread is
\* told to leave.  The hub and the queue of real-time writes are not looked at.
Stop ==
    /\ started /\ timerPc = "idle"
    /\ started' = FALSE
    /\ UNCHANGED <<field, hub, rt, timerPc, unlooked, stolen, dbQ, dbthread, stores>>

-----------------------------------------------------------------------------
(* The DB thread (handle_db_job).                                           *)

TakeJob ==
    /\ dbPc = "idle" /\ dbQ # <<>>
    /\ job' = Head(dbQ)
    /\ dbQ' = Tail(dbQ)
    /\ dbPc' = "connect"
    /\ UNCHANGED <<field, hub, rt, timer, rtLocal, snap, connected, failed, stores>>

\* The job ends, done or dropped.
EndJob == dbPc' = "idle" /\ job' = {} /\ snap' = {}

\* A call about the state of us failed: disconnect_db, nothing is retried.
Fail(us) == Faults /\ connected' = FALSE /\ failed' = failed \cup us

\* ensure_connected, before and after the flush.
Connect(pc, next) ==
    /\ dbPc = pc
    /\ \/ /\ connected' = TRUE
          /\ dbPc' = next
          /\ UNCHANGED <<job, snap, failed>>
       \/ ~connected /\ Fail(job) /\ EndJob
    /\ UNCHANGED <<field, hub, rt, timer, dbQ, rtLocal, stores>>

ConnectFirst == Connect("connect", "swap")
ConnectAgain == Connect("reconnect", "fetch")
\* Fault: the queue is copied, not swapped.
FlushCopy ==
    /\ dbPc = "swap"
    /\ rtLocal' = rtQ
    /\ dbPc' = IF rtQ = <<>> THEN "reconnect" ELSE "uncount"
    /\ UNCHANGED <<field, hub, rt, timer, dbQ, job, snap, connected, failed, stores>>

\* flush_rt_writes: take the whole queue, ...
FlushSwap ==
    /\ dbPc = "swap"
    /\ rtLocal' = rtQ
    /\ rtQ' = <<>>
    /\ dbPc' = IF rtQ = <<>> THEN "reconnect" ELSE "uncount"
    /\ UNCHANGED <<field, hub, rtPending, timer, dbQ, job, snap, connected, failed, stores>>

\* Fault: the counter is set to 0.
FlushUncountAll ==
    /\ dbPc = "uncount"
    /\ rtPending' = 0
    /\ dbPc' = "write"
    /\ UNCHANGED <<field, hub, rtQ, timer, dbQ, job, rtLocal, snap, connected, failed, stores>>

\* ... lower the counter (fetch_sub, modulo 2^32), ...
FlushUncount ==
    /\ dbPc = "uncount"
    /\ rtPending' = (rtPending - Len(rtLocal)) % PendingMod
    /\ dbPc' = "write"
    /\ UNCHANGED <<field, hub, rtQ, timer, dbQ, job, rtLocal, snap, connected, failed, stores>>

\* ... and write the batch in order, in one pipeline: if it fails, any number
\* of its commands were executed, and the rest is gone with rt_local_.
Written(n) ==
    [u \in Uids |->
        LET mine == { k \in 1..n : rtLocal[k][1] = u }
        IN  IF mine = {} THEN redis[u]
            ELSE rtLocal[CHOOSE k \in mine : \A l \in mine : l <= k][2]]
\* Fault: a failed batch goes back into the queue, behind newer writes.
FlushWriteRequeues ==
    /\ dbPc = "write"
    /\ \/ redis' = Written(Len(rtLocal)) /\ UNCHANGED <<connected, failed, rt>>
       \/ /\ Fail({})
          /\ \E n \in 0..Len(rtLocal) : redis' = Written(n)
          /\ rtQ' = rtQ \o rtLocal
          /\ rtPending' = (rtPending + Len(rtLocal)) % PendingMod
    /\ rtLocal' = <<>>
    /\ dbPc' = "reconnect"
    /\ UNCHANGED <<field, hub, timer, dbQ, job, snap, mysql>>

FlushWrite ==
    /\ dbPc = "write"
    /\ \/ redis' = Written(Len(rtLocal)) /\ UNCHANGED <<connected, failed>>
       \/ /\ Fail({ rtLocal[k][1] : k \in 1..Len(rtLocal) })
          /\ \E n \in 0..Len(rtLocal) : redis' = Written(n)
    /\ rtLocal' = <<>>
    /\ dbPc' = "reconnect"
    /\ UNCHANGED <<field, hub, rt, timer, dbQ, job, snap, mysql>>

\* FetchUsers: the uids without a record in Redis are skipped; a job left
\* with nothing is done.
Fetch ==
    /\ dbPc = "fetch"
    /\ \/ /\ snap' = { <<u, redis[u]>> : u \in { v \in job : redis[v] # 0 } }
          /\ IF snap' = {} THEN dbPc' = "idle" /\ job' = {}
             ELSE dbPc' = "upsert" /\ UNCHANGED job
          /\ UNCHANGED <<connected, failed>>
       \/ job # {} /\ Fail(job) /\ EndJob
    /\ UNCHANGED <<field, hub, rt, timer, dbQ, rtLocal, stores>>

\* CallSpUpsertUserStateBatch: one stored-procedure call for the batch.
Upsert ==
    /\ dbPc = "upsert"
    /\ \/ /\ mysql' = [u \in Uids |->
                          IF \E s \in snap : s[1] = u
                          THEN (CHOOSE s \in snap : s[1] = u)[2]
                          ELSE mysql[u]]
          /\ UNCHANGED <<connected, failed>>
       \/ Fail({ s[1] : s \in snap }) /\ UNCHANGED mysql
    /\ EndJob
    /\ UNCHANGED <<field, hub, rt, timer, dbQ, rtLocal, redis>>

\* Fault: the thread leaves with jobs in the queue.
DbLeaveAtOnce ==
    /\ dbPc = "idle" /\ ~started
    /\ dbPc' = "gone" /\ connected' = FALSE
    /\ UNCHANGED <<field, hub, rt, timer, dbQ, job, rtLocal, snap, failed, stores>>

\* db.stop, db.join: the thread leaves when the queue is empty, and disconnects.
DbLeave ==
    /\ dbPc = "idle" /\ ~started /\ dbQ = <<>>
    /\ dbPc' = "gone" /\ connected' = FALSE
    /\ UNCHANGED <<field, hub, rt, timer, dbQ, job, rtLocal, snap, failed, stores>>

-----------------------------------------------------------------------------
Init ==
    /\ version = [u \in Uids |-> 0]
    /\ fieldPc = [u \in Uids |-> Idle]
    /\ saved = [u \in Uids |-> 0]
    /\ rtQ = <<>> /\ rtPending = 0
    /\ dirty = {}
    /\ started = TRUE /\ timerPc = "idle" /\ unlooked = {} /\ stolen = {}
    /\ dbQ = <<>>
    /\ dbPc = "idle" /\ job = {} /\ rtLocal = <<>> /\ snap = {}
    /\ connected \in BOOLEAN    \* connect_db of a thread that starts may fail
    /\ failed = {}
    /\ redis = [u \in Uids |-> 0]
    /\ mysql = [u \in Uids |-> 0]

SaveStep(u) == RtPush(u) \/ RtCount(u) \/ Mark(u)

TimerStep ==
    \/ TimerFires
    \/ \E u \in Uids : StealShard(u)
    \/ StealDone \/ PushEmptyJob
    \/ \E batch \in SUBSET stolen : PushBatch(batch)

DbStep ==
    \/ TakeJob \/ ConnectFirst \/ FlushSwap \/ FlushUncount \/ FlushWrite
    \/ ConnectAgain \/ Fetch \/ Upsert \/ DbLeave

Next ==
    \/ \E u \in Uids : Save(u) \/ Throttled(u) \/ Hit(u) \/ SaveStep(u)
    \/ TimerStep \/ Stop \/ DbStep

Spec == Init /\ [][Next]_vars

\* A save that started ends, the timer is periodic (uv_timer_start with a
\* repeat) and the DB thread works as long as there are jobs.
FairSpec ==
    /\ Spec
    /\ \A u \in Uids : WF_vars(SaveStep(u))
    /\ WF_vars(TimerStep) /\ WF_vars(DbStep)

-----------------------------------------------------------------------------
(* Properties. *)

Versions == Nat

TypeOK ==
    /\ version \in [Uids -> Versions] /\ saved \in [Uids -> Versions]
    /\ redis \in [Uids -> Versions] /\ mysql \in [Uids -> Versions]
    /\ fieldPc \in [Uids -> {Idle} \cup ({"enqueue", "count", "mark"} \X Versions)]
    /\ rtQ \in Seq(Uids \X Versions) /\ rtLocal \in Seq(Uids \X Versions)
    /\ rtPending \in 0..(PendingMod - 1)
    /\ dirty \subseteq Uids /\ unlooked \subseteq Uids /\ stolen \subseteq Uids
    /\ dbQ \in Seq(SUBSET Uids) /\ job \subseteq Uids
    /\ snap \subseteq Uids \X Versions
    /\ timerPc \in {"idle", "stealing", "pushing"}
    /\ dbPc \in {"idle", "connect", "swap", "uncount", "write", "reconnect", "fetch",
                 "upsert", "gone"}
    /\ started \in BOOLEAN /\ connected \in BOOLEAN /\ failed \subseteq Uids

\* Somebody still carries player u towards the database.
Carried(u) ==
    \/ u \in dirty \cup stolen \cup job
    \/ \E k \in 1..Len(dbQ) : u \in dbQ[k]

\* No lost update.  A saved version that is not in MySQL is on its way: the
\* uid is in the hub, in the hands of the timer, queued or in the job being
\* handled.  Marks race with the stealing of the same shard, refused batches
\* go back to the hub, and a job reads Redis, not the version it was made for.
\* Only a failed call drops what it carried.
NoLostUpdate == \A u \in Uids \ failed : mysql[u] < saved[u] => Carried(u)

\* The pending counter is exact but for the pushes not yet counted and the
\* flush not yet uncounted, modulo the width of the counter: the wrap-around
\* of a flush that overtakes the count of its own push always heals.
PendingExact ==
    LET counting == Cardinality({ u \in Uids : fieldPc[u][1] = "count" })
        flushing == IF dbPc = "uncount" THEN Len(rtLocal) ELSE 0
    IN  rtPending = (Len(rtQ) + flushing - counting) % PendingMod

\* Nothing goes backwards, even when connections fail in the middle of a
\* batch: neither store is ever given a state older than the one it holds.
NoRegress ==
    [][\A u \in Uids : redis[u] <= redis'[u] /\ mysql[u] <= mysql'[u]]_vars

\* MySQL is only ever behind Redis, and Redis only behind the memory.
Downstream == \A u \in Uids : mysql[u] <= redis[u] /\ redis[u] <= version[u]

\* MySQL catches up with what was saved, again and again, whatever is refused
\* and retried on the way, unless a call about the player failed or the
\* storage was stopped before.
SavedReachesMysql ==
    \A u \in Uids : []<>(mysql[u] >= saved[u] \/ u \in failed \/ ~started)

\* Shutdown loses no accepted job: a uid in the queue gets the state Redis had
\* of it, or a newer one, into MySQL, stop or no stop.
AcceptedReachesMysql ==
    \A u \in Uids : \A v \in 1..MaxChanges :
        (\E k \in 1..Len(dbQ) : u \in dbQ[k]) /\ redis[u] >= v
            ~> mysql[u] >= v \/ u \in failed

=============================================================================
