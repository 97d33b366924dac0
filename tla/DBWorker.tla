------------------------------ MODULE DBWorker ------------------------------
(***************************************************************************)
(* The database worker's thread and its bounded job queue                  *)
(* (storage/DBWorker.cpp).  One thread feeds it and stops it: the uv loop, *)
(* whose timer pushes the jobs and which owns StorageSystem.  Unlike       *)
(* Worker::stop, stop() here does not pass through the mutex, and run()    *)
(* empties the queue before it leaves.                                     *)
(***************************************************************************)
EXTENDS Integers, Sequences, CondVar

CONSTANTS
    MaxQueue,   \* max_queue_
    MaxJobs     \* bound: how many jobs the timer offers

ASSUME BoundsAssumption == MaxQueue \in Nat \ {0} /\ MaxJobs \in Nat
ASSUME MutexAssumption == Loop # Free

VARIABLES
    running,   \* running_
    queue,     \* q_
    loopPc,    \* the worker thread: where it is in run()
    uvPc,      \* the uv thread: where it is in try_push, stop or join
    offered,   \* history: how many jobs were offered to try_push
    accepted,  \* history: the jobs try_push accepted, in order
    handled    \* history: the jobs handler_ was called with, in order

vars == <<running, queue, loopPc, uvPc, offered, accepted, handled, owner, sleep>>

-----------------------------------------------------------------------------
(* The uv thread.                                                           *)

Start ==
    /\ loopPc = "new"
    /\ running' = TRUE
    /\ loopPc' = "onStart"
    /\ UNCHANGED <<queue, uvPc, offered, accepted, handled, owner, sleep>>

\* Fault: one job too many.
TryPushOneTooMany ==
    /\ uvPc = "idle" /\ running /\ offered < MaxJobs
    /\ Guarded
    /\ offered' = offered + 1
    /\ IF Len(queue) > MaxQueue
       THEN UNCHANGED <<queue, accepted, uvPc>>
       ELSE /\ queue' = Append(queue, offered')
            /\ accepted' = Append(accepted, offered')
            /\ uvPc' = "pushNotify"
    /\ UNCHANGED <<running, loopPc, handled, sleep>>

\* try_push: a full queue refuses the job, with no notification.
TryPush ==
    /\ uvPc = "idle" /\ running /\ offered < MaxJobs
    /\ Guarded
    /\ offered' = offered + 1
    /\ IF Len(queue) >= MaxQueue
       THEN UNCHANGED <<queue, accepted, uvPc>>
       ELSE /\ queue' = Append(queue, offered')
            /\ accepted' = Append(accepted, offered')
            /\ uvPc' = "pushNotify"
    /\ UNCHANGED <<running, loopPc, handled, sleep>>
\* Fault: try_push does not notify.
PushSilently ==
    /\ uvPc = "pushNotify"
    /\ uvPc' = "idle"
    /\ UNCHANGED <<running, queue, loopPc, offered, accepted, handled, owner, sleep>>

PushNotify ==
    /\ uvPc = "pushNotify"
    /\ Notify
    /\ uvPc' = "idle"
    /\ UNCHANGED <<running, queue, loopPc, offered, accepted, handled>>

\* stop(): running_ is cleared without the mutex ...
StopClear ==
    /\ uvPc = "idle" /\ running
    /\ running' = FALSE
    /\ uvPc' = "stopNotify"
    /\ UNCHANGED <<queue, loopPc, offered, accepted, handled, owner, sleep>>

\* ... and the notification follows at once.
StopNotify ==
    /\ uvPc = "stopNotify"
    /\ Notify
    /\ uvPc' = "join"
    /\ UNCHANGED <<running, queue, loopPc, offered, accepted, handled>>

Join ==
    /\ uvPc = "join" /\ loopPc = "exited"
    /\ uvPc' = "joined"
    /\ UNCHANGED <<running, queue, loopPc, offered, accepted, handled, owner, sleep>>

-----------------------------------------------------------------------------
(* run().                                                                   *)

OnStart ==
    /\ loopPc = "onStart"
    /\ loopPc' = "lock"
    /\ UNCHANGED <<running, queue, uvPc, offered, accepted, handled, owner, sleep>>

LoopLock ==
    /\ loopPc = "lock"
    /\ Lock
    /\ loopPc' = "eval"
    /\ UNCHANGED <<running, queue, uvPc, offered, accepted, handled>>

\* The predicate of wait: !q_.empty() || !running_.
Eval ==
    /\ loopPc = "eval"
    /\ loopPc' = IF queue # <<>> \/ ~running THEN "take" ELSE "block"
    /\ UNCHANGED <<running, queue, uvPc, offered, accepted, handled, owner, sleep>>

GoToSleep ==
    /\ loopPc = "block"
    /\ Block
    /\ loopPc' = "asleep"
    /\ UNCHANGED <<running, queue, uvPc, offered, accepted, handled>>

Wake ==
    /\ loopPc = "asleep"
    /\ WakeUp
    /\ loopPc' = "eval"
    /\ UNCHANGED <<running, queue, uvPc, offered, accepted, handled>>

WakeSpuriously ==
    /\ loopPc = "asleep"
    /\ SpuriousWakeUp
    /\ loopPc' = "eval"
    /\ UNCHANGED <<running, queue, uvPc, offered, accepted, handled>>
\* Fault: the loop leaves as soon as running_ is false.
LeaveAtOnce ==
    /\ loopPc = "take" /\ ~running
    /\ Unlock
    /\ loopPc' = "onStop"
    /\ UNCHANGED <<running, queue, uvPc, offered, accepted, handled>>

TakeNothing ==
    /\ loopPc = "take" /\ ~running /\ queue = <<>>
    /\ Unlock
    /\ loopPc' = "onStop"
    /\ UNCHANGED <<running, queue, uvPc, offered, accepted, handled>>

Take ==
    /\ loopPc = "take" /\ (running \/ queue # <<>>)
    /\ Unlock
    /\ queue' = Tail(queue)
    /\ handled' = Append(handled, Head(queue))
    /\ loopPc' = "handle"
    /\ UNCHANGED <<running, uvPc, offered, accepted>>

HandlerReturns ==
    /\ loopPc = "handle"
    /\ loopPc' = "lock"
    /\ UNCHANGED <<running, queue, uvPc, offered, accepted, handled, owner, sleep>>

OnStop ==
    /\ loopPc = "onStop"
    /\ loopPc' = "exited"
    /\ UNCHANGED <<running, queue, uvPc, offered, accepted, handled, owner, sleep>>

-----------------------------------------------------------------------------
Init ==
    /\ CondVarInit
    /\ running = FALSE
    /\ queue = <<>>
    /\ loopPc = "new"
    /\ uvPc = "idle"
    /\ offered = 0
    /\ accepted = <<>>
    /\ handled = <<>>

LoopStep ==
    \/ OnStart \/ LoopLock \/ Eval \/ GoToSleep \/ Wake
    \/ TakeNothing \/ Take \/ HandlerReturns \/ OnStop

UvStep == PushNotify \/ StopNotify \/ Join

Next ==
    \/ Start \/ TryPush \/ StopClear \/ UvStep
    \/ LoopStep \/ WakeSpuriously

Spec == Init /\ [][Next]_vars

\* Both threads go on when they can; the timer need not fire, nobody has to
\* call stop, and nobody is owed a spurious wake-up.
FairSpec == Spec /\ WF_vars(LoopStep) /\ WF_vars(UvStep)

-----------------------------------------------------------------------------
(* Properties. *)

Jobs == 1..MaxJobs

TypeOK ==
    /\ CondVarTypeOK
    /\ running \in BOOLEAN
    /\ queue \in Seq(Jobs) /\ accepted \in Seq(Jobs)
    /\ handled \in Seq(Jobs)
    /\ loopPc \in {"new", "onStart", "lock", "eval", "block", "asleep", "take", "handle",
                   "onStop", "exited"}
    /\ uvPc \in {"idle", "pushNotify", "stopNotify", "join", "joined"}
    /\ offered \in 0..MaxJobs

\* The queue holds max_queue_ jobs at most, and what was accepted is handled
\* in order: refusing a job never loses another one.
BoundedFifo == Len(queue) <= MaxQueue /\ handled \o queue = accepted

\* Shutdown drains: when join() returns, every job ever accepted was handled.
Drained == uvPc = "joined" => handled = accepted

\* No job is slept on: a notification is under way to a sleeping loop
\* whenever the queue is not empty.
NoLostJob == sleep = "asleep" /\ queue # <<>> => uvPc = "pushNotify"

\* DBWorker.h l. 22 calls stop() a graceful stop signal, and
\* StorageSystem::stop joins right after it: the loop is told, and exits.
StopReturns == uvPc = "stopNotify" ~> uvPc = "joined"

=============================================================================
