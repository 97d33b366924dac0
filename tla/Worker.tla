------------------------------- MODULE Worker -------------------------------
(***************************************************************************)
(* One message worker (worker/worker.cpp): the GameWorker and every        *)
(* FieldWorker are one of these.  Any thread pushes; the worker's own      *)
(* thread takes messages one at a time and runs on_message on them; one    *)
(* other thread stops it.  Every access to running_, to the queue and to   *)
(* the condition variable is a step of its own, since running_ is read and *)
(* written without the mutex.                                              *)
(***************************************************************************)
EXTENDS Integers, Sequences, CondVar

CONSTANTS
    Producers,   \* threads that call push
    MaxPush      \* bound: how many messages they push, all together

ASSUME MaxPushAssumption == MaxPush \in Nat
ASSUME MutexAssumption == Loop # Free

VARIABLES
    running,   \* running_
    queue,     \* queue_
    loopPc,    \* the worker thread: where it is in loop()
    pushPc,    \* pushPc[p]: "idle", or "notify" between unlock and notify_one
    stopPc,    \* the stopping thread: where it is in stop()
    pushed,    \* history: every message pushed, in order
    handled,   \* history: every message on_message was called with, in order
    cut        \* history: Len(handled) when stop() cleared running_

threads == <<loopPc, pushPc, stopPc>>
history == <<pushed, handled, cut>>
vars == <<running, queue, threads, history, owner, sleep>>

\* The next message of thread p: no two messages are alike.
Message(p) == <<p, Len(pushed) + 1>>

-----------------------------------------------------------------------------
(* start(): running_ goes from false to true, then the thread starts.       *)

Start ==
    /\ loopPc = "new" /\ stopPc = "idle"
    /\ running' = TRUE
    /\ loopPc' = "top"
    /\ UNCHANGED <<queue, pushPc, stopPc, history, owner, sleep>>

-----------------------------------------------------------------------------
(* push(): the message under the mutex, the notification after it.          *)
\* Fault: the message is moved out before it is queued.
PushMovedFrom(p) ==
    /\ pushPc[p] = "idle" /\ Len(pushed) < MaxPush
    /\ Guarded
    /\ queue' = Append(queue, <<>>)
    /\ pushed' = Append(pushed, Message(p))
    /\ pushPc' = [pushPc EXCEPT ![p] = "notify"]
    /\ UNCHANGED <<running, loopPc, stopPc, handled, cut, sleep>>

Push(p) ==
    /\ pushPc[p] = "idle" /\ Len(pushed) < MaxPush
    /\ Guarded
    /\ queue' = Append(queue, Message(p))
    /\ pushed' = Append(pushed, Message(p))
    /\ pushPc' = [pushPc EXCEPT ![p] = "notify"]
    /\ UNCHANGED <<running, loopPc, stopPc, handled, cut, sleep>>
\* Fault: push does not notify.
PushSilently(p) ==
    /\ pushPc[p] = "notify"
    /\ pushPc' = [pushPc EXCEPT ![p] = "idle"]
    /\ UNCHANGED <<running, queue, loopPc, stopPc, history, owner, sleep>>

PushNotify(p) ==
    /\ pushPc[p] = "notify"
    /\ Notify
    /\ pushPc' = [pushPc EXCEPT ![p] = "idle"]
    /\ UNCHANGED <<running, queue, loopPc, stopPc, history>>

-----------------------------------------------------------------------------
(* stop(): clear running_, pass through the mutex, notify, join.            *)

StopClear ==
    /\ stopPc = "idle" /\ running
    /\ running' = FALSE
    /\ cut' = Len(handled)
    /\ stopPc' = "sync"
    /\ UNCHANGED <<queue, loopPc, pushPc, pushed, handled, owner, sleep>>
\* Fault: stop() notifies without passing through the mutex.
StopNoSync ==
    /\ stopPc = "sync"
    /\ stopPc' = "notify"
    /\ UNCHANGED <<running, queue, loopPc, pushPc, history, owner, sleep>>

StopSync ==
    /\ stopPc = "sync"
    /\ Guarded
    /\ stopPc' = "notify"
    /\ UNCHANGED <<running, queue, loopPc, pushPc, history, sleep>>

StopNotify ==
    /\ stopPc = "notify"
    /\ Notify
    /\ stopPc' = "join"
    /\ UNCHANGED <<running, queue, loopPc, pushPc, history>>
\* Fault: stop() does not wait for the thread.
StopDetach ==
    /\ stopPc = "join"
    /\ stopPc' = "stopped"
    /\ UNCHANGED <<running, queue, loopPc, pushPc, history, owner, sleep>>

StopJoin ==
    /\ stopPc = "join" /\ loopPc = "exited"
    /\ stopPc' = "stopped"
    /\ UNCHANGED <<running, queue, loopPc, pushPc, history, owner, sleep>>

-----------------------------------------------------------------------------
(* loop(): while (running_) { lock; wait(pred); take; unlock; handle }.     *)
\* Fault: the loop does not look at running_.
TopForever ==
    /\ loopPc = "top"
    /\ loopPc' = "lock"
    /\ UNCHANGED <<running, queue, pushPc, stopPc, history, owner, sleep>>

Top ==
    /\ loopPc = "top"
    /\ loopPc' = IF running THEN "lock" ELSE "exited"
    /\ UNCHANGED <<running, queue, pushPc, stopPc, history, owner, sleep>>

LoopLock ==
    /\ loopPc = "lock"
    /\ Lock
    /\ loopPc' = "eval"
    /\ UNCHANGED <<running, queue, pushPc, stopPc, history>>
\* Fault: the predicate of wait does not look at running_.
EvalQueueOnly ==
    /\ loopPc = "eval"
    /\ loopPc' = IF queue # <<>> THEN "take" ELSE "block"
    /\ UNCHANGED <<running, queue, pushPc, stopPc, history, owner, sleep>>

\* The predicate of wait: !running_ || !queue_.empty().
Eval ==
    /\ loopPc = "eval"
    /\ loopPc' = IF ~running \/ queue # <<>> THEN "take" ELSE "block"
    /\ UNCHANGED <<running, queue, pushPc, stopPc, history, owner, sleep>>

GoToSleep ==
    /\ loopPc = "block"
    /\ Block
    /\ loopPc' = "asleep"
    /\ UNCHANGED <<running, queue, pushPc, stopPc, history>>

Wake ==
    /\ loopPc = "asleep"
    /\ WakeUp
    /\ loopPc' = "eval"
    /\ UNCHANGED <<running, queue, pushPc, stopPc, history>>

WakeSpuriously ==
    /\ loopPc = "asleep"
    /\ SpuriousWakeUp
    /\ loopPc' = "eval"
    /\ UNCHANGED <<running, queue, pushPc, stopPc, history>>

TakeNothing ==
    /\ loopPc = "take" /\ ~running /\ queue = <<>>
    /\ Unlock
    /\ loopPc' = "exited"
    /\ UNCHANGED <<running, queue, pushPc, stopPc, history>>
\* Fault: the newest message is taken.
TakeNewest ==
    /\ loopPc = "take" /\ (running \/ queue # <<>>)
    /\ Unlock
    /\ queue' = SubSeq(queue, 1, Len(queue) - 1)
    /\ loopPc' = "handle"
    /\ handled' = Append(handled, queue[Len(queue)])
    /\ UNCHANGED <<running, pushPc, stopPc, pushed, cut>>

Take ==
    /\ loopPc = "take" /\ (running \/ queue # <<>>)
    /\ Unlock
    /\ queue' = Tail(queue)
    /\ loopPc' = "handle"
    /\ handled' = Append(handled, Head(queue))
    /\ UNCHANGED <<running, pushPc, stopPc, pushed, cut>>

HandlerReturns ==
    /\ loopPc = "handle"
    /\ loopPc' = "top"
    /\ UNCHANGED <<running, queue, pushPc, stopPc, history, owner, sleep>>

-----------------------------------------------------------------------------
Init ==
    /\ CondVarInit
    /\ running = FALSE
    /\ queue = <<>>
    /\ loopPc = "new"
    /\ pushPc = [p \in Producers |-> "idle"]
    /\ stopPc = "idle"
    /\ pushed = <<>>
    /\ handled = <<>>
    /\ cut = 0

LoopStep ==
    \/ Top \/ LoopLock \/ Eval \/ GoToSleep \/ Wake
    \/ TakeNothing \/ Take \/ HandlerReturns

StopStep == StopSync \/ StopNotify \/ StopJoin

Next ==
    \/ Start
    \/ \E p \in Producers : Push(p) \/ PushNotify(p)
    \/ StopClear \/ StopStep
    \/ LoopStep \/ WakeSpuriously

\* A thread that can go on does: the loop, the rest of a push and the rest of
\* a stop.  Nobody has to push, to stop or to wake up for no reason.
Fairness ==
    /\ WF_vars(LoopStep)
    /\ WF_vars(StopStep)
    /\ \A p \in Producers : WF_vars(PushNotify(p))

Spec == Init /\ [][Next]_vars

FairSpec == Spec /\ Fairness

-----------------------------------------------------------------------------
(* Properties. *)

Messages == Producers \X (1..MaxPush)

TypeOK ==
    /\ CondVarTypeOK
    /\ running \in BOOLEAN
    /\ queue \in Seq(Messages) /\ pushed \in Seq(Messages) /\ handled \in Seq(Messages)
    /\ loopPc \in {"new", "top", "lock", "eval", "block", "asleep", "take", "handle",
                   "exited"}
    /\ pushPc \in [Producers -> {"idle", "notify"}]
    /\ stopPc \in {"idle", "sync", "notify", "join", "stopped"}
    /\ cut \in Nat

\* Whatever the interleaving of pushers and loop, no message is lost,
\* duplicated or overtaken on its way through the queue.
Fifo == handled \o queue = pushed

\* No lost wake-up: while the loop sleeps without a notification under way to
\* it, there is nothing for it to do.  Pushes notify after they released the
\* mutex and stop() writes running_ without it, so this is not by construction.
NoLostWakeUp ==
    sleep = "asleep" =>
        /\ queue = <<>> \/ \E p \in Producers : pushPc[p] = "notify"
        /\ running \/ stopPc \in {"sync", "notify"}

\* Shutdown is prompt: once running_ is cleared at most one more message is
\* handled, the rest stay in the queue for good.
OneMoreAtMost == ~running /\ stopPc # "idle" => Len(handled) <= cut + 1

\* Once stop() has returned no handler runs and none will: the callback's
\* captures (the FieldWorker) may be destroyed.
QuietOnceStopped ==
    [][stopPc = "stopped" => loopPc = "exited" /\ UNCHANGED handled]_vars

\* While the worker runs, every pushed message is eventually handled.
EverythingHandled ==
    \A k \in 1..MaxPush :
        loopPc # "new" /\ Len(pushed) >= k ~> Len(handled) >= k \/ ~running

\* stop() returns: the join does not wait forever.
StopReturns == stopPc = "sync" ~> stopPc = "stopped"

=============================================================================
