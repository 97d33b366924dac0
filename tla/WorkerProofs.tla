---------------------------- MODULE WorkerProofs ----------------------------
(***************************************************************************)
(* Proofs about Worker, for any set of pushing threads and any number of   *)
(* messages.                                                               *)
(*                                                                         *)
(* The heart is Inside: what holds at each point of loop() while stop()    *)
(* and push() run beside it.  The empty critical section of stop() is what *)
(* makes it inductive: between the evaluation of the predicate and the     *)
(* sleep the mutex is held, so a stop() that cleared running_ too late for *)
(* the predicate is still before its notification ("sync") when the loop   *)
(* goes to sleep.                                                          *)
(***************************************************************************)
EXTENDS Worker, SequenceTheorems, TLAPS

\* Which of the three places of the mutex and the condition variable the loop
\* is in follows from its program counter.
Placed ==
    /\ owner = Loop <=> loopPc \in {"eval", "block", "take"}
    /\ sleep # "awake" <=> loopPc = "asleep"

\* running_ and the phases of start() and stop().
Phases ==
    /\ running => stopPc = "idle" /\ loopPc # "new"
    /\ stopPc # "idle" => loopPc # "new"
    /\ loopPc = "exited" => stopPc # "idle"
    /\ stopPc = "idle" /\ loopPc # "new" => running
    /\ stopPc = "stopped" => loopPc = "exited"

\* Between the predicate and the sleep the queue cannot grow, and running_
\* can only have been cleared by a stop() that has yet to pass the mutex.
Inside ==
    /\ loopPc = "block" => queue = <<>> /\ (running \/ stopPc = "sync")
    /\ loopPc = "take" => queue # <<>> \/ ~running

\* After running_ is cleared the loop takes one message at most: none if it
\* has not been past `take' since, at most one if it has.
Cut ==
    ~running /\ stopPc # "idle" =>
        /\ Len(handled) <= cut + 1
        /\ loopPc \in {"lock", "eval", "block", "asleep", "take"} => Len(handled) <= cut

IInv ==
    /\ TypeOK /\ Placed /\ Phases /\ Inside /\ Cut
    /\ NoLostWakeUp /\ OneMoreAtMost /\ Fifo

LEMMA InitIInv == Init => IInv
<1> SUFFICES ASSUME Init PROVE IInv
  OBVIOUS
<1>1. TypeOK
  <2>1. <<>> \in Seq(Messages)
    BY EmptySeq
  <2> QED BY <2>1 DEF Init, CondVarInit, TypeOK, CondVarTypeOK
<1>2. Placed /\ Phases /\ Inside /\ Cut
  BY MutexAssumption DEF Init, CondVarInit, Placed, Phases, Inside, Cut
<1>3. NoLostWakeUp /\ OneMoreAtMost /\ Fifo
  BY DEF Init, CondVarInit, NoLostWakeUp, OneMoreAtMost, Fifo
<1> QED BY <1>1, <1>2, <1>3 DEF IInv

\* push(): only the queue and the history grow, and a notification is due.
LEMMA PushIInv ==
    ASSUME IInv, NEW p \in Producers, Push(p)
    PROVE  IInv'
<1>0. /\ Message(p) \in Messages /\ owner = Free /\ owner' = Free /\ sleep' = sleep
      /\ UNCHANGED <<running, loopPc, stopPc, handled, cut>>
      /\ queue' = Append(queue, Message(p)) /\ pushed' = Append(pushed, Message(p))
      /\ pushPc' = [pushPc EXCEPT ![p] = "notify"]
  <2>1. Len(pushed) \in Nat /\ Len(pushed) < MaxPush
    BY DEF Push, IInv, TypeOK
  <2> QED BY <2>1, MaxPushAssumption DEF Push, Guarded, Message, Messages
<1>1. TypeOK'
  BY <1>0 DEF IInv, TypeOK, CondVarTypeOK
<1>2. Placed' /\ Phases' /\ Inside' /\ Cut'
  BY <1>0, MutexAssumption DEF IInv, Placed, Phases, Inside, Cut
<1>3. NoLostWakeUp' /\ OneMoreAtMost'
  BY <1>0 DEF IInv, TypeOK, NoLostWakeUp, OneMoreAtMost
<1>4. Fifo'
  <2>1. handled \o Append(queue, Message(p)) = Append(handled \o queue, Message(p))
    BY <1>0 DEF IInv, TypeOK
  <2> QED BY <1>0, <2>1 DEF IInv, Fifo
<1> QED BY <1>1, <1>2, <1>3, <1>4 DEF IInv

\* The steps that touch neither the queue nor the histories.
LEMMA QuietIInv ==
    ASSUME IInv, UNCHANGED <<queue, pushed, handled>>,
           \/ Start
           \/ \E p \in Producers : PushNotify(p)
           \/ StopClear \/ StopStep
           \/ Top \/ LoopLock \/ Eval \/ GoToSleep \/ Wake \/ WakeSpuriously
           \/ TakeNothing \/ HandlerReturns
    PROVE  IInv'
<1> USE MutexAssumption DEF IInv, TypeOK, CondVarTypeOK
<1>F. Fifo'
  BY DEF Fifo
<1>1. CASE Start
  BY <1>1, <1>F DEF Start, Placed, Phases, Inside, Cut, NoLostWakeUp, OneMoreAtMost, history
<1>2. ASSUME NEW p \in Producers, PushNotify(p) PROVE IInv'
  <2>1. TypeOK' /\ Placed' /\ Phases' /\ Inside' /\ Cut' /\ OneMoreAtMost'
    BY <1>2 DEF PushNotify, Notify, Placed, Phases, Inside, Cut, OneMoreAtMost, history
  <2>2. NoLostWakeUp'
    BY <1>2 DEF PushNotify, Notify, NoLostWakeUp, history
  <2> QED BY <2>1, <2>2, <1>F
<1>3. CASE StopClear
  <2>1. Len(handled) \in Nat
    OBVIOUS
  <2>2. cut' = Len(handled) /\ handled' = handled
    BY <1>3 DEF StopClear
  <2>3. Cut' /\ OneMoreAtMost'
    BY <2>1, <2>2 DEF Cut, OneMoreAtMost
  <2>4. TypeOK' /\ Placed' /\ Phases' /\ Inside'
    BY <1>3, <2>1 DEF StopClear, Placed, Phases, Inside
  <2>5. NoLostWakeUp'
    BY <1>3 DEF StopClear, NoLostWakeUp
  <2> QED BY <1>F, <2>3, <2>4, <2>5
<1>4. CASE StopSync
  BY <1>4, <1>F DEF StopSync, Guarded, Placed, Phases, Inside, Cut, NoLostWakeUp,
                    OneMoreAtMost, history
<1>5. CASE StopNotify
  BY <1>5, <1>F DEF StopNotify, Notify, Placed, Phases, Inside, Cut, NoLostWakeUp,
                    OneMoreAtMost, history
<1>6. CASE StopJoin
  BY <1>6, <1>F DEF StopJoin, Placed, Phases, Inside, Cut, NoLostWakeUp, OneMoreAtMost,
                    history
<1>7. CASE Top
  BY <1>7, <1>F DEF Top, Placed, Phases, Inside, Cut, NoLostWakeUp, OneMoreAtMost, history
<1>8. CASE LoopLock
  BY <1>8, <1>F DEF LoopLock, Lock, Placed, Phases, Inside, Cut, NoLostWakeUp,
                    OneMoreAtMost, history
<1>9. CASE Eval
  BY <1>9, <1>F DEF Eval, Placed, Phases, Inside, Cut, NoLostWakeUp, OneMoreAtMost, history
<1>10. CASE GoToSleep
  BY <1>10, <1>F DEF GoToSleep, Block, Placed, Phases, Inside, Cut, NoLostWakeUp,
                     OneMoreAtMost, history
<1>11. CASE Wake \/ WakeSpuriously
  BY <1>11, <1>F DEF Wake, WakeUp, WakeSpuriously, SpuriousWakeUp, Placed, Phases, Inside,
                     Cut, NoLostWakeUp, OneMoreAtMost, history
<1>12. CASE TakeNothing
  BY <1>12, <1>F DEF TakeNothing, Unlock, Placed, Phases, Inside, Cut, NoLostWakeUp,
                     OneMoreAtMost, history
<1>13. CASE HandlerReturns
  BY <1>13, <1>F DEF HandlerReturns, Placed, Phases, Inside, Cut, NoLostWakeUp,
                     OneMoreAtMost, history
<1> QED BY <1>1, <1>2, <1>3, <1>4, <1>5, <1>6, <1>7, <1>8, <1>9, <1>10, <1>11, <1>12,
           <1>13 DEF StopStep

\* Taking a message moves it from the queue to the handler.
LEMMA TakeIInv ==
    ASSUME IInv, Take
    PROVE  IInv'
<1>0. /\ loopPc = "take" /\ owner = Loop /\ owner' = Free /\ sleep' = sleep
      /\ loopPc' = "handle" /\ queue' = Tail(queue)
      /\ handled' = Append(handled, Head(queue))
      /\ UNCHANGED <<running, pushPc, stopPc, pushed, cut>>
  BY DEF Take, Unlock
<1>1. queue # <<>> /\ queue \in Seq(Messages) /\ handled \in Seq(Messages)
  BY DEF Take, IInv, TypeOK, Inside
<1>2. /\ Head(queue) \in Messages /\ Tail(queue) \in Seq(Messages)
      /\ queue = <<Head(queue)>> \o Tail(queue)
  BY <1>1
<1>3. /\ handled' \in Seq(Messages) /\ Len(handled') = Len(handled) + 1
      /\ handled' = handled \o <<Head(queue)>> /\ Len(handled) \in Nat
  BY <1>0, <1>1, <1>2, AppendProperties, AppendIsConcat
<1>4. TypeOK'
  BY <1>0, <1>2, <1>3 DEF IInv, TypeOK, CondVarTypeOK
<1>5. Placed' /\ Phases' /\ Inside' /\ NoLostWakeUp'
  BY <1>0, MutexAssumption DEF IInv, Placed, Phases, Inside, NoLostWakeUp
<1>6. Cut' /\ OneMoreAtMost'
  BY <1>0, <1>3 DEF IInv, TypeOK, Cut, OneMoreAtMost
<1>7. Fifo'
  <2>1. (handled \o <<Head(queue)>>) \o Tail(queue) = handled \o (<<Head(queue)>> \o Tail(queue))
    BY <1>1, <1>2, ConcatAssociative
  <2> QED BY <1>0, <1>2, <1>3, <2>1 DEF IInv, Fifo
<1> QED BY <1>4, <1>5, <1>6, <1>7 DEF IInv

\* The invariant of the reachable states of a worker.
THEOREM Inductive == Spec => []IInv
<1>1. IInv /\ [Next]_vars => IInv'
  <2> SUFFICES ASSUME IInv, [Next]_vars PROVE IInv'
    OBVIOUS
  <2>1. CASE UNCHANGED vars
    BY <2>1 DEF vars, threads, history, IInv, TypeOK, CondVarTypeOK, Placed, Phases,
                Inside, Cut, NoLostWakeUp, OneMoreAtMost, Fifo
  <2>2. ASSUME NEW p \in Producers, Push(p) PROVE IInv'
    BY <2>2, PushIInv
  <2>3. CASE Take
    BY <2>3, TakeIInv
  <2>4. ASSUME NEW p \in Producers, PushNotify(p) PROVE IInv'
    <3>1. UNCHANGED <<queue, pushed, handled>>
      BY <2>4 DEF PushNotify, history
    <3> QED BY <2>4, <3>1, QuietIInv
  <2>5. CASE Start \/ StopClear \/ StopStep
    <3>1. UNCHANGED <<queue, pushed, handled>>
      BY <2>5 DEF Start, StopClear, StopStep, StopSync, StopNotify, StopJoin, history
    <3> QED BY <2>5, <3>1, QuietIInv
  <2>6. CASE Top \/ LoopLock \/ Eval \/ GoToSleep \/ Wake \/ WakeSpuriously
               \/ TakeNothing \/ HandlerReturns
    <3>1. UNCHANGED <<queue, pushed, handled>>
      BY <2>6 DEF Top, LoopLock, Eval, GoToSleep, Wake, WakeSpuriously, TakeNothing,
                  HandlerReturns, history
    <3> QED BY <2>6, <3>1, QuietIInv
  <2> QED BY <2>1, <2>2, <2>3, <2>4, <2>5, <2>6 DEF Next, LoopStep
<1> QED BY <1>1, InitIInv, PTL DEF Spec

\* Every state of a worker is well-typed.
THEOREM TypeCorrect == Spec => []TypeOK
BY Inductive, PTL DEF IInv

\* Messages reach the handler in the order of the pushes, each once.
THEOREM FifoCorrect == Spec => []Fifo
BY Inductive, PTL DEF IInv

\* A worker never sleeps on work, or through its own shutdown.
THEOREM WakeUpCorrect == Spec => []NoLostWakeUp
BY Inductive, PTL DEF IInv

\* After running_ is cleared at most one more message is handled.
THEOREM ShutdownPrompt == Spec => []OneMoreAtMost
BY Inductive, PTL DEF IInv

\* Once stop() has returned the handler never runs again.
THEOREM ShutdownFinal == Spec => QuietOnceStopped
<1>1. IInv /\ [Next]_vars =>
        [stopPc = "stopped" => loopPc = "exited" /\ UNCHANGED handled]_vars
  <2> SUFFICES ASSUME IInv, Next, stopPc = "stopped"
               PROVE  loopPc = "exited" /\ UNCHANGED handled
    OBVIOUS
  <2>1. loopPc = "exited"
    BY DEF IInv, Phases
  <2> QED BY <2>1 DEF Next, Start, Push, PushNotify, StopClear, StopStep, StopSync,
             StopNotify, StopJoin, LoopStep, Top, LoopLock, Eval, GoToSleep, Wake,
             WakeSpuriously, TakeNothing, Take, HandlerReturns, history
<1> QED BY <1>1, Inductive, PTL DEF Spec, QuietOnceStopped

=============================================================================
