--------------------------- MODULE DBWorkerProofs ---------------------------
(***************************************************************************)
(* Proofs about DBWorker, for every bound of the queue and any number of   *)
(* jobs: what its loop owes to the jobs it accepted.  That stop() can be   *)
(* missed by a loop about to sleep harms none of this.                     *)
(***************************************************************************)
EXTENDS DBWorker, SequenceTheorems, TLAPS

\* The place of the mutex and the condition variable follows from the loop's.
Placed ==
    /\ owner = Loop <=> loopPc \in {"eval", "block", "take"}
    /\ sleep # "awake" <=> loopPc = "asleep"

\* The queue is fed while running_ is true only, and the loop leaves when it
\* is false and the queue is empty: nothing can come in behind its back.
Phases ==
    /\ uvPc = "pushNotify" => running
    /\ running => uvPc \in {"idle", "pushNotify"}
    /\ loopPc \in {"onStop", "exited"} => ~running /\ queue = <<>>
    /\ uvPc = "joined" => loopPc = "exited"
    /\ loopPc = "new" <=> ~running /\ uvPc = "idle"

Inside ==
    /\ loopPc = "block" => queue = <<>>
    /\ loopPc = "take" => queue # <<>> \/ ~running

IInv == TypeOK /\ Placed /\ Phases /\ Inside /\ NoLostJob /\ BoundedFifo

LEMMA InitIInv == Init => IInv
<1> SUFFICES ASSUME Init PROVE IInv
  OBVIOUS
<1>1. TypeOK
  <2>1. <<>> \in Seq(Jobs)
    BY EmptySeq
  <2>2. queue \in Seq(Jobs) /\ accepted \in Seq(Jobs) /\ handled \in Seq(Jobs)
    BY <2>1 DEF Init
  <2>3. offered \in 0..MaxJobs
    BY BoundsAssumption DEF Init
  <2> QED BY <2>2, <2>3 DEF Init, CondVarInit, TypeOK, CondVarTypeOK
<1>2. Placed /\ Phases /\ Inside
  BY MutexAssumption DEF Init, CondVarInit, Placed, Phases, Inside
<1>3. NoLostJob /\ BoundedFifo
  BY BoundsAssumption DEF Init, NoLostJob, BoundedFifo
<1> QED BY <1>1, <1>2, <1>3 DEF IInv

\* try_push: the job is queued with a notification to come, or refused.
LEMMA TryPushIInv ==
    ASSUME IInv, TryPush
    PROVE  IInv'
<1>0. /\ uvPc = "idle" /\ running /\ owner = Free /\ owner' = Free /\ sleep' = sleep
      /\ offered < MaxJobs /\ offered' = offered + 1
      /\ UNCHANGED <<running, loopPc, handled>>
  BY DEF TryPush, Guarded
<1>1. offered' \in Jobs /\ offered' \in 0..MaxJobs
  BY <1>0, BoundsAssumption DEF IInv, TypeOK, Jobs
<1>2. CASE UNCHANGED <<queue, accepted, uvPc>>
  <2>1. TypeOK'
    BY <1>0, <1>1, <1>2 DEF IInv, TypeOK, CondVarTypeOK
  <2> QED BY <1>0, <1>2, <2>1
          DEF IInv, Placed, Phases, Inside, NoLostJob, BoundedFifo
<1>3. CASE /\ Len(queue) < MaxQueue /\ queue' = Append(queue, offered')
           /\ accepted' = Append(accepted, offered') /\ uvPc' = "pushNotify"
  <2>1. TypeOK'
    BY <1>0, <1>1, <1>3 DEF IInv, TypeOK, CondVarTypeOK
  <2>2. Placed' /\ Phases' /\ Inside' /\ NoLostJob'
    BY <1>0, <1>3, MutexAssumption DEF IInv, Placed, Phases, Inside, NoLostJob
  <2>3. queue \in Seq(Jobs) /\ handled \in Seq(Jobs)
    BY DEF IInv, TypeOK
  <2>4. Len(queue') <= MaxQueue
    BY <1>1, <1>3, <2>3, BoundsAssumption
  <2>5. handled \o Append(queue, offered') = Append(handled \o queue, offered')
    BY <1>1, <2>3
  <2> QED BY <1>0, <1>3, <2>1, <2>2, <2>4, <2>5 DEF IInv, BoundedFifo
<1>4. Len(queue) \in Nat /\ (Len(queue) >= MaxQueue \/ Len(queue) < MaxQueue)
  BY BoundsAssumption DEF IInv, TypeOK
<1> QED BY <1>2, <1>3, <1>4 DEF TryPush

\* Taking a job moves it from the queue to the handler.
LEMMA TakeIInv ==
    ASSUME IInv, Take
    PROVE  IInv'
<1>0. /\ loopPc = "take" /\ owner = Loop /\ owner' = Free /\ sleep' = sleep
      /\ loopPc' = "handle" /\ queue' = Tail(queue)
      /\ handled' = Append(handled, Head(queue))
      /\ UNCHANGED <<running, uvPc, offered, accepted>>
  BY DEF Take, Unlock
<1>1. queue # <<>> /\ queue \in Seq(Jobs) /\ handled \in Seq(Jobs)
  BY DEF Take, IInv, TypeOK, Inside
<1>2. /\ Head(queue) \in Jobs /\ Tail(queue) \in Seq(Jobs)
      /\ queue = <<Head(queue)>> \o Tail(queue)
  BY <1>1
<1>7. Len(Tail(queue)) = Len(queue) - 1 /\ Len(queue) \in Nat
  BY <1>1
<1>3. handled' \in Seq(Jobs) /\ handled' = handled \o <<Head(queue)>>
  BY <1>0, <1>1, <1>2, AppendProperties, AppendIsConcat
<1>4. TypeOK'
  BY <1>0, <1>2, <1>3 DEF IInv, TypeOK, CondVarTypeOK
<1>5. Placed' /\ Phases' /\ Inside' /\ NoLostJob'
  BY <1>0, MutexAssumption DEF IInv, Placed, Phases, Inside, NoLostJob
<1>6. BoundedFifo'
  <2>1. (handled \o <<Head(queue)>>) \o Tail(queue) = handled \o (<<Head(queue)>> \o Tail(queue))
    BY <1>1, <1>2, ConcatAssociative
  <2> QED BY <1>0, <1>2, <1>3, <1>7, <2>1, BoundsAssumption DEF IInv, BoundedFifo
<1> QED BY <1>4, <1>5, <1>6 DEF IInv

\* All other steps leave the jobs alone.
LEMMA QuietIInv ==
    ASSUME IInv, UNCHANGED <<queue, offered, accepted, handled>>,
           \/ Start \/ StopClear \/ UvStep
           \/ OnStart \/ LoopLock \/ Eval \/ GoToSleep \/ Wake \/ WakeSpuriously
           \/ TakeNothing \/ HandlerReturns \/ OnStop
    PROVE  IInv'
<1> USE MutexAssumption DEF IInv, TypeOK, CondVarTypeOK
<1>F. BoundedFifo'
  BY DEF BoundedFifo
<1>1. CASE Start
  BY <1>1, <1>F DEF Start, Placed, Phases, Inside, NoLostJob
<1>2. CASE StopClear
  BY <1>2, <1>F DEF StopClear, Placed, Phases, Inside, NoLostJob
<1>3. CASE PushNotify \/ StopNotify
  BY <1>3, <1>F DEF PushNotify, StopNotify, Notify, Placed, Phases, Inside, NoLostJob
<1>4. CASE Join
  BY <1>4, <1>F DEF Join, Placed, Phases, Inside, NoLostJob
<1>5. CASE OnStart \/ HandlerReturns \/ OnStop
  BY <1>5, <1>F DEF OnStart, HandlerReturns, OnStop, Placed, Phases, Inside, NoLostJob
<1>6. CASE LoopLock
  BY <1>6, <1>F DEF LoopLock, Lock, Placed, Phases, Inside, NoLostJob
<1>7. CASE Eval
  BY <1>7, <1>F DEF Eval, Placed, Phases, Inside, NoLostJob
<1>8. CASE GoToSleep
  BY <1>8, <1>F DEF GoToSleep, Block, Placed, Phases, Inside, NoLostJob
<1>9. CASE Wake \/ WakeSpuriously
  BY <1>9, <1>F DEF Wake, WakeUp, WakeSpuriously, SpuriousWakeUp, Placed, Phases, Inside,
                    NoLostJob
<1>10. CASE TakeNothing
  BY <1>10, <1>F DEF TakeNothing, Unlock, Placed, Phases, Inside, NoLostJob
<1> QED BY <1>1, <1>2, <1>3, <1>4, <1>5, <1>6, <1>7, <1>8, <1>9, <1>10 DEF UvStep

\* The invariant of the reachable states of the database worker.
THEOREM Inductive == Spec => []IInv
<1>1. IInv /\ [Next]_vars => IInv'
  <2> SUFFICES ASSUME IInv, [Next]_vars PROVE IInv'
    OBVIOUS
  <2>1. CASE UNCHANGED vars
    BY <2>1 DEF vars, IInv, TypeOK, CondVarTypeOK, Placed, Phases, Inside, NoLostJob,
                BoundedFifo
  <2>2. CASE TryPush
    BY <2>2, TryPushIInv
  <2>3. CASE Take
    BY <2>3, TakeIInv
  <2>4. CASE Start \/ StopClear \/ UvStep
    <3>1. UNCHANGED <<queue, offered, accepted, handled>>
      BY <2>4 DEF Start, StopClear, UvStep, PushNotify, StopNotify, Join
    <3> QED BY <2>4, <3>1, QuietIInv
  <2>5. CASE OnStart \/ LoopLock \/ Eval \/ GoToSleep \/ Wake \/ WakeSpuriously
               \/ TakeNothing \/ HandlerReturns \/ OnStop
    <3>1. UNCHANGED <<queue, offered, accepted, handled>>
      BY <2>5 DEF OnStart, LoopLock, Eval, GoToSleep, Wake, WakeSpuriously, TakeNothing,
                  HandlerReturns, OnStop
    <3> QED BY <2>5, <3>1, QuietIInv
  <2> QED BY <2>1, <2>2, <2>3, <2>4, <2>5 DEF Next, LoopStep
<1> QED BY <1>1, InitIInv, PTL DEF Spec

\* Every state of the database worker is well-typed.
THEOREM TypeCorrect == Spec => []TypeOK
BY Inductive, PTL DEF IInv

\* The queue never holds more than max_queue_ jobs and accepted jobs are
\* handled in order, refusals or not.
THEOREM BoundedFifoCorrect == Spec => []BoundedFifo
BY Inductive, PTL DEF IInv

\* The loop never sleeps on a job.
THEOREM NoLostJobCorrect == Spec => []NoLostJob
BY Inductive, PTL DEF IInv

\* When join() returns every accepted job was handled.
THEOREM ShutdownDrains == Spec => []Drained
<1>1. IInv => Drained
  <2> SUFFICES ASSUME IInv, uvPc = "joined" PROVE handled = accepted
    BY DEF Drained
  <2>1. queue = <<>> /\ handled \in Seq(Jobs)
    BY DEF IInv, TypeOK, Phases
  <2>2. handled \o <<>> = handled
    BY <2>1
  <2> QED BY <2>1, <2>2 DEF IInv, BoundedFifo
<1> QED BY <1>1, Inductive, PTL

=============================================================================
