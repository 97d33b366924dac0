------------------------------ MODULE CondVar ------------------------------
(***************************************************************************)
(* A std::mutex with one std::condition_variable, as worker/worker.cpp and *)
(* storage/DBWorker.cpp use them: exactly one thread ever waits (the loop),*)
(* the others enter short critical sections that are one step here.        *)
(*                                                                         *)
(* wait() releases the mutex and goes to sleep in one step; a notification *)
(* reaches the loop only while it sleeps; a sleeping loop may also wake up *)
(* for no reason.  Either way it has the mutex again when it continues.    *)
(***************************************************************************)
CONSTANTS Loop, Free   \* the waiting thread; the mutex has no owner

VARIABLES
    owner,   \* who holds the mutex across steps: Loop or Free
    sleep    \* "awake", "asleep" or "notified"

CondVarInit == owner = Free /\ sleep = "awake"

CondVarTypeOK == owner \in {Loop, Free} /\ sleep \in {"awake", "asleep", "notified"}

\* A critical section of another thread, entered and left in one step.
Guarded == owner = Free /\ UNCHANGED owner

Lock == owner = Free /\ owner' = Loop /\ UNCHANGED sleep

Unlock == owner = Loop /\ owner' = Free /\ UNCHANGED sleep

\* The last part of wait(lock, predicate) when the predicate is false.
Block == owner = Loop /\ owner' = Free /\ sleep' = "asleep"

\* notify_one and notify_all agree when there is one waiter.
Notify ==
    /\ sleep' = IF sleep = "asleep" THEN "notified" ELSE sleep
    /\ UNCHANGED owner

WakeUp == sleep = "notified" /\ owner = Free /\ owner' = Loop /\ sleep' = "awake"

SpuriousWakeUp == sleep = "asleep" /\ owner = Free /\ owner' = Loop /\ sleep' = "awake"
=============================================================================
