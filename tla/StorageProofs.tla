--------------------------- MODULE StorageProofs ---------------------------
(***************************************************************************)
(* Proofs about Storage, for any finite set of players, any bounds of the  *)
(* queue and of a batch, any width of the pending counter, faults or not:  *)
(* no saved state is lost, no store goes backwards, and the counter that   *)
(* wraps around is exact.                                                  *)
(***************************************************************************)
EXTENDS Storage, FiniteSetTheorems, SequenceTheorems, WellFoundedInduction, TLAPS

-----------------------------------------------------------------------------
(* The inductive invariant. *)

\* What the DB thread holds follows from where it is.
Phases ==
    /\ rtLocal # <<>> => dbPc \in {"uncount", "write"}
    /\ job # {} => dbPc \notin {"idle", "gone"}
    /\ snap # {} => dbPc = "upsert"

\* The timer's callback ends when nothing stolen is left in its hands.
Emptied == timerPc = "idle" => stolen = {}

\* The writes of one player are queued in the order of their versions ...
Sorted(q) ==
    \A k, l \in 1..Len(q) : k <= l /\ q[k][1] = q[l][1] => q[k][2] <= q[l][2]

\* ... none older than the record in Redis nor newer than the memory, ...
Between(q) ==
    \A k \in 1..Len(q) : redis[q[k][1]] <= q[k][2] /\ q[k][2] <= version[q[k][1]]

\* ... and those being flushed come before those queued since.
Ahead ==
    \A k \in 1..Len(rtLocal), l \in 1..Len(rtQ) :
        rtLocal[k][1] = rtQ[l][1] => rtLocal[k][2] <= rtQ[l][2]

QueuesOrdered == Sorted(rtLocal) /\ Sorted(rtQ) /\ Between(rtLocal) /\ Between(rtQ) /\ Ahead

\* A save holds the newest version: its player does not change before it ends.
Saving ==
    \A u \in Uids :
        /\ fieldPc[u] # Idle => fieldPc[u][2] = version[u]
        /\ saved[u] <= version[u]

\* A fetched snapshot lies between what the two stores hold.
Fetched ==
    /\ \A s, t \in snap : s[1] = t[1] => s = t
    /\ \A s \in snap : mysql[s[1]] <= s[2] /\ s[2] <= redis[s[1]]

\* Queue q holds a write of version v of u, or of a newer one.
Holds(q, u, v) == \E k \in 1..Len(q) : q[k][1] = u /\ v <= q[k][2]

\* Version v of u, or a newer one, is in Redis or on its way there.
InPipe(u, v) == v <= redis[u] \/ Holds(rtLocal, u, v) \/ Holds(rtQ, u, v)

\* The order of a save: what is pushed is in the pipe before it is counted and
\* marked.
PushedFirst ==
    \A u \in Uids \ failed :
        /\ InPipe(u, saved[u])
        /\ fieldPc[u][1] \in {"count", "mark"} => InPipe(u, fieldPc[u][2])

\* Nobody carries u towards the DB thread.
Settled(u) ==
    /\ u \notin dirty /\ u \notin stolen
    /\ \A k \in 1..Len(dbQ) : u \notin dbQ[k]

\* How far the job at hand has brought what was saved of u.
JobDone(u) ==
    /\ dbPc \in {"uncount", "write"} => saved[u] <= redis[u] \/ Holds(rtLocal, u, saved[u])
    /\ dbPc \in {"reconnect", "fetch"} => saved[u] <= redis[u]
    /\ dbPc = "upsert" =>
          saved[u] <= mysql[u] \/ \E s \in snap : s[1] = u /\ saved[u] <= s[2]

Flow ==
    \A u \in Uids \ failed :
        Settled(u) => IF u \in job THEN JobDone(u) ELSE saved[u] <= mysql[u]

IInv ==
    /\ TypeOK /\ Phases /\ Emptied /\ PendingExact /\ Downstream
    /\ QueuesOrdered /\ Saving /\ Fetched /\ PushedFirst /\ Flow

-----------------------------------------------------------------------------
(* Arithmetic of the counter, the newest of a set of entries, and types.    *)

LEMMA DivisionRemainder ==
    ASSUME NEW a \in Int, NEW m \in Nat \ {0}
    PROVE  a \div m \in Int /\ a % m \in 0..(m - 1) /\ a = m * (a \div m) + (a % m)
OBVIOUS

LEMMA RemainderUnique ==
    ASSUME NEW m \in Nat \ {0}, NEW q \in Int, NEW r \in 0..(m - 1)
    PROVE  (m * q + r) % m = r
OBVIOUS

\* A sum may be reduced before it goes on.
LEMMA SumOfRemainder ==
    ASSUME NEW a \in Int, NEW b \in Int, NEW m \in Nat \ {0}
    PROVE  ((a % m) + b) % m = (a + b) % m
<1> DEFINE q == a \div m
           p == ((a % m) + b) \div m
           r == ((a % m) + b) % m
<1>1. q \in Int /\ a % m \in Int /\ a = m * q + (a % m)
  BY DivisionRemainder
<1>2. p \in Int /\ r \in 0..(m - 1) /\ (a % m) + b = m * p + r
  BY <1>1, DivisionRemainder
<1> HIDE DEF q, p, r
<1>3. m * q + m * p = m * (q + p) /\ q + p \in Int
  BY <1>1, <1>2
<1>4. a + b = m * (q + p) + r
  BY <1>1, <1>2, <1>3
<1>5. (m * (q + p) + r) % m = r
  BY <1>2, <1>3, RemainderUnique
<1> QED BY <1>4, <1>5 DEF r

\* A non-empty set of places in a sequence has a last one.
LEMMA LastPlace ==
    ASSUME NEW n \in Nat, NEW S \in SUBSET (1..n), S # {}
    PROVE  \E k \in S : \A l \in S : l <= k
<1> DEFINE R == OpToRel(<, Nat)
           T == { n - k : k \in S }
<1>1. IsWellFoundedOn(R, Nat)
  BY NatLessThanWellFounded
<1> HIDE DEF R
<1>2. T \subseteq Nat /\ T # {}
  <2>1. \A k \in S : k \in 1..n /\ n - k \in Nat
    OBVIOUS
  <2> QED BY <2>1
<1>3. PICK x \in T : \A y \in T : ~(<<y, x>> \in R)
  BY <1>1, <1>2, WFMin
<1>4. PICK k \in S : x = n - k
  OBVIOUS
<1>5. ASSUME NEW l \in S PROVE l <= k
  <2>1. n - l \in T /\ n - l \in Nat /\ x \in Nat
    BY <1>2
  <2>2. ~(n - l < x)
    BY <2>1, <1>3 DEF R, OpToRel
  <2> QED BY <2>1, <2>2, <1>4
<1> QED BY <1>5

\* The next step of a save.
LEMMA StepOfSave ==
    ASSUME TypeOK, NEW u \in Uids, NEW here \in {"enqueue", "count", "mark"},
           fieldPc[u][1] = here
    PROVE  /\ fieldPc[u] # Idle /\ fieldPc[u][2] \in Nat /\ fieldPc[u] = <<here, fieldPc[u][2]>>
           /\ \A next \in {"count", "mark"} :
                 [fieldPc EXCEPT ![u][1] = next] = [fieldPc EXCEPT ![u] = <<next, fieldPc[u][2]>>]
<1>1. fieldPc[u] \in {"enqueue", "count", "mark"} \X Nat
  BY DEF TypeOK, Versions, Idle
<1>2. PICK v \in Nat : fieldPc[u] = <<here, v>>
  BY <1>1
<1>3. ASSUME NEW next \in {"count", "mark"} 
      PROVE  [fieldPc EXCEPT ![u][1] = next] = [fieldPc EXCEPT ![u] = <<next, fieldPc[u][2]>>]
  <2>1. [fieldPc[u] EXCEPT ![1] = next] = <<next, v>> /\ fieldPc[u][2] = v
    BY <1>2
  <2> QED BY <2>1
<1> QED BY <1>2, <1>3 DEF Idle

\* The parts of the entries of the queues.
LEMMA EntryTypes ==
    ASSUME TypeOK
    PROVE  /\ \A k \in 1..Len(rtQ) : rtQ[k][1] \in Uids /\ rtQ[k][2] \in Nat
           /\ \A k \in 1..Len(rtLocal) : rtLocal[k][1] \in Uids /\ rtLocal[k][2] \in Nat
           /\ \A s \in snap : s[1] \in Uids /\ s[2] \in Nat
           /\ Len(rtQ) \in Nat /\ Len(rtLocal) \in Nat /\ Len(dbQ) \in Nat
<1>1. ASSUME NEW q \in Seq(Uids \X Nat), NEW k \in 1..Len(q)
      PROVE  q[k][1] \in Uids /\ q[k][2] \in Nat
  <2>1. q[k] \in Uids \X Nat
    BY ElementOfSeq
  <2> QED BY <2>1
<1>2. rtQ \in Seq(Uids \X Nat) /\ rtLocal \in Seq(Uids \X Nat) /\ dbQ \in Seq(SUBSET Uids)
  BY DEF TypeOK, Versions
<1>3. \A s \in snap : s[1] \in Uids /\ s[2] \in Nat
  BY DEF TypeOK, Versions
<1> QED BY <1>1, <1>2, <1>3, LenProperties

\* The saves whose push is not counted yet.
Counting == { u \in Uids : fieldPc[u][1] = "count" }

\* The writes being flushed that are still counted.
Flushing == IF dbPc = "uncount" THEN Len(rtLocal) ELSE 0

LEMMA PendingIs ==
    PendingExact <=> rtPending = (Len(rtQ) + Flushing - Cardinality(Counting)) % PendingMod
BY DEF PendingExact, Flushing, Counting

LEMMA CountingFinite == IsFiniteSet(Counting) /\ Cardinality(Counting) \in Nat
BY BoundsAssumption, FS_Subset, FS_CardinalityType DEF Counting

-----------------------------------------------------------------------------
LEMMA InitIInv == Init => IInv
<1> SUFFICES ASSUME Init PROVE IInv
  OBVIOUS
<1> USE DEF Init
<1>1. TypeOK
  <2>1. 0 \in 0..(PendingMod - 1)
    BY BoundsAssumption
  <2> QED BY <2>1 DEF TypeOK, Versions
<1>2. PendingExact
  <2>1. Counting = {}
    BY DEF Idle, Counting
  <2>2. Cardinality({}) = 0 /\ Len(rtQ) = 0 /\ Flushing = 0
    BY FS_EmptySet DEF Flushing
  <2>3. 0 % PendingMod = 0
    BY BoundsAssumption
  <2> QED BY <2>1, <2>2, <2>3, PendingIs
<1>3. Phases /\ Downstream /\ QueuesOrdered /\ Saving /\ Fetched
  BY DEF Phases, Downstream, QueuesOrdered, Sorted, Between, Ahead, Saving, Fetched
<1>4. PushedFirst /\ Flow /\ Emptied
  BY DEF PushedFirst, InPipe, Flow, Idle, Emptied
<1> QED BY <1>1, <1>2, <1>3, <1>4 DEF IInv

-----------------------------------------------------------------------------
(* The field threads. *)

\* A change of the state in memory of an idle player, marked or not.
LEMMA ChangeIInv ==
    ASSUME IInv, NEW u \in Uids, fieldPc[u] = Idle,
           version' = [version EXCEPT ![u] = @ + 1],
           \/ fieldPc' = fieldPc
           \/ fieldPc' = [fieldPc EXCEPT ![u] = <<"enqueue", version'[u]>>],
           dirty' \in {dirty, dirty \cup {u}},
           UNCHANGED <<saved, rt, timer, dbQ, dbthread, stores>>
    PROVE  IInv'
<1> USE DEF IInv, rt, timer, dbthread, stores
<1>1. /\ version[u] \in Nat /\ version'[u] = version[u] + 1
      /\ \A w \in Uids : version[w] \in Nat /\ version'[w] \in Nat /\ version[w] <= version'[w]
      /\ \A w \in Uids \ {u} : version'[w] = version[w]
  BY DEF TypeOK, Versions
<1>2. /\ fieldPc' \in [Uids -> {Idle} \cup ({"enqueue", "count", "mark"} \X Nat)]
      /\ fieldPc'[u] \in {Idle, <<"enqueue", version'[u]>>}
      /\ \A w \in Uids \ {u} : fieldPc'[w] = fieldPc[w]
  <2>1. <<"enqueue", version'[u]>> \in {"enqueue", "count", "mark"} \X Nat
    BY <1>1
  <2>2. fieldPc \in [Uids -> {Idle} \cup ({"enqueue", "count", "mark"} \X Nat)]
    BY DEF TypeOK, Versions
  <2> QED BY <2>1, <2>2
<1>3. fieldPc[u][1] = "idle" /\ fieldPc'[u][1] \in {"idle", "enqueue"}
  BY <1>2 DEF Idle
<1>4. TypeOK'
  BY <1>1, <1>2 DEF TypeOK, Versions
<1>5. PendingExact'
  <2>1. Counting' = Counting
    BY <1>2, <1>3 DEF Counting
  <2> QED BY <2>1, PendingIs DEF PendingExact, Counting
<1>6. Downstream' /\ QueuesOrdered'
  <2>1. \A w \in Uids : redis[w] \in Nat
    BY DEF TypeOK, Versions
  <2>2. Between(rtQ)' /\ Between(rtLocal)' /\ Downstream'
    BY <1>1, <2>1, EntryTypes DEF Between, Downstream, QueuesOrdered
  <2> QED BY <2>2 DEF QueuesOrdered, Sorted, Ahead
<1>7. Saving'
  BY <1>1, <1>2 DEF Saving, Idle, TypeOK, Versions
<1>8. PushedFirst'
  <2>1. ASSUME NEW w \in Uids, NEW v PROVE InPipe(w, v) => InPipe(w, v)'
    BY DEF InPipe, Holds
  <2> QED BY <1>2, <1>3, <2>1 DEF PushedFirst
<1>9. Phases' /\ Emptied' /\ Fetched' /\ Flow'
  BY DEF Phases, Emptied, Fetched, Flow, Settled, JobDone, Holds
<1> QED BY <1>4, <1>5, <1>6, <1>7, <1>8, <1>9

\* The push of the save of the newest version.
LEMMA RtPushIInv ==
    ASSUME IInv, NEW u \in Uids, RtPush(u)
    PROVE  IInv'
<1> USE DEF IInv, timer, dbthread, stores
<1>v. PICK v \in Nat : v = fieldPc[u][2]
  BY StepOfSave DEF RtPush
<1>0. /\ fieldPc[u] # Idle /\ v = version[u] /\ v \in Nat /\ fieldPc[u][1] = "enqueue"
      /\ fieldPc' = [fieldPc EXCEPT ![u] = <<"count", v>>]
      /\ rtQ' = Append(rtQ, <<u, v>>)
      /\ UNCHANGED <<version, saved, dirty, rtPending, timer, dbQ, dbthread, stores>>
  <2>1. fieldPc[u][1] = "enqueue" 
    BY DEF RtPush
  <2>2. fieldPc[u] # Idle /\ v \in Nat
    BY <1>v, <2>1, StepOfSave
  <2>3. [fieldPc EXCEPT ![u][1] = "count"] = [fieldPc EXCEPT ![u] = <<"count", v>>]
    BY <1>v, <2>1, StepOfSave
  <2>4. fieldPc[u] = <<"enqueue", v>>
    BY <1>v, <2>1, StepOfSave
  <2> QED BY <2>1, <2>2, <2>3, <2>4, <1>v DEF RtPush, Saving, hub
<1>1. /\ rtQ \in Seq(Uids \X Nat) /\ rtQ' \in Seq(Uids \X Nat)
      /\ Len(rtQ) \in Nat /\ Len(rtQ') = Len(rtQ) + 1
      /\ \A k \in 1..Len(rtQ) : rtQ'[k] = rtQ[k]
      /\ rtQ'[Len(rtQ) + 1] = <<u, v>>
  BY <1>0, AppendProperties DEF TypeOK, Versions
<1>2. /\ fieldPc'[u] = <<"count", v>>
      /\ \A w \in Uids \ {u} : fieldPc'[w] = fieldPc[w]
  BY <1>0 DEF TypeOK
<1>3. TypeOK'
  BY <1>0, <1>1 DEF TypeOK, Versions
<1>4. PendingExact'
  <2>1. Counting' = Counting \cup {u} /\ u \notin Counting
    BY <1>0, <1>2 DEF Counting
  <2>2. Cardinality(Counting') = Cardinality(Counting) + 1 /\ Cardinality(Counting) \in Nat
    BY <2>1, CountingFinite, FS_AddElement
  <2>3. Flushing' = Flushing /\ Flushing \in Int
    BY <1>0, EntryTypes DEF Flushing
  <2>6. Len(rtQ) \in Nat /\ Len(rtQ') = Len(rtQ) + 1
    BY <1>1
  <2>4. Len(rtQ') + Flushing' - Cardinality(Counting') = Len(rtQ) + Flushing - Cardinality(Counting)
    BY <2>6, <2>2, <2>3
  <2>5. rtPending' = (Len(rtQ') + Flushing' - Cardinality(Counting')) % PendingMod
    BY <1>0, <2>4, PendingIs
  <2> QED BY <2>5 DEF PendingExact, Flushing, Counting
<1>5. QueuesOrdered'
  <2> USE EntryTypes DEF QueuesOrdered
  <2>1. Sorted(rtLocal)' /\ Between(rtLocal)' /\ Downstream'
    BY <1>0 DEF Sorted, Between, Downstream
  <2>2. Between(rtQ)'
    <3>1. redis[u] <= v /\ v <= version[u]
      BY <1>0 DEF Downstream, TypeOK, Versions
    <3>2. ASSUME NEW k \in 1..Len(rtQ') PROVE k = Len(rtQ) + 1 \/ k \in 1..Len(rtQ)
      BY <1>1
    <3> QED BY <1>0, <1>1, <3>1, <3>2 DEF Between
  <2>3. Sorted(rtQ)'
    <3>1. ASSUME NEW k \in 1..Len(rtQ) PROVE rtQ[k][1] = u => rtQ[k][2] <= v
      BY <1>0 DEF Between
    <3>2. ASSUME NEW k \in 1..Len(rtQ') PROVE k = Len(rtQ) + 1 \/ k \in 1..Len(rtQ)
      BY <1>1
    <3>3. ASSUME NEW k \in 1..Len(rtQ'), NEW l \in 1..Len(rtQ'), k <= l,
                 rtQ'[k][1] = rtQ'[l][1]
          PROVE  rtQ'[k][2] <= rtQ'[l][2]
      <4>1. CASE l \in 1..Len(rtQ)
        <5>1. k \in 1..Len(rtQ)
          BY <1>1, <3>3, <4>1
        <5>2. rtQ'[k] = rtQ[k] /\ rtQ'[l] = rtQ[l]
          BY <1>1, <4>1, <5>1
        <5> QED BY <3>3, <4>1, <5>1, <5>2 DEF Sorted
      <4>2. CASE l = Len(rtQ) + 1
        BY <1>0, <1>1, <3>1, <3>2, <3>3, <4>2
      <4> QED BY <3>2, <4>1, <4>2
    <3> QED BY <3>3 DEF Sorted
  <2>4. Ahead'
    BY <1>0, <1>1 DEF Ahead, Between
  <2> QED BY <2>1, <2>2, <2>3, <2>4
<1>6. Downstream' /\ Saving'
  BY <1>0, <1>2 DEF Downstream, Saving, Idle
<1>7. PushedFirst'
  <2>1. ASSUME NEW w \in Uids, NEW x PROVE InPipe(w, x) => InPipe(w, x)'
    BY <1>0, <1>1 DEF InPipe, Holds
  <2>2. InPipe(u, v)'
    <3>1. Len(rtQ) + 1 \in 1..Len(rtQ') /\ v <= v
      BY <1>0, <1>1
    <3>2. Holds(rtQ', u, v)
      BY <1>1, <3>1 DEF Holds
    <3> QED BY <3>2 DEF InPipe, Holds
  <2> QED BY <1>0, <1>2, <2>1, <2>2 DEF PushedFirst
<1>8. Phases' /\ Emptied' /\ Fetched' /\ Flow'
  BY <1>0 DEF Phases, Emptied, Fetched, Flow, Settled, JobDone, Holds
<1> QED BY <1>3, <1>4, <1>5, <1>6, <1>7, <1>8

LEMMA RtCountIInv ==
    ASSUME IInv, NEW u \in Uids, RtCount(u)
    PROVE  IInv'
<1> USE DEF IInv, timer, dbthread, stores
<1>v. PICK v \in Nat : v = fieldPc[u][2]
  BY StepOfSave DEF RtCount
<1>0. /\ fieldPc[u] # Idle /\ v = version[u] /\ v \in Nat /\ fieldPc[u][1] = "count"
      /\ fieldPc' = [fieldPc EXCEPT ![u] = <<"mark", v>>]
      /\ rtPending' = (rtPending + 1) % PendingMod
      /\ UNCHANGED <<version, saved, dirty, rtQ, timer, dbQ, dbthread, stores>>
  <2>1. fieldPc[u][1] = "count" 
    BY DEF RtCount
  <2>2. fieldPc[u] # Idle /\ v \in Nat
    BY <1>v, <2>1, StepOfSave
  <2>3. [fieldPc EXCEPT ![u][1] = "mark"] = [fieldPc EXCEPT ![u] = <<"mark", v>>]
    BY <1>v, <2>1, StepOfSave
  <2>4. fieldPc[u] = <<"count", v>>
    BY <1>v, <2>1, StepOfSave
  <2> QED BY <2>1, <2>2, <2>3, <2>4, <1>v DEF RtCount, Saving, hub
<1>1. /\ fieldPc'[u] = <<"mark", v>>
      /\ \A w \in Uids \ {u} : fieldPc'[w] = fieldPc[w]
  BY <1>0 DEF TypeOK
<1>2. rtPending \in Int /\ rtPending' \in 0..(PendingMod - 1) /\ PendingMod \in Nat \ {0}
  BY <1>0, BoundsAssumption DEF TypeOK
<1>3. TypeOK'
  BY <1>0, <1>2 DEF TypeOK, Versions
<1>4. PendingExact'
  <2> DEFINE n == Len(rtQ) + Flushing - Cardinality(Counting)
  <2>1. Counting' = Counting \ {u} /\ u \in Counting
    BY <1>0, <1>1 DEF Counting
  <2>2. Cardinality(Counting') = Cardinality(Counting) - 1 /\ Cardinality(Counting) \in Nat
    BY <2>1, CountingFinite, FS_RemoveElement
  <2>3. Flushing' = Flushing /\ Flushing \in Int /\ Len(rtQ) \in Nat
    BY <1>0, EntryTypes DEF Flushing
  <2>4. Len(rtQ') + Flushing' - Cardinality(Counting') = n + 1 /\ n \in Int
    BY <1>0, <2>2, <2>3
  <2>5. rtPending = n % PendingMod
    BY PendingIs
  <2> HIDE DEF n
  <2>6. rtPending' = (n + 1) % PendingMod
    BY <1>0, <1>2, <2>4, <2>5, SumOfRemainder, 1 \in Int
  <2> QED BY <2>4, <2>6 DEF PendingExact, Flushing, Counting
<1>5. Downstream' /\ QueuesOrdered' /\ Phases' /\ Emptied' /\ Fetched' /\ Flow'
  BY <1>0 DEF Downstream, QueuesOrdered, Sorted, Between, Ahead, Phases, Emptied, Fetched, Flow,
              Settled, JobDone, Holds
<1>6. Saving' /\ PushedFirst'
  BY <1>0, <1>1 DEF Saving, PushedFirst, InPipe, Holds, Idle
<1> QED BY <1>3, <1>4, <1>5, <1>6

\* The mark: what was saved is in the pipe, and the uid is carried.
LEMMA MarkIInv ==
    ASSUME IInv, NEW u \in Uids, Mark(u)
    PROVE  IInv'
<1> USE DEF IInv, timer, rt, dbthread, stores
<1>v. PICK v \in Nat : v = fieldPc[u][2]
  BY StepOfSave DEF Mark
<1>0. /\ fieldPc[u] # Idle /\ v = version[u] /\ v \in Nat /\ fieldPc[u][1] = "mark"
      /\ fieldPc' = [fieldPc EXCEPT ![u] = Idle]
      /\ saved' = [saved EXCEPT ![u] = v]
      /\ dirty' = dirty \cup {u}
      /\ UNCHANGED <<version, rt, timer, dbQ, dbthread, stores>>
  BY <1>v, StepOfSave DEF Mark, Saving
<1>1. /\ fieldPc'[u] = Idle /\ Idle[1] = "idle" /\ saved'[u] = v
      /\ \A w \in Uids \ {u} : fieldPc'[w] = fieldPc[w] /\ saved'[w] = saved[w]
  BY <1>0 DEF TypeOK, Idle
<1>2. TypeOK'
  BY <1>0 DEF TypeOK, Versions
<1>3. PendingExact'
  <2>1. Counting' = Counting
    BY <1>0, <1>1 DEF Counting
  <2> QED BY <1>0, <2>1, PendingIs DEF PendingExact, Counting
<1>4. Downstream' /\ QueuesOrdered' /\ Phases' /\ Emptied' /\ Fetched'
  BY <1>0 DEF Downstream, QueuesOrdered, Sorted, Between, Ahead, Phases, Emptied, Fetched
<1>5. Saving' /\ PushedFirst'
  <2>1. ASSUME NEW w \in Uids, NEW x PROVE InPipe(w, x)' <=> InPipe(w, x)
    BY <1>0 DEF InPipe, Holds
  <2>2. u \notin failed => InPipe(u, v)
    BY <1>v, <1>0 DEF PushedFirst
  <2>3. PushedFirst'
    BY <1>0, <1>1, <2>1, <2>2 DEF PushedFirst
  <2>4. Saving'
    BY <1>0, <1>1 DEF Saving, TypeOK, Versions
  <2> QED BY <2>3, <2>4
<1>6. Flow'
  BY <1>0, <1>1 DEF Flow, Settled, JobDone, Holds
<1> QED BY <1>2, <1>3, <1>4, <1>5, <1>6

-----------------------------------------------------------------------------
(* The timer. *)

\* A step that leaves the queue of real-time writes, the saves, the stores and
\* the DB thread alone keeps everything but the types and the flow.
LEMMA TimerFrame ==
    ASSUME IInv, UNCHANGED <<field, rt, dbthread, stores>>
    PROVE  /\ Phases' /\ PendingExact' /\ Downstream' /\ QueuesOrdered' /\ Saving' /\ Fetched'
           /\ PushedFirst'
           /\ \A u : JobDone(u)' = JobDone(u)
<1> USE DEF IInv, field, rt, dbthread, stores
<1>1. PendingExact'
  BY DEF PendingExact
<1>2. QueuesOrdered'
  BY DEF QueuesOrdered, Sorted, Between, Ahead
<1>3. Phases' /\ Downstream' /\ Saving' /\ Fetched'
  BY DEF Phases, Downstream, Saving, Fetched
<1>4. PushedFirst' /\ \A u : JobDone(u)' = JobDone(u)
  BY DEF PushedFirst, InPipe, Holds, JobDone
<1> QED BY <1>1, <1>2, <1>3, <1>4

LEMMA StealShardIInv ==
    ASSUME IInv, NEW u \in Uids, StealShard(u)
    PROVE  IInv'
<1>0. /\ dirty' = dirty \ {u} /\ stolen' = stolen \cup (dirty \cap {u})
      /\ unlooked' = unlooked \ {u} /\ timerPc # "idle"
      /\ UNCHANGED <<started, field, rt, timerPc, dbQ, dbthread, stores>>
  BY DEF StealShard
<1>1. TypeOK'
  BY <1>0 DEF IInv, TypeOK, field, rt, dbthread, stores
<1>2. Flow'
  <2>1. \A w : Settled(w)' => Settled(w)
    BY <1>0 DEF Settled
  <2> QED BY <1>0, <2>1, TimerFrame DEF IInv, Flow, field, dbthread, stores
<1> QED BY <1>0, <1>1, <1>2, TimerFrame DEF IInv, Emptied

\* The push of a job: queued, or refused by a full queue.
LEMMA PushIInv ==
    ASSUME IInv, PushEmptyJob \/ \E batch \in SUBSET stolen : PushBatch(batch)
    PROVE  IInv'
<1>1. PICK batch \in SUBSET stolen :
         /\ stolen' = stolen \ batch
         /\ \/ dbQ' = Append(dbQ, batch) /\ dirty' = dirty
            \/ dbQ' = dbQ /\ dirty' = dirty \cup batch
         /\ timerPc' \in {"idle", "pushing"} /\ Emptied'
         /\ UNCHANGED <<field, rt, started, unlooked, dbthread, stores>>
  <2>1. CASE PushEmptyJob
    <3>1. {} \in SUBSET stolen /\ stolen \ {} = stolen /\ dirty \cup {} = dirty
      OBVIOUS
    <3> QED BY <2>1, <3>1 DEF PushEmptyJob, Emptied, timer, hub
  <2>2. CASE \E batch \in SUBSET stolen : PushBatch(batch)
    <3>1. PICK b \in SUBSET stolen : PushBatch(b)
      BY <2>2
    <3> QED BY <3>1 DEF PushBatch, Emptied
  <2> QED BY <2>1, <2>2
<1>2. dbQ \in Seq(SUBSET Uids) /\ batch \in SUBSET Uids
  BY DEF IInv, TypeOK
<1>3. TypeOK'
  <2>1. dbQ' \in Seq(SUBSET Uids)
    BY <1>1, <1>2
  <2> QED BY <1>1, <1>2, <2>1 DEF IInv, TypeOK, field, rt, dbthread, stores
<1>4. Flow'
  <2>1. ASSUME NEW w, Settled(w)' PROVE Settled(w)
    <3>1. CASE dbQ' = Append(dbQ, batch) /\ dirty' = dirty
      <4>1. /\ Len(dbQ') = Len(dbQ) + 1 /\ Len(dbQ) \in Nat /\ dbQ'[Len(dbQ) + 1] = batch
            /\ \A k \in 1..Len(dbQ) : dbQ'[k] = dbQ[k]
        BY <1>2, <3>1, AppendProperties
      <4>2. w \notin batch
        BY <2>1, <4>1 DEF Settled
      <4> QED BY <1>1, <2>1, <3>1, <4>1, <4>2 DEF Settled
    <3>2. CASE dbQ' = dbQ /\ dirty' = dirty \cup batch
      BY <1>1, <2>1, <3>2 DEF Settled
    <3> QED BY <1>1, <3>1, <3>2
  <2> QED BY <1>1, <2>1, TimerFrame DEF IInv, Flow, field, dbthread, stores
<1> QED BY <1>1, <1>3, <1>4, TimerFrame DEF IInv

\* The other steps of the timer, and stop, move nothing.
LEMMA QuietIInv ==
    ASSUME IInv, TimerFires \/ StealDone \/ Stop
    PROVE  IInv'
<1>0. /\ stolen' = stolen /\ unlooked' \subseteq Uids /\ started' \in BOOLEAN
      /\ timerPc' = "idle" => timerPc = "idle"
      /\ timerPc' \in {"idle", "stealing", "pushing"}
      /\ UNCHANGED <<field, dirty, rt, dbQ, dbthread, stores>>
  BY DEF TimerFires, StealDone, Stop, hub, timer, IInv, TypeOK, Emptied
<1>1. TypeOK'
  BY <1>0 DEF IInv, TypeOK, field, rt, dbthread, stores
<1>2. Emptied' /\ Flow'
  BY <1>0, TimerFrame DEF IInv, Emptied, Flow, Settled, field, dbthread, stores
<1> QED BY <1>0, <1>1, <1>2, TimerFrame DEF IInv

-----------------------------------------------------------------------------
(* The DB thread. *)

\* Taking a job: what it carried is carried by the job, still to be done.
LEMMA TakeJobIInv ==
    ASSUME IInv, TakeJob
    PROVE  IInv'
<1> USE DEF IInv, field, hub, rt, timer, stores
<1>0. /\ dbPc = "idle" /\ dbPc' = "connect" /\ job' = Head(dbQ) /\ dbQ' = Tail(dbQ)
      /\ job = {} /\ rtLocal = <<>> /\ snap = {} /\ dbQ # <<>>
      /\ UNCHANGED <<field, hub, rt, timer, rtLocal, snap, connected, failed, stores>>
  BY DEF TakeJob, Phases
<1>1. dbQ \in Seq(SUBSET Uids) /\ Len(dbQ) \in Nat \ {0}
  BY <1>0, EmptySeq DEF TypeOK
<1>2. /\ dbQ' \in Seq(SUBSET Uids) /\ job' = dbQ[1] /\ job' \subseteq Uids
      /\ Len(dbQ') = Len(dbQ) - 1 /\ \A k \in 1..Len(dbQ') : dbQ'[k] = dbQ[k + 1]
  <2>1. Head(dbQ) = dbQ[1] /\ dbQ[1] \in SUBSET Uids
    BY <1>1, ElementOfSeq
  <2> QED BY <1>0, <1>1, <2>1, HeadTailProperties
<1>3. TypeOK'
  BY <1>0, <1>2 DEF TypeOK
<1>4. PendingExact'
  BY <1>0 DEF PendingExact
<1>5. Phases' /\ Emptied' /\ Downstream' /\ QueuesOrdered' /\ Saving' /\ Fetched' /\ PushedFirst'
  BY <1>0 DEF Phases, Emptied, Downstream, QueuesOrdered, Sorted, Between, Ahead, Saving, Fetched,
              PushedFirst, InPipe, Holds
<1>6. Flow'
  <2>1. ASSUME NEW w \in Uids, w \notin failed, Settled(w)', w \notin job' PROVE Settled(w)
    <3>1. ASSUME NEW k \in 1..Len(dbQ) PROVE w \notin dbQ[k]
      <4>1. CASE k = 1
        BY <1>2, <2>1, <4>1
      <4>2. CASE k # 1
        <5>1. k - 1 \in 1..Len(dbQ') /\ dbQ'[k - 1] = dbQ[(k - 1) + 1] /\ (k - 1) + 1 = k
          BY <1>1, <1>2, <4>2
        <5> QED BY <2>1, <5>1 DEF Settled
      <4> QED BY <4>1, <4>2
    <3> QED BY <1>0, <2>1, <3>1 DEF Settled
  <2>2. \A w \in Uids \ failed : Settled(w)' /\ w \notin job' => saved'[w] <= mysql'[w]
    BY <1>0, <2>1 DEF Flow
  <2> QED BY <1>0, <2>2 DEF Flow, JobDone
<1> QED BY <1>3, <1>4, <1>5, <1>6

\* Connecting loses the job or nothing.
LEMMA ConnectIInv ==
    ASSUME IInv, ConnectFirst \/ ConnectAgain
    PROVE  IInv'
<1> USE DEF IInv, field, hub, rt, timer, stores
<1>0. /\ dbPc \in {"connect", "reconnect"} /\ rtLocal = <<>> /\ snap = {}
      /\ \/ dbPc = "connect" /\ dbPc' = "swap" /\ job' = job /\ failed' = failed
         \/ dbPc = "reconnect" /\ dbPc' = "fetch" /\ job' = job /\ failed' = failed
         \/ dbPc' = "idle" /\ job' = {} /\ failed' = failed \cup job
      /\ snap' = snap /\ connected' \in BOOLEAN
      /\ UNCHANGED <<field, hub, rt, timer, dbQ, rtLocal, stores>>
  BY DEF ConnectFirst, ConnectAgain, Connect, EndJob, Fail, Phases
<1>1. TypeOK'
  BY <1>0 DEF TypeOK
<1>2. PendingExact'
  BY <1>0 DEF PendingExact
<1>3. Phases' /\ Emptied' /\ Downstream' /\ QueuesOrdered' /\ Saving' /\ Fetched'
  BY <1>0 DEF Phases, Emptied, Downstream, QueuesOrdered, Sorted, Between, Ahead, Saving, Fetched
<1>4. PushedFirst'
  BY <1>0 DEF PushedFirst, InPipe, Holds
<1>5. Flow'
  <2>1. \A w : Settled(w)' <=> Settled(w)
    BY <1>0 DEF Settled
  <2> QED BY <1>0, <2>1 DEF Flow, JobDone
<1> QED BY <1>1, <1>2, <1>3, <1>4, <1>5

\* The flush takes the whole queue: what was in the pipe is in Redis or in
\* the batch.
LEMMA FlushSwapIInv ==
    ASSUME IInv, FlushSwap
    PROVE  IInv'
<1> USE DEF IInv, field, hub, timer, stores
<1>0. /\ dbPc = "swap" /\ rtLocal = <<>> /\ snap = {} /\ rtLocal' = rtQ /\ rtQ' = <<>>
      /\ dbPc' \in {"uncount", "reconnect"}
      /\ dbPc' = "reconnect" <=> rtQ = <<>>
      /\ UNCHANGED <<field, hub, rtPending, timer, dbQ, job, snap, connected, failed, stores>>
  BY DEF FlushSwap, Phases
<1>1. /\ Len(rtLocal) = 0 /\ Len(rtQ') = 0 /\ Len(rtQ) \in Nat
      /\ rtQ = <<>> => Len(rtQ) = 0
  BY <1>0, EntryTypes
<1>2. TypeOK'
  BY <1>0, EmptySeq DEF TypeOK
<1>3. PendingExact'
  <2>1. Counting' = Counting /\ Cardinality(Counting) \in Nat
    BY <1>0, CountingFinite DEF Counting
  <2>2. Len(rtQ') + Flushing' - Cardinality(Counting') = Len(rtQ) + Flushing - Cardinality(Counting)
    BY <1>0, <1>1, <2>1 DEF Flushing
  <2>3. rtPending' = (Len(rtQ') + Flushing' - Cardinality(Counting')) % PendingMod
    BY <1>0, <2>2, PendingIs
  <2> QED BY <2>3 DEF PendingExact, Flushing, Counting
<1>4. QueuesOrdered'
  BY <1>0, <1>1 DEF QueuesOrdered, Sorted, Between, Ahead
<1>5. Phases' /\ Emptied' /\ Downstream' /\ Saving' /\ Fetched'
  BY <1>0 DEF Phases, Emptied, Downstream, Saving, Fetched
<1>6. ASSUME NEW w \in Uids, NEW x, InPipe(w, x)
      PROVE  InPipe(w, x)' /\ (x <= redis[w] \/ Holds(rtLocal', w, x))
  BY <1>0, <1>1, <1>6 DEF InPipe, Holds
<1>7. PushedFirst'
  BY <1>0, <1>6 DEF PushedFirst
<1>8. Flow'
  <2>1. \A w : Settled(w)' <=> Settled(w)
    BY <1>0 DEF Settled
  <2>2. ASSUME NEW w \in Uids \ failed PROVE JobDone(w)'
    <3>1. saved[w] <= redis[w] \/ Holds(rtLocal', w, saved[w])
      BY <1>6 DEF PushedFirst
    <3> QED BY <1>0, <1>1, <3>1 DEF JobDone, Holds
  <2> QED BY <1>0, <2>1, <2>2 DEF Flow
<1> QED BY <1>2, <1>3, <1>4, <1>5, <1>7, <1>8

LEMMA FlushUncountIInv ==
    ASSUME IInv, FlushUncount
    PROVE  IInv'
<1> USE DEF IInv, field, hub, timer, stores
<1>0. /\ dbPc = "uncount" /\ dbPc' = "write" /\ snap = {}
      /\ rtPending' = (rtPending - Len(rtLocal)) % PendingMod
      /\ UNCHANGED <<field, hub, rtQ, timer, dbQ, job, rtLocal, snap, connected, failed, stores>>
  BY DEF FlushUncount, Phases
<1>1. /\ Len(rtLocal) \in Nat /\ Len(rtQ) \in Nat /\ PendingMod \in Nat \ {0} /\ rtPending \in Int
      /\ rtPending' \in 0..(PendingMod - 1)
  BY <1>0, EntryTypes, BoundsAssumption DEF TypeOK
<1>2. TypeOK'
  BY <1>0, <1>1 DEF TypeOK
<1>3. PendingExact'
  <2> DEFINE n == Len(rtQ) + Flushing - Cardinality(Counting)
             l == -Len(rtLocal)
  <2>1. Counting' = Counting /\ Cardinality(Counting) \in Nat
    BY <1>0, CountingFinite DEF Counting
  <2>2. Flushing = Len(rtLocal) /\ Flushing' = 0
    BY <1>0 DEF Flushing
  <2>3. /\ n \in Int /\ l \in Int /\ rtPending - Len(rtLocal) = rtPending + l
        /\ Len(rtQ') + Flushing' - Cardinality(Counting') = n + l
    BY <1>0, <1>1, <2>1, <2>2
  <2>4. rtPending = n % PendingMod
    BY PendingIs
  <2> HIDE DEF n, l
  <2>5. rtPending' = (n + l) % PendingMod
    <3>1. ((n % PendingMod) + l) % PendingMod = (n + l) % PendingMod
      BY <1>1, <2>3, SumOfRemainder
    <3> QED BY <1>0, <2>3, <2>4, <3>1
  <2> QED BY <2>3, <2>5 DEF PendingExact, Flushing, Counting
<1>4. /\ Phases' /\ Emptied' /\ Downstream' /\ QueuesOrdered' /\ Saving' /\ Fetched'
      /\ PushedFirst' /\ Flow'
  BY <1>0 DEF Phases, Emptied, Downstream, QueuesOrdered, Sorted, Between, Ahead, Saving, Fetched,
              PushedFirst, InPipe, Holds, Flow, Settled, JobDone
<1> QED BY <1>2, <1>3, <1>4

\* What a prefix of the batch leaves in Redis: for each player the record it
\* had, if the prefix has no write of it, and its last write there otherwise.
LEMMA WrittenIs ==
    ASSUME TypeOK, NEW n \in 0..Len(rtLocal), NEW u \in Uids
    PROVE  LET mine == { k \in 1..n : rtLocal[k][1] = u }
           IN  /\ mine = {} => Written(n)[u] = redis[u]
               /\ mine # {} => \E k \in mine : /\ \A l \in mine : l <= k
                                               /\ Written(n)[u] = rtLocal[k][2]
<1> DEFINE mine == { k \in 1..n : rtLocal[k][1] = u }
<1>1. Written(n)[u] = IF mine = {} THEN redis[u]
                      ELSE rtLocal[CHOOSE k \in mine : \A l \in mine : l <= k][2]
  BY DEF Written
<1>2. n \in Nat /\ mine \in SUBSET (1..n)
  BY EntryTypes
<1>3. mine # {} => \E k \in mine : \A l \in mine : l <= k
  BY <1>2, LastPlace
<1> HIDE DEF mine
<1>4. ASSUME mine # {}
      PROVE  \E k \in mine : (\A l \in mine : l <= k) /\ Written(n)[u] = rtLocal[k][2]
  <2> DEFINE k == CHOOSE k \in mine : \A l \in mine : l <= k
  <2>1. k \in mine /\ \A l \in mine : l <= k
    BY <1>3, <1>4
  <2>2. Written(n)[u] = rtLocal[k][2]
    BY <1>1, <1>4
  <2> QED BY <2>1, <2>2
<1> QED BY <1>1, <1>4 DEF mine

\* The order of the queues makes writing any prefix of the batch a step forward,
\* and writing all of it brings Redis up to every write in it.
LEMMA WrittenForward ==
    ASSUME IInv, NEW n \in 0..Len(rtLocal), NEW u \in Uids
    PROVE  /\ Written(n)[u] \in Nat /\ redis[u] <= Written(n)[u] /\ Written(n)[u] <= version[u]
           /\ \A l \in 1..Len(rtQ) : rtQ[l][1] = u => Written(n)[u] <= rtQ[l][2]
           /\ n = Len(rtLocal) =>
                \A l \in 1..Len(rtLocal) : rtLocal[l][1] = u => rtLocal[l][2] <= Written(n)[u]
           /\ (\A l \in 1..Len(rtLocal) : rtLocal[l][1] # u) => Written(n)[u] = redis[u]
<1> USE DEF IInv, QueuesOrdered
<1> DEFINE mine == { k \in 1..n : rtLocal[k][1] = u }
<1>1. redis[u] \in Nat /\ version[u] \in Nat /\ Len(rtLocal) \in Nat /\ Len(rtQ) \in Nat
  BY EntryTypes DEF TypeOK, Versions
<1>2. CASE mine = {}
  <2>1. Written(n)[u] = redis[u]
    BY <1>2, WrittenIs
  <2>2. redis[u] <= version[u]
    BY DEF Downstream
  <2>3. \A l \in 1..Len(rtQ) : rtQ[l][1] = u => redis[u] <= rtQ[l][2]
    BY DEF Between
  <2>4. n = Len(rtLocal) => \A l \in 1..Len(rtLocal) : rtLocal[l][1] # u
    BY <1>2
  <2> QED BY <1>1, <2>1, <2>2, <2>3, <2>4
<1>3. CASE mine # {}
  <2>1. PICK k \in mine : (\A l \in mine : l <= k) /\ Written(n)[u] = rtLocal[k][2]
    BY <1>3, WrittenIs
  <2>2. k \in 1..Len(rtLocal) /\ rtLocal[k][1] = u /\ rtLocal[k][2] \in Nat
    BY <1>1, EntryTypes
  <2>3. redis[u] <= rtLocal[k][2] /\ rtLocal[k][2] <= version[u]
    BY <2>2 DEF Between
  <2>4. \A l \in 1..Len(rtQ) : rtQ[l][1] = u => rtLocal[k][2] <= rtQ[l][2]
    BY <2>2 DEF Ahead
  <2>5. ASSUME n = Len(rtLocal), NEW l \in 1..Len(rtLocal), rtLocal[l][1] = u
        PROVE  rtLocal[l][2] <= rtLocal[k][2]
    <3>1. l \in mine /\ l <= k
      BY <2>1, <2>5
    <3> QED BY <2>2, <2>5, <3>1 DEF Sorted
  <2> QED BY <2>1, <2>2, <2>3, <2>4, <2>5
<1> QED BY <1>2, <1>3

LEMMA FlushWriteIInv ==
    ASSUME IInv, FlushWrite
    PROVE  IInv'
<1> USE DEF IInv, field, hub, rt, timer
<1> DEFINE carried == { rtLocal[k][1] : k \in 1..Len(rtLocal) }
<1>0. /\ dbPc = "write" /\ dbPc' = "reconnect" /\ snap = {} /\ rtLocal' = <<>>
      /\ connected' \in BOOLEAN
      /\ UNCHANGED <<field, hub, rt, timer, dbQ, job, snap, mysql>>
  BY DEF FlushWrite, Fail, Phases, TypeOK
<1>1. PICK n \in 0..Len(rtLocal) :
        /\ redis' = Written(n)
        /\ \/ n = Len(rtLocal) /\ failed' = failed
           \/ failed' = failed \cup carried
  <2>1. Len(rtLocal) \in 0..Len(rtLocal)
    BY EntryTypes
  <2> QED BY <2>1 DEF FlushWrite, Fail
<1> HIDE DEF carried
<1>2. ASSUME NEW u \in Uids
      PROVE  /\ redis'[u] \in Nat /\ redis[u] <= redis'[u] /\ redis'[u] <= version[u]
             /\ redis[u] \in Nat /\ mysql[u] \in Nat
             /\ \A l \in 1..Len(rtQ) : rtQ[l][1] = u => redis'[u] <= rtQ[l][2]
             /\ u \notin failed' =>
                  \A l \in 1..Len(rtLocal) : rtLocal[l][1] = u => rtLocal[l][2] <= redis'[u]
  <2>1. redis[u] \in Nat /\ mysql[u] \in Nat
    BY DEF TypeOK, Versions
  <2>2. CASE n = Len(rtLocal)
    BY <1>1, <2>1, <2>2, WrittenForward
  <2>3. CASE failed' = failed \cup carried
    <3>1. u \notin failed' => \A l \in 1..Len(rtLocal) : rtLocal[l][1] # u
      BY <2>3 DEF carried
    <3> QED BY <1>1, <2>1, <3>1, WrittenForward
  <2> QED BY <1>1, <2>2, <2>3
<1>3. carried \subseteq Uids /\ failed \subseteq failed' /\ failed' \subseteq Uids
  <2>1. carried \subseteq Uids
    BY EntryTypes DEF carried
  <2> QED BY <1>1, <2>1 DEF TypeOK
<1>4. TypeOK'
  <2>1. redis' \in [Uids -> Nat]
    BY <1>1, <1>2 DEF Written
  <2> QED BY <1>0, <1>3, <2>1 DEF TypeOK, Versions
<1>5. PendingExact'
  BY <1>0 DEF PendingExact
<1>6. QueuesOrdered'
  <2>1. Between(rtQ)'
    BY <1>0, <1>2, EntryTypes DEF QueuesOrdered, Between
  <2>2. Len(rtLocal') = 0
    BY <1>0
  <2> QED BY <1>0, <2>1, <2>2 DEF QueuesOrdered, Sorted, Between, Ahead
<1>7. Downstream' /\ Saving' /\ Phases' /\ Emptied' /\ Fetched'
  BY <1>0, <1>2 DEF Downstream, Saving, Phases, Emptied, Fetched
<1>8. PushedFirst'
  <2>1. ASSUME NEW u \in Uids \ failed', NEW x \in Nat, InPipe(u, x) PROVE InPipe(u, x)'
    <3>1. CASE x <= redis[u] \/ Holds(rtQ, u, x)
      BY <1>0, <1>2, <3>1 DEF InPipe, Holds
    <3>2. CASE Holds(rtLocal, u, x)
      <4>1. PICK k \in 1..Len(rtLocal) : rtLocal[k][1] = u /\ x <= rtLocal[k][2]
        BY <3>2 DEF Holds
      <4>2. rtLocal[k][2] <= redis'[u] /\ rtLocal[k][2] \in Nat
        BY <1>2, <4>1, EntryTypes
      <4> QED BY <1>2, <4>1, <4>2 DEF InPipe
    <3> QED BY <2>1, <3>1, <3>2 DEF InPipe
  <2>2. ASSUME NEW u \in Uids, fieldPc[u][1] \in {"count", "mark"} PROVE fieldPc[u][2] \in Nat
    BY <2>2, StepOfSave
  <2>3. \A u \in Uids : saved[u] \in Nat
    BY DEF TypeOK, Versions
  <2> QED BY <1>0, <1>3, <2>1, <2>2, <2>3 DEF PushedFirst
<1>9. Flow'
  <2>1. \A u : Settled(u)' <=> Settled(u)
    BY <1>0 DEF Settled
  <2>2. ASSUME NEW u \in Uids \ failed', JobDone(u) PROVE JobDone(u)'
    <3>1. saved[u] \in Nat /\ (saved[u] <= redis[u] \/ Holds(rtLocal, u, saved[u]))
      BY <1>0, <2>2 DEF JobDone, TypeOK, Versions
    <3>2. saved[u] <= redis'[u]
      BY <1>2, <3>1, EntryTypes DEF Holds
    <3> QED BY <1>0, <3>2 DEF JobDone
  <2> QED BY <1>0, <1>3, <2>1, <2>2 DEF Flow
<1> QED BY <1>4, <1>5, <1>6, <1>7, <1>8, <1>9

LEMMA FetchIInv ==
    ASSUME IInv, Fetch
    PROVE  IInv'
<1> USE DEF IInv, field, hub, rt, timer, stores
<1> DEFINE found == { <<u, redis[u]>> : u \in { v \in job : redis[v] # 0 } }
<1>0. /\ dbPc = "fetch" /\ rtLocal = <<>> /\ connected' \in BOOLEAN
      /\ UNCHANGED <<field, hub, rt, timer, dbQ, rtLocal, stores>>
  BY DEF Fetch, Fail, Phases, TypeOK
<1>1. \/ snap' = found /\ snap' # {} /\ dbPc' = "upsert" /\ job' = job /\ failed' = failed
      \/ snap' = found /\ snap' = {} /\ dbPc' = "idle" /\ job' = {} /\ failed' = failed
      \/ snap' = {} /\ dbPc' = "idle" /\ job' = {} /\ failed' = failed \cup job
  BY DEF Fetch, Fail, EndJob
<1>2. /\ \A s \in found : s[1] \in job /\ s[2] = redis[s[1]] /\ s = <<s[1], s[2]>>
      /\ \A u \in job : redis[u] # 0 => <<u, redis[u]>> \in found
  OBVIOUS
<1>3. job \subseteq Uids /\ \A u \in Uids : redis[u] \in Nat /\ mysql[u] \in Nat /\ saved[u] \in Nat
  BY DEF TypeOK, Versions
<1>4. found \subseteq Uids \X Nat
  BY <1>3
<1> HIDE DEF found
<1>5. TypeOK'
  BY <1>0, <1>1, <1>4 DEF TypeOK, Versions
<1>6. PendingExact'
  BY <1>0, <1>1 DEF PendingExact
<1>7. Downstream' /\ Saving' /\ Phases' /\ Emptied' /\ QueuesOrdered'
  BY <1>0, <1>1 DEF Downstream, Saving, Phases, Emptied, QueuesOrdered, Sorted, Between, Ahead
<1>8. Fetched'
  <2>1. \A s \in snap' : s \in found
    BY <1>1
  <2>2. \A s, t \in found : s[1] = t[1] => s = t
    BY <1>2
  <2>3. \A s \in found : mysql[s[1]] <= s[2] /\ s[2] <= redis[s[1]]
    BY <1>2, <1>3 DEF Downstream
  <2> QED BY <1>0, <2>1, <2>2, <2>3 DEF Fetched
<1>9. PushedFirst'
  BY <1>0, <1>1 DEF PushedFirst, InPipe, Holds
<1>10. Flow'
  <2>1. \A u : Settled(u)' <=> Settled(u)
    BY <1>0 DEF Settled
  <2>2. ASSUME NEW u \in Uids \ failed', Settled(u), u \in job
        PROVE  /\ saved[u] <= redis[u]
               /\ saved[u] <= mysql[u] \/ \E s \in found : s[1] = u /\ saved[u] <= s[2]
    <3>1. saved[u] <= redis[u]
      BY <1>0, <1>1, <2>2 DEF Flow, JobDone
    <3>2. redis[u] = 0 => saved[u] <= mysql[u]
      BY <1>3, <3>1
    <3>3. CASE redis[u] # 0
      BY <1>2, <2>2, <3>1, <3>3
    <3> QED BY <3>1, <3>2, <3>3
  <2> QED BY <1>0, <1>1, <2>1, <2>2 DEF Flow, JobDone
<1> QED BY <1>5, <1>6, <1>7, <1>8, <1>9, <1>10

LEMMA UpsertIInv ==
    ASSUME IInv, Upsert
    PROVE  /\ IInv'
           /\ \A u \in Uids : mysql[u] <= mysql'[u]
<1> USE DEF IInv, field, hub, rt, timer, stores
<1>0. /\ dbPc = "upsert" /\ rtLocal = <<>> /\ connected' \in BOOLEAN
      /\ dbPc' = "idle" /\ job' = {} /\ snap' = {}
      /\ UNCHANGED <<field, hub, rt, timer, dbQ, rtLocal, redis>>
  BY DEF Upsert, EndJob, Fail, Phases, TypeOK
<1>1. ASSUME NEW u \in Uids, NEW s \in snap, s[1] = u
      PROVE  (CHOOSE t \in snap : t[1] = u) = s
  BY <1>1 DEF Fetched
<1>2. \A u \in Uids : mysql[u] \in Nat /\ redis[u] \in Nat /\ saved[u] \in Nat
  BY DEF TypeOK, Versions
<1>3. \/ /\ failed' = failed /\ mysql' \in [Uids -> Nat]
         /\ \A u \in Uids :
              /\ \A s \in snap : s[1] = u => mysql'[u] = s[2]
              /\ (\A s \in snap : s[1] # u) => mysql'[u] = mysql[u]
      \/ mysql' = mysql /\ failed' = failed \cup { s[1] : s \in snap }
  <2>1. CASE Fail({ s[1] : s \in snap }) /\ UNCHANGED mysql
    BY <2>1 DEF Fail
  <2>2. CASE mysql' = [u \in Uids |-> IF \E s \in snap : s[1] = u
                                      THEN (CHOOSE s \in snap : s[1] = u)[2]
                                      ELSE mysql[u]] /\ failed' = failed
    <3>1. ASSUME NEW u \in Uids, NEW s \in snap, s[1] = u PROVE mysql'[u] = s[2] /\ s[2] \in Nat
      BY <1>1, <2>2, <3>1, EntryTypes
    <3>2. ASSUME NEW u \in Uids, \A s \in snap : s[1] # u PROVE mysql'[u] = mysql[u]
      BY <2>2, <3>2
    <3> QED BY <1>2, <2>2, <3>1, <3>2
  <2> QED BY <2>1, <2>2 DEF Upsert
<1>4. failed' \subseteq Uids /\ failed \subseteq failed'
  BY <1>3, EntryTypes DEF TypeOK
<1>5. \A u \in Uids : mysql'[u] \in Nat /\ mysql[u] <= mysql'[u] /\ mysql'[u] <= redis[u]
  BY <1>2, <1>3, EntryTypes DEF Fetched, Downstream
<1>6. TypeOK'
  BY <1>0, <1>3, <1>4 DEF TypeOK, Versions
<1>7. PendingExact'
  BY <1>0 DEF PendingExact
<1>8. Downstream' /\ Saving' /\ Phases' /\ Emptied' /\ Fetched' /\ QueuesOrdered'
  BY <1>0, <1>5 DEF Downstream, Saving, Phases, Emptied, Fetched, QueuesOrdered, Sorted, Between,
                    Ahead
<1>9. PushedFirst'
  BY <1>0, <1>4 DEF PushedFirst, InPipe, Holds
<1>10. Flow'
  <2>1. \A u : Settled(u)' <=> Settled(u)
    BY <1>0 DEF Settled
  <2>2. ASSUME NEW u \in Uids \ failed', Settled(u)
        PROVE  saved[u] <= mysql'[u]
    <3>1. saved[u] <= mysql[u] \/ \E s \in snap : s[1] = u /\ saved[u] <= s[2]
      BY <1>0, <1>4, <2>2 DEF Flow, JobDone
    <3>2. CASE saved[u] <= mysql[u]
      BY <1>2, <1>5, <3>2
    <3>3. CASE \E s \in snap : s[1] = u /\ saved[u] <= s[2]
      <4>1. PICK s \in snap : s[1] = u /\ saved[u] <= s[2]
        BY <3>3
      <4>2. u \notin { t[1] : t \in snap } => FALSE
        BY <4>1
      <4> QED BY <1>3, <2>2, <4>1, <4>2
    <3> QED BY <3>1, <3>2, <3>3
  <2> QED BY <1>0, <2>1, <2>2 DEF Flow
<1> QED BY <1>5, <1>6, <1>7, <1>8, <1>9, <1>10

LEMMA DbLeaveIInv ==
    ASSUME IInv, DbLeave
    PROVE  IInv'
<1> USE DEF IInv, field, hub, rt, timer, stores
<1>0. /\ dbPc = "idle" /\ dbPc' = "gone" /\ connected' = FALSE
      /\ UNCHANGED <<field, hub, rt, timer, dbQ, job, rtLocal, snap, failed, stores>>
  BY DEF DbLeave
<1>1. TypeOK' /\ PendingExact'
  BY <1>0 DEF TypeOK, PendingExact
<1>2. Downstream' /\ Saving' /\ Phases' /\ Emptied' /\ Fetched' /\ QueuesOrdered'
  BY <1>0 DEF Downstream, Saving, Phases, Emptied, Fetched, QueuesOrdered, Sorted, Between, Ahead
<1>3. PushedFirst' /\ Flow'
  BY <1>0 DEF PushedFirst, InPipe, Holds, Flow, Settled, JobDone, Phases
<1> QED BY <1>1, <1>2, <1>3

-----------------------------------------------------------------------------
LEMMA StutterIInv ==
    ASSUME IInv, UNCHANGED vars
    PROVE  IInv'
<1> USE DEF IInv, vars, field, hub, rt, timer, dbthread, stores
<1>1. TypeOK' /\ PendingExact'
  BY DEF TypeOK, PendingExact
<1>2. Downstream' /\ Saving' /\ Phases' /\ Emptied' /\ Fetched' /\ QueuesOrdered'
  BY DEF Downstream, Saving, Phases, Emptied, Fetched, QueuesOrdered, Sorted, Between, Ahead
<1>3. PushedFirst' /\ Flow'
  BY DEF PushedFirst, InPipe, Holds, Flow, Settled, JobDone
<1> QED BY <1>1, <1>2, <1>3

\* Every step keeps the invariant and moves neither store backwards.
LEMMA NextIInv ==
    ASSUME IInv, [Next]_vars
    PROVE  IInv' /\ \A u \in Uids : redis[u] <= redis'[u] /\ mysql[u] <= mysql'[u]
<1>0. \A u \in Uids : redis[u] \in Nat /\ mysql[u] \in Nat
  BY DEF IInv, TypeOK, Versions
<1>1. CASE UNCHANGED vars
  BY <1>0, <1>1, StutterIInv DEF vars, stores
<1>2. ASSUME NEW u \in Uids, Save(u) \/ Throttled(u) \/ Hit(u) PROVE IInv' /\ UNCHANGED stores
  <2>1. CASE Save(u)
    BY <2>1, ChangeIInv DEF Save, hub
  <2>2. CASE Throttled(u)
    BY <2>2, ChangeIInv DEF Throttled, hub
  <2>3. CASE Hit(u)
    BY <2>3, ChangeIInv DEF Hit
  <2> QED BY <1>2, <2>1, <2>2, <2>3
<1>3. ASSUME NEW u \in Uids, SaveStep(u) PROVE IInv' /\ UNCHANGED stores
  <2>1. IInv'
    BY <1>3, RtPushIInv, RtCountIInv, MarkIInv DEF SaveStep
  <2>2. UNCHANGED stores
    BY <1>3 DEF SaveStep, RtPush, RtCount, Mark
  <2> QED BY <2>1, <2>2
<1>4. CASE TimerStep \/ Stop
  <2>1. IInv'
    BY <1>4, StealShardIInv, PushIInv, QuietIInv DEF TimerStep
  <2>2. UNCHANGED stores
    BY <1>4 DEF TimerStep, TimerFires, StealShard, StealDone, PushEmptyJob, PushBatch, Stop
  <2> QED BY <1>0, <2>1, <2>2 DEF stores
<1>5. CASE DbStep
  <2>1. CASE TakeJob \/ ConnectFirst \/ ConnectAgain \/ FlushSwap \/ FlushUncount \/ Fetch \/ DbLeave
    <3>1. IInv'
      BY <2>1, TakeJobIInv, ConnectIInv, FlushSwapIInv, FlushUncountIInv, FetchIInv, DbLeaveIInv
    <3>2. UNCHANGED stores
      BY <2>1 DEF TakeJob, ConnectFirst, ConnectAgain, Connect, FlushSwap, FlushUncount, Fetch,
                  DbLeave
    <3> QED BY <1>0, <3>1, <3>2 DEF stores
  <2>2. CASE FlushWrite
    <3>1. \A u \in Uids : redis[u] <= redis'[u]
      <4>1. Len(rtLocal) \in 0..Len(rtLocal)
        BY EntryTypes DEF IInv
      <4>2. \E n \in 0..Len(rtLocal) : redis' = Written(n)
        BY <2>2, <4>1 DEF FlushWrite
      <4> QED BY <4>2, WrittenForward
    <3> QED BY <1>0, <2>2, <3>1, FlushWriteIInv DEF FlushWrite
  <2>3. CASE Upsert
    BY <1>0, <2>3, UpsertIInv DEF Upsert
  <2> QED BY <1>5, <2>1, <2>2, <2>3 DEF DbStep
<1> QED BY <1>0, <1>1, <1>2, <1>3, <1>4, <1>5 DEF Next, stores

\* The invariant of the reachable states of the storage pipeline.
THEOREM Inductive == Spec => []IInv
<1>1. IInv /\ [Next]_vars => IInv'
  BY NextIInv
<1> QED BY InitIInv, <1>1, PTL DEF Spec

\* Versions are numbers, the queues hold what their users put there, and the
\* counter of pending writes stays in its range.
THEOREM Types == Spec => []TypeOK
<1>1. IInv => TypeOK
  BY DEF IInv
<1> QED BY Inductive, <1>1, PTL

\* The counter of pending real-time writes, raised by the field threads after
\* their push and lowered by the DB thread before its writes, differs from the
\* writes pending by the pushes under way only, also once it wrapped around.
THEOREM CounterExact == Spec => []PendingExact
<1>1. IInv => PendingExact
  BY DEF IInv
<1> QED BY Inductive, <1>1, PTL

\* MySQL never has a state Redis has not had, nor Redis one of the future.
THEOREM StoresFollow == Spec => []Downstream
<1>1. IInv => Downstream
  BY DEF IInv
<1> QED BY Inductive, <1>1, PTL

\* No lost update: what was saved is in MySQL, unless the uid is in the hub,
\* stolen, queued or in the job at hand, or a call about it failed.
THEOREM UpdatesCarried == Spec => []NoLostUpdate
<1>1. IInv => NoLostUpdate
  <2> SUFFICES ASSUME IInv, NEW u \in Uids \ failed, ~Carried(u) PROVE ~(mysql[u] < saved[u])
    BY DEF NoLostUpdate
  <2>1. Settled(u) /\ u \notin job
    BY DEF Carried, Settled
  <2>2. saved[u] <= mysql[u] /\ saved[u] \in Nat /\ mysql[u] \in Nat
    BY <2>1 DEF IInv, Flow, TypeOK, Versions
  <2> QED BY <2>2
<1> QED BY Inductive, <1>1, PTL

\* Neither store is ever given an older state than the one it holds, whatever
\* part of a batch a failure leaves behind.
THEOREM StoresForward == Spec => NoRegress
<1>1. IInv /\ [Next]_vars
      => [\A u \in Uids : redis[u] <= redis'[u] /\ mysql[u] <= mysql'[u]]_vars
  BY NextIInv
<1> QED BY Inductive, <1>1, PTL DEF Spec, NoRegress

=============================================================================
