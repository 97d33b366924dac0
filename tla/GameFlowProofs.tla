--------------------------- MODULE GameFlowProofs ---------------------------
(***************************************************************************)
(* Proofs about GameFlow, for any sets of sessions and fields and any      *)
(* number of packets: who is in a field belongs there, can be reached, and *)
(* is moved by its own session only, though three threads work on the      *)
(* session, the registries and the field without a common lock.            *)
(***************************************************************************)
EXTENDS GameFlow, FiniteSetTheorems, SequenceTheorems, TLAPS

-----------------------------------------------------------------------------
(* The inductive invariant. *)

\* The ids handed out are those below nextId, and a connection that was
\* accepted stands behind each.
Registered ==
    \A i \in Ids : /\ owner[i] # None <=> i < nextId
                   /\ i < nextId => conn[owner[i]] # "new"

\* A session carries the id of its latest player, or one that is nobody's name.
Carries ==
    \A s \in Sessions :
        /\ mine[s] # None => owner[mine[s]] = s /\ playerId[s] = mine[s]
        /\ mine[s] = None => playerId[s] \in {0, Anon}

\* Nothing is heard of a connection before it is accepted, and logins stay
\* within their bound.
Heard ==
    /\ \A k \in 1..Len(gameQ) : conn[gameQ[k].s] # "new"
    /\ Logins <= MaxPlayers

\* A session is sent into a field with a player only.
Located ==
    \A s \in Sessions :
        /\ fieldId[s] # None <=> state[s] = "InField"
        /\ state[s] = "InField" => mine[s] # None

\* Who is about to be in a field is on record: the player, and where.
Entering ==
    entering # None =>
        /\ entering.id < nextId /\ owner[entering.id] = entering.s
        /\ entering.field \in fields /\ fieldId[entering.s] = entering.field

\* Whoever is in a field was logged in.
Inside == \A f \in Fields : \A i \in players[f] : i < nextId

\* The players of a connection that lives are bound to it.
Bound ==
    \A i \in Ids :
        i < nextId /\ conn[owner[i]] \in {"open", "closing"} => bound[i] = owner[i]

\* Moves come from sessions with a player only.
MovesOwned ==
    \A f \in Fields :
        /\ \A k \in 1..Len(fieldQ[f]) : fieldQ[f][k].kind = "Move" => mine[fieldQ[f][k].s] # None
        /\ hand[f] # None /\ hand[f].kind = "Move" => mine[hand[f].s] # None

IInv ==
    /\ FlowTypeOK /\ Registered /\ Carries /\ Heard /\ Located /\ Entering /\ Inside /\ Bound
    /\ MovesOwned /\ InFieldHasPlayer /\ SkillAfterEntry

-----------------------------------------------------------------------------
(* Messages and the logins among them. *)

\* What the parts of a message are.
LEMMA MessageParts ==
    ASSUME NEW m \in Messages
    PROVE  /\ m.s \in Sessions /\ m.kind \in {"Login", "Skill", "EnterField", "Move"}
           /\ m.kind = "EnterField" => m.arg \in Fields
           /\ m.kind = "Move" => m.arg \in Ids
<1>1. PICK s \in Sessions : m \in Packets(s)
  BY DEF Messages
<1> QED BY <1>1, FlowAssumption DEF Packets

LEMMA NoneApart == None \notin Sessions /\ None \notin Fields /\ None \notin Nat /\ None \notin Ids
BY FlowAssumption DEF Ids

LoginsIn(q) == { k \in 1..Len(q) : q[k].kind = "Login" }

LEMMA LoginsFinite ==
    ASSUME NEW q \in Seq(Messages)
    PROVE  IsFiniteSet(LoginsIn(q)) /\ Cardinality(LoginsIn(q)) \in Nat
<1>1. IsFiniteSet(1..Len(q))
  BY FS_Interval, LenProperties
<1>2. IsFiniteSet(LoginsIn(q))
  BY <1>1, FS_Subset DEF LoginsIn
<1> QED BY <1>2, FS_CardinalityType

\* A login more in a queue, ...
LEMMA LoginsOfAppend ==
    ASSUME NEW q \in Seq(Messages), NEW m \in Messages
    PROVE  Cardinality(LoginsIn(Append(q, m)))
             = Cardinality(LoginsIn(q)) + (IF m.kind = "Login" THEN 1 ELSE 0)
<1>1. /\ Len(q) \in Nat /\ Len(Append(q, m)) = Len(q) + 1
      /\ \A k \in 1..Len(q) : Append(q, m)[k] = q[k]
      /\ Append(q, m)[Len(q) + 1] = m
  BY AppendProperties, LenProperties
<1>2. CASE m.kind = "Login"
  <2>1. LoginsIn(Append(q, m)) = LoginsIn(q) \cup {Len(q) + 1} /\ Len(q) + 1 \notin LoginsIn(q)
    BY <1>1, <1>2 DEF LoginsIn
  <2> QED BY <1>2, <2>1, LoginsFinite, FS_AddElement
<1>3. CASE m.kind # "Login"
  <2>1. LoginsIn(Append(q, m)) = LoginsIn(q)
    BY <1>1, <1>3 DEF LoginsIn
  <2> QED BY <1>3, <2>1, LoginsFinite
<1> QED BY <1>2, <1>3

\* ... and one less, if the first message is one.
LEMMA LoginsOfTail ==
    ASSUME NEW q \in Seq(Messages), q # <<>>
    PROVE  Cardinality(LoginsIn(q))
             = Cardinality(LoginsIn(Tail(q))) + (IF Head(q).kind = "Login" THEN 1 ELSE 0)
<1> DEFINE later == LoginsIn(q) \ {1}
           f == [k \in later |-> k - 1]
<1>1. /\ Len(q) \in Nat \ {0} /\ Len(Tail(q)) = Len(q) - 1 /\ Head(q) = q[1]
      /\ \A k \in 1..Len(Tail(q)) : Tail(q)[k] = q[k + 1]
      /\ Tail(q) \in Seq(Messages)
  BY HeadTailProperties, EmptySeq, LenProperties
<1>2. f \in Bijection(later, LoginsIn(Tail(q)))
  <2>1. ASSUME NEW k \in later PROVE k - 1 \in LoginsIn(Tail(q))
    BY <1>1 DEF LoginsIn
  <2>2. ASSUME NEW l \in LoginsIn(Tail(q)) PROVE l + 1 \in later /\ f[l + 1] = l
    BY <1>1 DEF LoginsIn
  <2>3. \A k, l \in later : f[k] = f[l] => k = l
    BY <1>1 DEF LoginsIn
  <2>4. f \in [later -> LoginsIn(Tail(q))]
    BY <2>1
  <2> HIDE DEF f, later
  <2> QED BY <2>2, <2>3, <2>4 DEF Bijection, Injection, Surjection, IsInjective
<1>3. IsFiniteSet(LoginsIn(q)) /\ IsFiniteSet(later) /\ Cardinality(later) \in Nat
  BY LoginsFinite, FS_Subset, FS_CardinalityType
<1>4. Cardinality(later) = Cardinality(LoginsIn(Tail(q)))
  <2>1. ExistsBijection(later, LoginsIn(Tail(q)))
    BY <1>2 DEF ExistsBijection
  <2> HIDE DEF later
  <2> QED BY <1>3, <2>1, FS_Bijection
<1>5. CASE Head(q).kind = "Login"
  <2>1. 1 \in LoginsIn(q)
    BY <1>1, <1>5 DEF LoginsIn
  <2>2. Cardinality(later) = Cardinality(LoginsIn(q)) - 1 /\ Cardinality(LoginsIn(q)) \in Nat
    BY <1>3, <2>1, LoginsFinite, FS_RemoveElement
  <2> HIDE DEF later
  <2> QED BY <1>4, <1>5, <2>2
<1>6. CASE Head(q).kind # "Login"
  <2>1. later = LoginsIn(q)
    BY <1>1, <1>6 DEF LoginsIn
  <2> HIDE DEF later
  <2> QED BY <1>3, <1>4, <1>6, <2>1
<1> QED BY <1>5, <1>6

LEMMA LoginsIs == Logins = nextId - 1 + Cardinality(LoginsIn(gameQ))
BY DEF Logins, LoginsIn

-----------------------------------------------------------------------------
LEMMA InitIInv == Init => IInv
<1> SUFFICES ASSUME Init PROVE IInv
  OBVIOUS
<1> USE DEF Init
<1>1. FlowTypeOK
  <2>1. 0 \in 0..MaxAge /\ nextId \in 1..(MaxPlayers + 1)
    BY FlowAssumption
  <2>2. \A s \in Sessions : mine[s] = None
    OBVIOUS
  <2>3. gameQ \in Seq(Messages) /\ fieldQ \in [Fields -> Seq(Messages)]
    BY EmptySeq
  <2> QED BY <2>1, <2>2, <2>3 DEF FlowTypeOK
<1>2. Heard
  <2>1. LoginsIn(gameQ) = {}
    BY DEF LoginsIn
  <2>2. Logins = 0
    BY <2>1, LoginsIs, FS_EmptySet
  <2> QED BY <2>2, FlowAssumption DEF Heard
<1>3. Registered /\ Carries /\ Located /\ Entering /\ Inside /\ Bound
  BY NoneApart DEF Registered, Carries, Located, Entering, Inside, Bound, Ids
<1>4. MovesOwned /\ InFieldHasPlayer /\ SkillAfterEntry
  BY DEF MovesOwned, InFieldHasPlayer, SkillAfterEntry
<1> QED BY <1>1, <1>2, <1>3, <1>4 DEF IInv

-----------------------------------------------------------------------------
(* The uv thread. *)

LEMMA AcceptIInv ==
    ASSUME IInv, NEW s \in Sessions, Accept(s)
    PROVE  IInv'
<1> USE DEF IInv, registry, world, motion
<1>0. /\ conn[s] = "new" /\ conn' = [conn EXCEPT ![s] = "open"]
      /\ playerId' = [playerId EXCEPT ![s] = Anon]
      /\ UNCHANGED <<state, fieldId, registry, gameQ, entering, world, fieldQ, hand, motion, reads>>
  BY DEF Accept
<1>1. FlowTypeOK'
  BY <1>0, FlowAssumption DEF FlowTypeOK
<1>2. /\ \A t \in Sessions : conn'[t] = IF t = s THEN "open" ELSE conn[t]
      /\ \A t \in Sessions : playerId'[t] = IF t = s THEN Anon ELSE playerId[t]
  BY <1>0 DEF FlowTypeOK
<1>3. ASSUME NEW i \in Ids, i < nextId PROVE owner[i] \in Sessions /\ owner[i] # s
  BY <1>0, <1>3 DEF Registered, FlowTypeOK
<1>4. mine[s] = None
  <2>1. mine[s] # None => mine[s] \in Ids /\ owner[mine[s]] # None
    BY NoneApart DEF Carries, FlowTypeOK
  <2> QED BY <1>3, <2>1 DEF Carries, Registered
<1>5. Registered' /\ Bound'
  BY <1>0, <1>2, <1>3 DEF Registered, Bound
<1>6. Carries'
  BY <1>0, <1>2, <1>4 DEF Carries
<1>7. Heard'
  <2>1. \A k \in 1..Len(gameQ) : gameQ[k].s \in Sessions
    BY ElementOfSeq, MessageParts DEF FlowTypeOK
  <2> QED BY <1>0, <1>2, <2>1 DEF Heard, Logins
<1>8. Located' /\ Entering' /\ Inside' /\ MovesOwned' /\ InFieldHasPlayer' /\ SkillAfterEntry'
  BY <1>0 DEF Located, Entering, Inside, MovesOwned, InFieldHasPlayer, SkillAfterEntry
<1> QED BY <1>1, <1>5, <1>6, <1>7, <1>8

LEMMA CloseIInv ==
    ASSUME IInv, NEW s \in Sessions, Close(s)
    PROVE  IInv'
<1> USE DEF IInv, registry, world, motion
<1>0. /\ conn[s] = "open" /\ conn' = [conn EXCEPT ![s] = "closing"]
      /\ UNCHANGED <<state, fieldId, playerId, registry, gameQ, entering, world, fieldQ, hand,
                     motion, reads>>
  BY DEF Close
<1>1. FlowTypeOK'
  BY <1>0 DEF FlowTypeOK
<1>2. \A t \in Sessions : conn'[t] = IF t = s THEN "closing" ELSE conn[t]
  BY <1>0 DEF FlowTypeOK
<1>3. ASSUME NEW i \in Ids, i < nextId PROVE owner[i] \in Sessions
  BY <1>3 DEF Registered, FlowTypeOK
<1>4. Registered' /\ Bound'
  BY <1>0, <1>2, <1>3 DEF Registered, Bound
<1>5. Heard'
  <2>1. \A k \in 1..Len(gameQ) : gameQ[k].s \in Sessions
    BY ElementOfSeq, MessageParts DEF FlowTypeOK
  <2> QED BY <1>0, <1>2, <2>1 DEF Heard, Logins
<1>6. /\ Carries' /\ Located' /\ Entering' /\ Inside' /\ MovesOwned' /\ InFieldHasPlayer'
      /\ SkillAfterEntry'
  BY <1>0 DEF Carries, Located, Entering, Inside, MovesOwned, InFieldHasPlayer, SkillAfterEntry
<1> QED BY <1>1, <1>4, <1>5, <1>6

\* The end of a session unbinds its players, and nobody else's.
LEMMA ClosedIInv ==
    ASSUME IInv, NEW s \in Sessions, Closed(s)
    PROVE  IInv'
<1> USE DEF IInv, world, motion
<1>0. /\ conn[s] = "closing" /\ conn' = [conn EXCEPT ![s] = "closed"] /\ bound' = Unbound(s)
      /\ UNCHANGED <<state, fieldId, playerId, owner, mine, nextId, gameQ, entering, world,
                     fieldQ, hand, motion, reads>>
  BY DEF Closed
<1>1. \A i \in Ids : bound'[i] = IF bound[i] = s THEN None ELSE bound[i]
  BY <1>0 DEF Unbound
<1>2. FlowTypeOK'
  <2>1. bound' \in [Ids -> Sessions \cup {None}]
    BY <1>0 DEF Unbound, FlowTypeOK
  <2> QED BY <1>0, <2>1 DEF FlowTypeOK
<1>3. \A t \in Sessions : conn'[t] = IF t = s THEN "closed" ELSE conn[t]
  BY <1>0 DEF FlowTypeOK
<1>4. ASSUME NEW i \in Ids, i < nextId PROVE owner[i] \in Sessions
  BY <1>4 DEF Registered, FlowTypeOK
<1>5. Registered' /\ Bound'
  BY <1>0, <1>1, <1>3, <1>4 DEF Registered, Bound
<1>6. Heard'
  <2>1. \A k \in 1..Len(gameQ) : gameQ[k].s \in Sessions
    BY ElementOfSeq, MessageParts DEF FlowTypeOK
  <2> QED BY <1>0, <1>3, <2>1 DEF Heard, Logins
<1>7. /\ Carries' /\ Located' /\ Entering' /\ Inside' /\ MovesOwned' /\ InFieldHasPlayer'
      /\ SkillAfterEntry'
  BY <1>0 DEF Carries, Located, Entering, Inside, MovesOwned, InFieldHasPlayer, SkillAfterEntry
<1> QED BY <1>2, <1>5, <1>6, <1>7

\* A message goes to a queue: of the game worker, or, from a session in a
\* field, a move to its field.
LEMMA ReadIInv ==
    ASSUME IInv, NEW s \in Sessions, Read(s)
    PROVE  IInv'
<1> USE DEF IInv, session, registry, world, motion
<1>0. PICK m \in Packets(s) :
        /\ conn[s] = "open" /\ reads' = [reads EXCEPT ![s] = @ + 1]
        /\ m.kind = "Login" => Logins < MaxPlayers
        /\ \/ gameQ' = Append(gameQ, m) /\ fieldQ' = fieldQ
           \/ /\ state[s] = "InField" /\ m.kind = "Move" /\ gameQ' = gameQ
              /\ \/ fieldQ' = fieldQ
                 \/ fieldQ' = [fieldQ EXCEPT ![fieldId[s]] = Append(@, m)]
        /\ UNCHANGED <<session, registry, entering, world, hand, motion>>
  BY DEF Read, Route, ToGame, ToField
<1>1. m \in Messages /\ m.s = s
  BY DEF Messages, Packets
<1>2. gameQ \in Seq(Messages) /\ fieldQ \in [Fields -> Seq(Messages)]
  BY DEF FlowTypeOK
<1>3. reads' \in [Sessions -> Nat]
  <2>1. reads \in [Sessions -> Nat] /\ reads[s] + 1 \in Nat
    BY DEF FlowTypeOK
  <2> QED BY <1>0, <2>1
<1>4. CASE gameQ' = Append(gameQ, m) /\ fieldQ' = fieldQ
  <2>1. /\ Len(gameQ) \in Nat /\ Len(gameQ') = Len(gameQ) + 1 /\ gameQ' \in Seq(Messages)
        /\ \A k \in 1..Len(gameQ) : gameQ'[k] = gameQ[k]
        /\ gameQ'[Len(gameQ) + 1] = m
    BY <1>1, <1>2, <1>4, AppendProperties, LenProperties
  <2>2. FlowTypeOK'
    BY <1>0, <1>3, <1>4, <2>1 DEF FlowTypeOK
  <2>3. Heard'
    <3>1. Cardinality(LoginsIn(gameQ'))
            = Cardinality(LoginsIn(gameQ)) + (IF m.kind = "Login" THEN 1 ELSE 0)
      BY <1>1, <1>2, <1>4, LoginsOfAppend
    <3>2. nextId \in Nat /\ Cardinality(LoginsIn(gameQ)) \in Nat /\ MaxPlayers \in Nat
      BY <1>2, LoginsFinite, FlowAssumption DEF FlowTypeOK
    <3>3. Logins' = nextId - 1 + Cardinality(LoginsIn(gameQ'))
      BY <1>0 DEF Logins, LoginsIn
    <3>4. Logins' <= MaxPlayers
      BY <1>0, <3>1, <3>2, <3>3, LoginsIs DEF Heard
    <3>5. \A k \in 1..Len(gameQ') : conn'[gameQ'[k].s] # "new"
      BY <1>0, <1>1, <2>1 DEF Heard
    <3> QED BY <3>4, <3>5 DEF Heard
  <2>4. /\ Registered' /\ Carries' /\ Located' /\ Entering' /\ Inside' /\ Bound' /\ MovesOwned'
        /\ InFieldHasPlayer' /\ SkillAfterEntry'
    BY <1>0, <1>4 DEF Registered, Carries, Located, Entering, Inside, Bound, MovesOwned,
                      InFieldHasPlayer, SkillAfterEntry
  <2> QED BY <2>2, <2>3, <2>4
<1>5. CASE state[s] = "InField" /\ m.kind = "Move" /\ gameQ' = gameQ
  <2>1. mine[s] # None
    BY <1>5 DEF Located
  <2>2. ASSUME NEW f \in Fields
        PROVE  /\ fieldQ'[f] \in Seq(Messages)
               /\ \A k \in 1..Len(fieldQ'[f]) :
                     fieldQ'[f][k] = m \/ (k \in 1..Len(fieldQ[f]) /\ fieldQ'[f][k] = fieldQ[f][k])
    <3>1. CASE fieldQ'[f] = fieldQ[f]
      BY <1>2, <3>1
    <3>2. CASE fieldQ'[f] = Append(fieldQ[f], m)
      <4>1. fieldQ[f] \in Seq(Messages)
        BY <1>2
      <4> QED BY <1>1, <3>2, <4>1, AppendProperties, LenProperties
    <3> QED BY <1>0, <1>2, <1>5, <3>1, <3>2
  <2>3. FlowTypeOK'
    <3>1. fieldQ' \in [Fields -> Seq(Messages)]
      BY <1>0, <1>2, <1>5, <2>2
    <3> QED BY <1>0, <1>3, <1>5, <3>1 DEF FlowTypeOK
  <2>4. MovesOwned'
    BY <1>0, <1>1, <2>1, <2>2 DEF MovesOwned
  <2>5. SkillAfterEntry'
    BY <1>0, <1>5, <2>2 DEF SkillAfterEntry
  <2>6. Heard'
    BY <1>0, <1>5 DEF Heard, Logins
  <2>7. Registered' /\ Carries' /\ Located' /\ Entering' /\ Inside' /\ Bound' /\ InFieldHasPlayer'
    BY <1>0, <1>5 DEF Registered, Carries, Located, Entering, Inside, Bound, InFieldHasPlayer
  <2> QED BY <2>3, <2>4, <2>5, <2>6, <2>7
<1> QED BY <1>0, <1>4, <1>5

-----------------------------------------------------------------------------
(* The GameWorker. *)

\* The first message of the queue, and what is left.
LEMMA Dispatched ==
    ASSUME IInv, NEW kind, Dispatch(kind)
    PROVE  /\ entering = None /\ gameQ # <<>> /\ gameQ' \in Seq(Messages)
           /\ Head(gameQ) \in Messages /\ Head(gameQ).kind = kind
           /\ conn[Head(gameQ).s] # "new" /\ Head(gameQ).s \in Sessions
           /\ \A k \in 1..Len(gameQ') : conn[gameQ'[k].s] # "new"
           /\ Cardinality(LoginsIn(gameQ)) \in Nat /\ Cardinality(LoginsIn(gameQ')) \in Nat
           /\ Cardinality(LoginsIn(gameQ))
                = Cardinality(LoginsIn(gameQ')) + (IF kind = "Login" THEN 1 ELSE 0)
<1>1. entering = None /\ gameQ # <<>> /\ gameQ' = Tail(gameQ) /\ Head(gameQ).kind = kind
  BY DEF Dispatch
<1>2. gameQ \in Seq(Messages)
  BY DEF IInv, FlowTypeOK
<1>3. /\ Len(gameQ) \in Nat \ {0} /\ Len(gameQ') = Len(gameQ) - 1 /\ gameQ' \in Seq(Messages)
      /\ \A k \in 1..Len(gameQ') : gameQ'[k] = gameQ[k + 1]
      /\ Head(gameQ) = gameQ[1]
  BY <1>1, <1>2, HeadTailProperties, EmptySeq, LenProperties
<1>4. Head(gameQ) \in Messages /\ conn[Head(gameQ).s] # "new"
  BY <1>2, <1>3, ElementOfSeq DEF IInv, Heard
<1>5. \A k \in 1..Len(gameQ') : conn[gameQ'[k].s] # "new"
  BY <1>3 DEF IInv, Heard
<1> QED BY <1>1, <1>2, <1>3, <1>4, <1>5, MessageParts, LoginsFinite, LoginsOfTail

\* A login: a new player for the session, which is bound to it.
LEMMA OnRecvLoginIInv ==
    ASSUME IInv, OnRecvLogin
    PROVE  IInv'
<1> USE DEF IInv, world, motion
<1>a. PICK s : s = Head(gameQ).s
  OBVIOUS
<1>0. /\ Dispatch("Login")
      /\ owner' = [owner EXCEPT ![nextId] = s] /\ mine' = [mine EXCEPT ![s] = nextId]
      /\ playerId' = [playerId EXCEPT ![s] = nextId] /\ bound' = [bound EXCEPT ![nextId] = s]
      /\ nextId' = nextId + 1
      /\ UNCHANGED <<conn, state, fieldId, entering, world, fieldQ, hand, motion, reads>>
  BY <1>a DEF OnRecvLogin, NewId
<1>1. /\ s \in Sessions /\ conn[s] # "new" /\ gameQ' \in Seq(Messages)
      /\ \A k \in 1..Len(gameQ') : conn[gameQ'[k].s] # "new"
      /\ Cardinality(LoginsIn(gameQ')) \in Nat
      /\ Cardinality(LoginsIn(gameQ)) = Cardinality(LoginsIn(gameQ')) + 1
  BY <1>0, <1>a, Dispatched
<1>2. nextId \in Ids /\ nextId' \in 1..(MaxPlayers + 1) /\ nextId \in Nat
  <2>1. nextId \in Nat \ {0} /\ MaxPlayers \in Nat
    BY FlowAssumption DEF FlowTypeOK
  <2>2. Logins <= MaxPlayers /\ Logins = nextId - 1 + Cardinality(LoginsIn(gameQ))
    BY LoginsIs DEF Heard
  <2> QED BY <1>0, <1>1, <2>1, <2>2 DEF Ids
<1>3. /\ \A i \in Ids : owner'[i] = IF i = nextId THEN s ELSE owner[i]
      /\ \A i \in Ids : bound'[i] = IF i = nextId THEN s ELSE bound[i]
      /\ \A t \in Sessions : mine'[t] = IF t = s THEN nextId ELSE mine[t]
      /\ \A t \in Sessions : playerId'[t] = IF t = s THEN nextId ELSE playerId[t]
  BY <1>0 DEF FlowTypeOK
<1>4. \A i \in Ids : i \in Nat /\ (i < nextId' <=> i < nextId \/ i = nextId) /\ (i < nextId => i # nextId)
  BY <1>0, <1>2 DEF Ids
<1>5. \A t \in Sessions : mine[t] # None => mine[t] \in Ids /\ mine[t] < nextId
  BY NoneApart DEF Carries, Registered, FlowTypeOK
<1>6. Carries'
  BY <1>1, <1>2, <1>3, <1>4, <1>5, NoneApart DEF Carries
<1>7. FlowTypeOK'
  <2>1. \A t \in Sessions : mine'[t] # None => owner'[mine'[t]] = t
    BY <1>6 DEF Carries
  <2> QED BY <1>0, <1>1, <1>2, <2>1 DEF FlowTypeOK
<1>8. Registered' /\ Bound'
  <2>1. s # None
    BY <1>1, NoneApart
  <2> QED BY <1>0, <1>1, <1>2, <1>3, <1>4, <2>1 DEF Registered, Bound
<1>9. Heard'
  <2>1. Logins' = nextId' - 1 + Cardinality(LoginsIn(gameQ'))
    BY DEF Logins, LoginsIn
  <2>2. Logins' = Logins
    BY <1>0, <1>1, <1>2, <2>1, LoginsIs
  <2> QED BY <1>0, <1>1, <2>2 DEF Heard
<1>10. Located' /\ MovesOwned'
  <2>1. \A t : mine[t] # None => mine'[t] # None
    BY <1>0, <1>2, NoneApart
  <2> QED BY <1>0, <2>1 DEF Located, MovesOwned
<1>11. Entering' /\ Inside'
  <2>1. entering = None
    BY <1>0, Dispatched
  <2>2. \A f \in Fields : players[f] \subseteq Ids
    BY DEF FlowTypeOK
  <2> QED BY <1>0, <1>4, <2>1, <2>2 DEF Entering, Inside
<1>12. InFieldHasPlayer' /\ SkillAfterEntry'
  <2>1. ASSUME NEW f \in Fields, NEW i \in players[f] PROVE owner'[i] = owner[i]
    BY <1>3, <1>4 DEF Inside, FlowTypeOK
  <2>2. \A t \in Sessions : state[t] = "InField" => fieldId[t] \in Fields
    BY DEF Located, FlowTypeOK
  <2> QED BY <1>0, <2>1, <2>2 DEF InFieldHasPlayer, SkillAfterEntry
<1> QED BY <1>6, <1>7, <1>8, <1>9, <1>10, <1>11, <1>12

\* The request for a field: of a player on record, into a field that is there.
LEMMA OnRecvEnterFieldIInv ==
    ASSUME IInv, OnRecvEnterField
    PROVE  IInv'
<1> USE DEF IInv, registry, motion
<1> DEFINE m == Head(gameQ)
<1>0. /\ Dispatch("EnterField")
      /\ UNCHANGED <<conn, playerId, registry, storage, players, fieldQ, hand, motion, reads>>
  BY DEF OnRecvEnterField
<1>1. /\ m.s \in Sessions /\ m.arg \in Fields /\ gameQ' \in Seq(Messages) /\ entering = None
      /\ \A k \in 1..Len(gameQ') : conn[gameQ'[k].s] # "new"
      /\ Cardinality(LoginsIn(gameQ)) = Cardinality(LoginsIn(gameQ'))
  BY <1>0, Dispatched, MessageParts
<1>2. Heard'
  <2>1. Logins' = Logins
    BY <1>0, <1>1, LoginsIs DEF Logins, LoginsIn
  <2> QED BY <1>0, <1>1, <2>1 DEF Heard
<1>3. Registered' /\ Carries' /\ Inside' /\ Bound' /\ MovesOwned' /\ SkillAfterEntry'
  BY <1>0 DEF Registered, Carries, Inside, Bound, MovesOwned, SkillAfterEntry
<1>4. CASE UNCHANGED <<fields, fieldId, state, entering>>
  BY <1>0, <1>1, <1>2, <1>3, <1>4 DEF FlowTypeOK, Located, Entering, InFieldHasPlayer
<1>5. CASE Enter(m.s, m.arg)
  <2> DEFINE s == m.s
             f == m.arg
  <2>1. /\ mine[s] # None /\ fields' = fields \cup {f} /\ fieldId' = [fieldId EXCEPT ![s] = f]
        /\ state' = [state EXCEPT ![s] = "InField"]
        /\ entering' = [s |-> s, field |-> f, id |-> mine[s]]
    BY <1>5 DEF Enter, PlayerOf
  <2>2. s \in Sessions /\ f \in Fields /\ f # None
    BY <1>1, NoneApart
  <2> HIDE DEF m, s, f
  <2>3. mine[s] \in Ids /\ mine[s] < nextId /\ owner[mine[s]] = s
    BY <2>1, <2>2, NoneApart DEF Carries, Registered, FlowTypeOK
  <2>4. FlowTypeOK'
    BY <1>0, <1>1, <2>1, <2>2, <2>3 DEF FlowTypeOK, Hands
  <2>5. /\ \A t \in Sessions : fieldId'[t] = IF t = s THEN f ELSE fieldId[t]
        /\ \A t \in Sessions : state'[t] = IF t = s THEN "InField" ELSE state[t]
    BY <2>1 DEF FlowTypeOK
  <2>6. Located' /\ Entering'
    BY <1>0, <2>1, <2>2, <2>3, <2>5 DEF Located, Entering
  <2>7. InFieldHasPlayer'
    <3>1. entering'.s = s /\ entering' # None
      BY <2>1, <2>2, <2>3, NullAssumption DEF Hands
    <3> QED BY <1>0, <1>1, <2>5, <3>1 DEF InFieldHasPlayer
  <2> QED BY <1>2, <1>3, <2>4, <2>6, <2>7
<1>6. Enter(m.s, m.arg) \/ UNCHANGED <<fields, fieldId, state, entering>>
  BY DEF OnRecvEnterField
<1> QED BY <1>4, <1>5, <1>6

\* The player is in the field, where it was expected.
LEMMA AddPlayerIInv ==
    ASSUME IInv, AddPlayer
    PROVE  IInv'
<1> USE DEF IInv, session, registry, motion
<1>a. PICK s, f, i : s = entering.s /\ f = entering.field /\ i = entering.id
  OBVIOUS
<1>0. /\ entering # None /\ entering' = None
      /\ players' = [players EXCEPT ![f] = @ \cup {i}]
      /\ UNCHANGED <<session, registry, gameQ, storage, fields, fieldQ, hand, motion, reads>>
  BY <1>a DEF AddPlayer
<1>1. /\ s \in Sessions /\ f \in fields /\ f \in Fields /\ i \in Ids
      /\ i < nextId /\ owner[i] = s /\ fieldId[s] = f
  BY <1>0, <1>a DEF Entering, FlowTypeOK, Hands
<1>2. \A g \in Fields : players'[g] = IF g = f THEN players[g] \cup {i} ELSE players[g]
  BY <1>0 DEF FlowTypeOK
<1>3. FlowTypeOK'
  BY <1>0, <1>1, <1>2 DEF FlowTypeOK
<1>4. Registered' /\ Carries' /\ Located' /\ Entering' /\ Bound' /\ MovesOwned'
  BY <1>0 DEF Registered, Carries, Located, Entering, Bound, MovesOwned
<1>5. Heard'
  BY <1>0 DEF Heard, Logins
<1>6. Inside'
  BY <1>0, <1>1, <1>2 DEF Inside
<1>7. InFieldHasPlayer'
  <2>1. ASSUME NEW t \in Sessions, state[t] = "InField"
        PROVE  \E j \in players'[fieldId[t]] : owner[j] = t
    <3>1. fieldId[t] \in Fields
      BY <2>1 DEF Located, FlowTypeOK
    <3>2. CASE t = s
      BY <1>1, <1>2, <3>2
    <3>3. CASE t # s
      BY <1>a, <1>2, <2>1, <3>1, <3>3 DEF InFieldHasPlayer
    <3> QED BY <3>2, <3>3
  <2> QED BY <1>0, <2>1 DEF InFieldHasPlayer
<1>8. SkillAfterEntry'
  BY <1>0, <1>2 DEF SkillAfterEntry
<1> QED BY <1>3, <1>4, <1>5, <1>6, <1>7, <1>8

\* A skill passed on finds the player of its session in the field: the field
\* thread of the session is known before any skill is.
LEMMA OnRecvSkillCmdIInv ==
    ASSUME IInv, OnRecvSkillCmd
    PROVE  IInv'
<1> USE DEF IInv, session, registry, world, motion
<1>a. PICK m : m = Head(gameQ)
  OBVIOUS
<1>0. /\ Dispatch("Skill")
      /\ \/ fieldQ' = fieldQ
         \/ fieldId[m.s] \in fields /\ fieldQ' = [fieldQ EXCEPT ![fieldId[m.s]] = Append(@, m)]
      /\ UNCHANGED <<session, registry, entering, world, hand, motion, reads>>
  BY <1>a DEF OnRecvSkillCmd, ToField
<1>1. /\ m \in Messages /\ m.kind = "Skill" /\ m.s \in Sessions
      /\ gameQ' \in Seq(Messages) /\ entering = None
      /\ \A k \in 1..Len(gameQ') : conn[gameQ'[k].s] # "new"
      /\ Cardinality(LoginsIn(gameQ)) = Cardinality(LoginsIn(gameQ'))
  BY <1>0, <1>a, Dispatched
<1>2. Heard'
  <2>1. Logins' = Logins
    BY <1>0, <1>1, LoginsIs DEF Logins, LoginsIn
  <2> QED BY <1>0, <1>1, <2>1 DEF Heard
<1>3. Registered' /\ Carries' /\ Located' /\ Entering' /\ Inside' /\ Bound' /\ InFieldHasPlayer'
  BY <1>0 DEF Registered, Carries, Located, Entering, Inside, Bound, InFieldHasPlayer
<1>4. fieldQ \in [Fields -> Seq(Messages)]
  BY DEF FlowTypeOK
<1>5. ASSUME NEW f \in Fields
      PROVE  /\ fieldQ'[f] \in Seq(Messages)
             /\ \A k \in 1..Len(fieldQ'[f]) :
                   \/ k \in 1..Len(fieldQ[f]) /\ fieldQ'[f][k] = fieldQ[f][k]
                   \/ f = fieldId[m.s] /\ fieldQ'[f][k] = m
  <2>1. CASE fieldQ'[f] = fieldQ[f]
    BY <1>4, <2>1
  <2>2. CASE f = fieldId[m.s] /\ fieldQ'[f] = Append(fieldQ[f], m)
    <3>1. fieldQ[f] \in Seq(Messages)
      BY <1>4
    <3> QED BY <1>1, <2>2, <3>1, AppendProperties, LenProperties
  <2> QED BY <1>0, <1>4, <2>1, <2>2
<1>6. FlowTypeOK'
  <2>1. fieldQ' \in [Fields -> Seq(Messages)]
    BY <1>0, <1>4, <1>5
  <2> QED BY <1>0, <1>1, <2>1 DEF FlowTypeOK
<1>7. MovesOwned'
  BY <1>0, <1>1, <1>5 DEF MovesOwned
<1>8. SkillAfterEntry'
  <2>1. ASSUME NEW f \in Fields, f = fieldId[m.s] PROVE \E i \in players[f] : owner[i] = m.s
    <3>1. state[m.s] = "InField"
      BY <1>1, <2>1, NoneApart DEF Located
    <3> QED BY <1>1, <2>1, <3>1 DEF InFieldHasPlayer
  <2> QED BY <1>0, <1>5, <2>1 DEF SkillAfterEntry
<1> QED BY <1>2, <1>3, <1>6, <1>7, <1>8

-----------------------------------------------------------------------------
(* The fields. *)

LEMMA TakeIInv ==
    ASSUME IInv, NEW f \in Fields, Take(f)
    PROVE  IInv'
<1> USE DEF IInv, session, registry, world, motion
<1>0. /\ fieldQ[f] # <<>> /\ hand' = [hand EXCEPT ![f] = Head(fieldQ[f])]
      /\ fieldQ' = [fieldQ EXCEPT ![f] = Tail(@)]
      /\ UNCHANGED <<session, registry, gameQ, entering, world, motion, reads>>
  BY DEF Take
<1>1. fieldQ \in [Fields -> Seq(Messages)] /\ hand \in [Fields -> Messages \cup {None}]
  BY DEF FlowTypeOK
<1>2. /\ fieldQ[f] \in Seq(Messages) /\ Len(fieldQ[f]) \in Nat \ {0}
      /\ Tail(fieldQ[f]) \in Seq(Messages) /\ Len(Tail(fieldQ[f])) = Len(fieldQ[f]) - 1
      /\ \A k \in 1..Len(Tail(fieldQ[f])) : Tail(fieldQ[f])[k] = fieldQ[f][k + 1]
      /\ Head(fieldQ[f]) = fieldQ[f][1] /\ fieldQ[f][1] \in Messages
  BY <1>0, <1>1, HeadTailProperties, EmptySeq, LenProperties, ElementOfSeq
<1>3. /\ \A g \in Fields : fieldQ'[g] = IF g = f THEN Tail(fieldQ[f]) ELSE fieldQ[g]
      /\ \A g \in Fields : hand'[g] = IF g = f THEN Head(fieldQ[f]) ELSE hand[g]
  BY <1>0, <1>1
<1>4. FlowTypeOK'
  BY <1>0, <1>1, <1>2 DEF FlowTypeOK
<1>5. ASSUME NEW g \in Fields, NEW k \in 1..Len(fieldQ'[g])
      PROVE  \E l \in 1..Len(fieldQ[g]) : fieldQ'[g][k] = fieldQ[g][l]
  <2>1. CASE g = f
    <3>1. k \in 1..Len(Tail(fieldQ[f])) /\ fieldQ'[g][k] = fieldQ[f][k + 1]
      BY <1>2, <1>3, <2>1
    <3>2. k + 1 \in 1..Len(fieldQ[f])
      BY <1>2, <3>1
    <3> QED BY <2>1, <3>1, <3>2
  <2>2. CASE g # f
    BY <1>3, <2>2
  <2> QED BY <2>1, <2>2
<1>6. MovesOwned'
  <2>1. 1 \in 1..Len(fieldQ[f])
    BY <1>2
  <2> QED BY <1>0, <1>2, <1>3, <1>5, <2>1 DEF MovesOwned
<1>7. SkillAfterEntry'
  BY <1>0, <1>5 DEF SkillAfterEntry
<1>8. /\ Registered' /\ Carries' /\ Located' /\ Entering' /\ Inside' /\ Bound' /\ InFieldHasPlayer'
      /\ Heard'
  BY <1>0 DEF Registered, Carries, Located, Entering, Inside, Bound, InFieldHasPlayer, Heard, Logins
<1> QED BY <1>4, <1>6, <1>7, <1>8

\* A move that is accepted is of the player of its session.
LEMMA HandleIInv ==
    ASSUME IInv, NEW f \in Fields, Handle(f)
    PROVE  /\ IInv'
           /\ \A i \in Ids : moving'[i] /\ ~moving[i] => hand[f] # None /\ hand[f].s = owner[i]
<1> USE DEF IInv, session, registry, world
<1>0. /\ hand[f] # None /\ hand' = [hand EXCEPT ![f] = None]
      /\ \/ /\ Accepts(f, hand[f])
            /\ \E go \in BOOLEAN : moving' = [moving EXCEPT ![hand[f].arg] = go]
            /\ input' = [input EXCEPT ![hand[f].arg] = [by |-> f, age |-> 0]]
         \/ moving' = moving /\ input' = input
      /\ UNCHANGED <<session, registry, gameQ, entering, world, fieldQ, reads>>
  BY DEF Handle, motion
<1>1. hand[f] \in Messages
  BY <1>0 DEF FlowTypeOK
<1>2. FlowTypeOK'
  <2>1. moving' \in [Ids -> BOOLEAN]
    BY <1>0 DEF FlowTypeOK
  <2>2. 0 \in 0..MaxAge
    BY FlowAssumption
  <2>3. input' \in [Ids -> [by: Fields \cup {None}, age: 0..MaxAge]]
    <3>1. [by |-> f, age |-> 0] \in [by: Fields \cup {None}, age: 0..MaxAge]
      BY <2>2
    <3> QED BY <1>0, <3>1 DEF FlowTypeOK
  <2> QED BY <1>0, <2>1, <2>3 DEF FlowTypeOK
<1>3. MovesOwned'
  BY <1>0 DEF MovesOwned, FlowTypeOK
<1>4. /\ Registered' /\ Carries' /\ Located' /\ Entering' /\ Inside' /\ Bound' /\ InFieldHasPlayer'
      /\ Heard' /\ SkillAfterEntry'
  BY <1>0 DEF Registered, Carries, Located, Entering, Inside, Bound, InFieldHasPlayer, Heard, Logins,
              SkillAfterEntry
<1>5. ASSUME NEW i \in Ids, moving'[i], ~moving[i] PROVE hand[f].s = owner[i]
  <2>1. Accepts(f, hand[f]) /\ i = hand[f].arg
    BY <1>0, <1>5 DEF FlowTypeOK
  <2>2. hand[f].s \in Sessions /\ mine[hand[f].s] # None
    BY <1>0, <1>1, <2>1, MessageParts DEF Accepts, MovesOwned
  <2> QED BY <2>1, <2>2 DEF Accepts, Carries
<1> QED BY <1>0, <1>2, <1>3, <1>4, <1>5

\* The tick only stops.
LEMMA TickPlayersIInv ==
    ASSUME IInv, NEW f \in Fields, TickPlayers(f)
    PROVE  /\ IInv'
           /\ \A i \in Ids : moving'[i] => moving[i]
<1> USE DEF IInv, session, registry, world
<1>0. UNCHANGED <<session, registry, gameQ, entering, world, fieldQ, hand, reads>>
  BY DEF TickPlayers
<1>1. moving' \in [Ids -> BOOLEAN] /\ \A i \in Ids : moving'[i] => moving[i]
  <2>1. PICK late \in SUBSET Foreign(f) :
          moving' = [i \in Ids |-> moving[i] /\ ~(i \in late \/ (i \in players[f] /\ Over(f, i)))]
    BY DEF TickPlayers
  <2>2. \A i \in Ids : moving[i] \in BOOLEAN
    BY DEF FlowTypeOK
  <2>3. \A i \in Ids : moving'[i] = (moving[i] /\ ~(i \in late \/ (i \in players[f] /\ Over(f, i))))
    BY <2>1, Zenon
  <2>4. \A i \in Ids : (moving[i] /\ ~(i \in late \/ (i \in players[f] /\ Over(f, i)))) \in BOOLEAN
    OBVIOUS
  <2>5. moving' \in [Ids -> BOOLEAN]
    BY <2>1, <2>4, Zenon
  <2>6. \A i \in Ids : moving'[i] => moving[i]
    BY <2>3, Zenon
  <2> QED BY <2>5, <2>6
<1>2. input' \in [Ids -> [by: Fields \cup {None}, age: 0..MaxAge]]
  <2>1. input' = [i \in Ids |->
          IF i \in players[f] /\ moving[i] /\ input[i].by = f /\ input[i].age < MaxAge
          THEN [input[i] EXCEPT !.age = @ + 1] ELSE input[i]]
    BY DEF TickPlayers
  <2>2. ASSUME NEW i \in Ids PROVE input'[i] \in [by: Fields \cup {None}, age: 0..MaxAge]
    <3>1. input[i] \in [by: Fields \cup {None}, age: 0..MaxAge]
      BY DEF FlowTypeOK
    <3>2. ASSUME input[i].age < MaxAge
          PROVE  [input[i] EXCEPT !.age = @ + 1] \in [by: Fields \cup {None}, age: 0..MaxAge]
      <4>1. input[i].age + 1 \in 0..MaxAge
        BY <3>1, <3>2, FlowAssumption
      <4> QED BY <3>1, <4>1
    <3> QED BY <2>1, <3>1, <3>2
  <2> QED BY <2>1, <2>2
<1>3. FlowTypeOK'
  BY <1>0, <1>1, <1>2 DEF FlowTypeOK
<1>4. /\ Registered' /\ Carries' /\ Located' /\ Entering' /\ Inside' /\ Bound' /\ InFieldHasPlayer'
      /\ Heard' /\ SkillAfterEntry' /\ MovesOwned'
  BY <1>0 DEF Registered, Carries, Located, Entering, Inside, Bound, InFieldHasPlayer, Heard, Logins,
              SkillAfterEntry, MovesOwned
<1> QED BY <1>1, <1>3, <1>4

-----------------------------------------------------------------------------
\* Every step keeps the invariant, and sets off only players of the session
\* whose message a field is handling.
LEMMA NextIInv ==
    ASSUME IInv, [Next]_vars
    PROVE  /\ IInv'
           /\ \A i \in Ids : ~moving[i] /\ moving'[i] =>
                 \E f \in Fields : hand[f] # None /\ hand[f].s = owner[i]
<1>1. CASE UNCHANGED vars
  <2> USE <1>1 DEF vars, session, registry, world, motion, IInv
  <2>1. FlowTypeOK'
    BY DEF FlowTypeOK
  <2>2. /\ Registered' /\ Carries' /\ Located' /\ Entering' /\ Inside' /\ Bound' /\ Heard'
        /\ InFieldHasPlayer' /\ SkillAfterEntry' /\ MovesOwned'
    BY DEF Registered, Carries, Located, Entering, Inside, Bound, InFieldHasPlayer, Heard, Logins,
           SkillAfterEntry, MovesOwned
  <2> QED BY <2>1, <2>2
<1>2. ASSUME NEW s \in Sessions, Accept(s) \/ Close(s) \/ Closed(s) \/ Read(s)
      PROVE  IInv' /\ moving' = moving
  <2>1. IInv'
    BY <1>2, AcceptIInv, CloseIInv, ClosedIInv, ReadIInv
  <2> QED BY <1>2, <2>1 DEF Accept, Close, Closed, Read, motion
<1>3. CASE GameStep
  <2>1. IInv'
    BY <1>3, OnRecvLoginIInv, OnRecvEnterFieldIInv, AddPlayerIInv, OnRecvSkillCmdIInv DEF GameStep
  <2>2. moving' = moving
    BY <1>3 DEF GameStep, OnRecvLogin, OnRecvEnterField, AddPlayer, OnRecvSkillCmd, motion
  <2> QED BY <2>1, <2>2
<1>4. ASSUME NEW f \in Fields, Take(f) PROVE IInv' /\ moving' = moving
  BY <1>4, TakeIInv DEF Take, motion
<1>5. ASSUME NEW f \in Fields, Handle(f) \/ TickPlayers(f)
      PROVE  /\ IInv'
             /\ \A i \in Ids : ~moving[i] /\ moving'[i] => hand[f] # None /\ hand[f].s = owner[i]
  BY <1>5, HandleIInv, TickPlayersIInv
<1> QED BY <1>1, <1>2, <1>3, <1>4, <1>5 DEF Next, FieldStep

\* The invariant of the reachable states of the message flow.
THEOREM Inductive == Spec => []IInv
<1>1. IInv /\ [Next]_vars => IInv'
  BY NextIInv
<1> QED BY InitIInv, <1>1, PTL DEF Spec

\* The types, and that the two maps of the PlayerManager fit, also when a
\* session logs in again and again.
THEOREM Types == Spec => []FlowTypeOK
<1>1. IInv => FlowTypeOK
  BY DEF IInv
<1> QED BY Inductive, <1>1, PTL

\* A session whose packets are routed to a field has a player there, once
\* OnRecv_EnterField is through.
THEOREM NobodyStranded == Spec => []InFieldHasPlayer
<1>1. IInv => InFieldHasPlayer
  BY DEF IInv
<1> QED BY Inductive, <1>1, PTL

\* The players in a field of a connection that lives are found by their id.
THEOREM EventsReach == Spec => []Reachable
<1>1. IInv => Reachable
  BY DEF IInv, Reachable, Bound, Inside, FlowTypeOK
<1> QED BY Inductive, <1>1, PTL

\* No skill waits in a field its session has no player in.
THEOREM SkillsInTime == Spec => []SkillAfterEntry
<1>1. IInv => SkillAfterEntry
  BY DEF IInv
<1> QED BY Inductive, <1>1, PTL

\* A player sets off on a message of its own session only, though a session
\* carries the id Anon before its login and a client may name any player.
THEOREM InputOfItsOwn == Spec => OwnPlayerOnly
<1>1. IInv /\ [Next]_vars
      => [\A i \in Ids : ~moving[i] /\ moving'[i] =>
            \E f \in Fields : hand[f] # None /\ hand[f].s = owner[i]]_vars
  BY NextIInv
<1> QED BY Inductive, <1>1, PTL DEF Spec, OwnPlayerOnly

=============================================================================
