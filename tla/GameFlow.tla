------------------------------ MODULE GameFlow ------------------------------
(***************************************************************************)
(* The way of a client's messages: the uv thread reads and routes them     *)
(* (net/session.cpp, tcp_server.cpp), the GameWorker thread logs players   *)
(* in and lets them into fields (core/handlers), the thread of each        *)
(* FieldWorker handles their input (worker/fieldWorker.cpp), and the tick  *)
(* of the field stops the players whose input has dried up.                *)
(*                                                                         *)
(*  client --> uv thread --gameQ--> GameWorker --fieldQ--> FieldWorker     *)
(*                  \-----------------fieldQ-------------------^           *)
(*                                                                         *)
(* Abstractions.                                                           *)
(*  - A client may send anything that some handler acts on, at any time.   *)
(*    Packets that change nothing wherever they end up (pings, unknown     *)
(*    types, a login without a user or a token) are left out; so are the   *)
(*    bytes: framing and sending are in Transport.                         *)
(*  - A game worker whose owner hands every envelope to Dispatcher (the    *)
(*    code that sets this callback is external).                           *)
(*  - A handler is one step, except OnRecv_EnterField, which shows the     *)
(*    session in its new state before the player is in the field.          *)
(*  - Where a player is, and what skills do, is in FieldWorker and         *)
(*    MonsterAI.                                                           *)
(***************************************************************************)
EXTENDS Integers, Sequences, FiniteSets

CONSTANTS
    Sessions,
    Fields,      \* field ids, none of them 0
    Wanted,      \* Wanted[s]: the fields the client of s asks for
    None,        \* null, and the field id 0
    Anon,        \* the player id of a session before its login (4 in the code)
    Loads,       \* bound: for a load in Loads, load[s] packets of session s
                 \* at most have an effect
    MaxPlayers,  \* bound: logins among them
    MaxAge       \* the 0.5 s after which an input is over, in ticks

ASSUME FlowAssumption ==
    /\ Anon \in Nat \ {0} /\ Loads \subseteq [Sessions -> Nat] /\ MaxPlayers \in Nat /\ MaxAge \in Nat \ {0}
    /\ Wanted \in [Sessions -> SUBSET Fields]
    /\ None \notin Sessions \cup Fields \cup Nat

Ids == 1..MaxPlayers    \* next_player_id hands out no id twice

VARIABLES
    conn,       \* conn[s]: the connection: "new", "open", "closing" or "closed"
    state,      \* Session::state_
    fieldId,    \* Session::fieldId_
    playerId,   \* Session::player_id_
    bound,      \* SessionManager: sessions_by_player_id_
    owner,      \* PlayerManager: playersById_, as the session of each player
    mine,       \* PlayerManager: idBySession_
    nextId,     \* of next_player_id
    gameQ,      \* queue_ of the GameWorker
    entering,   \* OnRecv_EnterField between set_state and the end of add_player
    storage,    \* FieldManager::storage_ was set
    fields,     \* FieldManager::fields_
    fieldQ,     \* fieldQ[f]: queue_ of the FieldWorker
    hand,       \* hand[f]: the message its thread is handling
    players,    \* players[f]: players_
    moving,     \* moving[i]: Player::move_state().moving
    input,      \* input[i]: lastInputTime, as the field whose clock it is on and its age
    reads

session == <<conn, state, fieldId, playerId>>
registry == <<bound, owner, mine, nextId>>
world == <<storage, fields, players>>
motion == <<moving, input>>
vars == <<session, registry, gameQ, entering, world, fieldQ, hand, motion, reads>>

-----------------------------------------------------------------------------
(* The uv thread. *)

\* on_new_conn.
Accept(s) ==
    /\ conn[s] = "new"
    /\ conn' = [conn EXCEPT ![s] = "open"]
    /\ playerId' = [playerId EXCEPT ![s] = Anon]
    /\ UNCHANGED <<state, fieldId, registry, gameQ, entering, world, fieldQ, hand, motion,
                   reads>>

\* on_read with an error or at the end of the stream.
Close(s) ==
    /\ conn[s] = "open"
    /\ conn' = [conn EXCEPT ![s] = "closing"]
    /\ UNCHANGED <<state, fieldId, playerId, registry, gameQ, entering, world, fieldQ, hand,
                   motion, reads>>

\* Fault: the player id of the session is unbound.
UnboundById(s) == [i \in Ids |-> IF i = playerId[s] THEN None ELSE bound[i]]

\* remove_session: every player bound to the session is unbound.
Unbound(s) == [i \in Ids |-> IF bound[i] = s THEN None ELSE bound[i]]

\* close_cb: on_closed, the callback on_new_conn has set.  Nobody tells the
\* PlayerManager or the field.
Closed(s) ==
    /\ conn[s] = "closing"
    /\ conn' = [conn EXCEPT ![s] = "closed"]
    /\ bound' = Unbound(s)
    /\ UNCHANGED <<state, fieldId, playerId, owner, mine, nextId, gameQ, entering, world,
                   fieldQ, hand, motion, reads>>

ToGame(m) == gameQ' = Append(gameQ, m) /\ UNCHANGED fieldQ

\* SendToFieldWorker; without the field the message is dropped.
ToField(f, m) ==
    IF f \in fields THEN fieldQ' = [fieldQ EXCEPT ![f] = Append(@, m)] ELSE UNCHANGED fieldQ

\* Fault: skills of a player in a field go to the field directly.
RouteSkillsToField(s, m) ==
    IF state[s] = "InField" THEN m.kind \in {"Skill", "Move"}
                                 /\ ToField(fieldId[s], m) /\ UNCHANGED gameQ
    ELSE m.kind \in {"Login", "EnterField", "Skill"} /\ ToGame(m)

\* on_read: in a field, skill envelopes go to the game worker and field
\* commands to the field; else game envelopes go to the game worker.  What
\* else there is has no effect, though a game envelope passes IsFieldCmd.
Route(s, m) ==
    \/ m.kind = "Skill" /\ ToGame(m)
    \/ state[s] = "InField" /\ m.kind = "Move"
          /\ ToField(fieldId[s], m) /\ UNCHANGED gameQ
    \/ state[s] # "InField" /\ m.kind \in {"Login", "EnterField"} /\ ToGame(m)

\* What a client may send: moves of any player there is.
Packets(s) ==
    [s: {s}, kind: {"Login", "Skill"}, arg: {None}]
        \cup [s: {s}, kind: {"EnterField"}, arg: Wanted[s]]
        \cup [s: {s}, kind: {"Move"}, arg: Ids]

\* The players there will be.
Logins == nextId - 1 + Cardinality({ k \in 1..Len(gameQ) : gameQ[k].kind = "Login" })

Read(s) ==
    /\ conn[s] = "open"
    /\ reads' = [reads EXCEPT ![s] = @ + 1]
    /\ \E load \in Loads : \A t \in Sessions : reads'[t] <= load[t]
    /\ \E m \in Packets(s) :
          /\ m.kind = "Login" => Logins < MaxPlayers
          /\ m.kind = "Move" => m.arg < nextId
          /\ Route(s, m)
    /\ UNCHANGED <<session, registry, entering, world, hand, motion>>

-----------------------------------------------------------------------------
(* The GameWorker: it takes the first message and dispatches it.            *)

Dispatch(kind) ==
    /\ entering = None
    /\ gameQ # <<>> /\ Head(gameQ).kind = kind
    /\ gameQ' = Tail(gameQ)

\* Fault: the id the session has is used, unless it is 0.
NewIdUnlessSet(s) == playerId[s]

\* next_player_id, whatever id the session has.
NewId(s) == nextId

\* OnRecv_Login: a new player for the session, whether it has one or not and
\* whether it is still open or not.  Nothing sets SessionState::LoggedIn.
OnRecvLogin ==
    /\ Dispatch("Login")
    /\ LET s == Head(gameQ).s
           i == NewId(s)
       IN  /\ owner' = [owner EXCEPT ![i] = s]
           /\ mine' = [mine EXCEPT ![s] = i]
           /\ playerId' = [playerId EXCEPT ![s] = i]
           /\ bound' = [bound EXCEPT ![i] = s]
    /\ nextId' = nextId + 1
    /\ UNCHANGED <<conn, state, fieldId, entering, world, fieldQ, hand, motion, reads>>

\* Fault: the player is looked up by the id of the session.
PlayerById(s) == IF playerId[s] < nextId THEN playerId[s] ELSE None

\* VERIFY_FBS_REQ_BY_USER: get_by_session.
PlayerOf(s) == mine[s]

\* create_field: an existing field, or a new one if the storage is known.
CanCreate(f) == f \in fields \/ storage

\* Fault: the state is set before the field is there.
EnterUnchecked(s, f) ==
    /\ PlayerOf(s) # None
    /\ fields' = IF CanCreate(f) THEN fields \cup {f} ELSE fields
    /\ fieldId' = [fieldId EXCEPT ![s] = f]
    /\ state' = [state EXCEPT ![s] = "InField"]
    /\ entering' = IF CanCreate(f) THEN [s |-> s, field |-> f, id |-> PlayerOf(s)] ELSE None

\* OnRecv_EnterField up to the ack.
Enter(s, f) ==
    /\ PlayerOf(s) # None /\ CanCreate(f)
    /\ fields' = fields \cup {f}
    /\ fieldId' = [fieldId EXCEPT ![s] = f]
    /\ state' = [state EXCEPT ![s] = "InField"]
    /\ entering' = [s |-> s, field |-> f, id |-> PlayerOf(s)]

OnRecvEnterField ==
    /\ Dispatch("EnterField")
    /\ LET m == Head(gameQ)
       IN  \/ Enter(m.s, m.arg)
           \/ /\ PlayerOf(m.s) = None \/ ~CanCreate(m.arg)
              /\ UNCHANGED <<fields, fieldId, state, entering>>
    /\ UNCHANGED <<conn, playerId, registry, storage, players, fieldQ, hand, motion, reads>>

\* add_player, on this thread.
AddPlayer ==
    /\ entering # None
    /\ players' = [players EXCEPT ![entering.field] = @ \cup {entering.id}]
    /\ entering' = None
    /\ UNCHANGED <<session, registry, gameQ, storage, fields, fieldQ, hand, motion, reads>>

\* OnRecv_SkillCmd: an error ack before the first field, else on to the field.
OnRecvSkillCmd ==
    /\ Dispatch("Skill")
    /\ LET m == Head(gameQ) IN ToField(fieldId[m.s], m)
    /\ UNCHANGED <<session, registry, entering, world, hand, motion, reads>>

-----------------------------------------------------------------------------
(* The thread of a FieldWorker. *)

Take(f) ==
    /\ hand[f] = None /\ fieldQ[f] # <<>>
    /\ hand' = [hand EXCEPT ![f] = Head(fieldQ[f])]
    /\ fieldQ' = [fieldQ EXCEPT ![f] = Tail(@)]
    /\ UNCHANGED <<session, registry, gameQ, entering, world, motion, reads>>

\* Fault: nobody compares the player with that of the session.
AcceptsAny(f, m) == m.kind = "Move" /\ m.arg \in players[f]

\* on_client_move_input takes a Move of its player, in this field.
Accepts(f, m) ==
    m.kind = "Move" /\ playerId[m.s] = m.arg /\ m.arg \in players[f]

\* handle_message: the player sets off, goes on, or stops if the direction is
\* null.  A skill is up to the monsters.
Handle(f) ==
    /\ hand[f] # None
    /\ IF Accepts(f, hand[f])
       THEN /\ \E go \in BOOLEAN : moving' = [moving EXCEPT ![hand[f].arg] = go]
            /\ input' = [input EXCEPT ![hand[f].arg] = [by |-> f, age |-> 0]]
       ELSE UNCHANGED motion
    /\ hand' = [hand EXCEPT ![f] = None]
    /\ UNCHANGED <<session, registry, gameQ, entering, world, fieldQ, reads>>

-----------------------------------------------------------------------------
(* The tick. *)

\* Fault: no input is ever over.
Never(f, i) == FALSE

\* The last input of the player is over.
Over(f, i) == input[i].by = f /\ input[i].age >= MaxAge

\* A player that has entered a second field is ticked by both, and the clock
\* of one says nothing to the other: it may stop the player or not.
Foreign(f) == { i \in players[f] : moving[i] /\ input[i].by # f }

\* tick_players.
TickPlayers(f) ==
    /\ f \in fields
    /\ \E late \in SUBSET Foreign(f) :
          moving' = [i \in Ids |->
              moving[i] /\ ~(i \in late \/ (i \in players[f] /\ Over(f, i)))]
    /\ input' = [i \in Ids |->
          IF i \in players[f] /\ moving[i] /\ input[i].by = f /\ input[i].age < MaxAge
          THEN [input[i] EXCEPT !.age = @ + 1] ELSE input[i]]
    /\ UNCHANGED <<session, registry, gameQ, entering, world, fieldQ, hand, reads>>

-----------------------------------------------------------------------------
Init ==
    /\ conn = [s \in Sessions |-> "new"]
    /\ state = [s \in Sessions |-> "Connected"]
    /\ fieldId = [s \in Sessions |-> None]
    /\ playerId = [s \in Sessions |-> 0]
    /\ bound = [i \in Ids |-> None]
    /\ owner = [i \in Ids |-> None]
    /\ mine = [s \in Sessions |-> None]
    /\ nextId = 1
    /\ gameQ = <<>> /\ entering = None
    /\ storage \in BOOLEAN    \* the owner calls set_storage first, or forgets it
    /\ fields = {}
    /\ fieldQ = [f \in Fields |-> <<>>] /\ hand = [f \in Fields |-> None]
    /\ players = [f \in Fields |-> {}]
    /\ moving = [i \in Ids |-> FALSE]
    /\ input = [i \in Ids |-> [by |-> None, age |-> 0]]
    /\ reads = [s \in Sessions |-> 0]

GameStep == OnRecvLogin \/ OnRecvEnterField \/ AddPlayer \/ OnRecvSkillCmd
FieldStep(f) == Take(f) \/ Handle(f)

Next ==
    \/ \E s \in Sessions : Accept(s) \/ Close(s) \/ Closed(s) \/ Read(s)
    \/ GameStep
    \/ \E f \in Fields : FieldStep(f) \/ TickPlayers(f)

Spec == Init /\ [][Next]_vars

\* The workers handle what they are given, the server ticks its fields, and
\* the uv loop calls close_cb.
FairSpec ==
    /\ Spec
    /\ WF_vars(GameStep)
    /\ \A f \in Fields : WF_vars(FieldStep(f)) /\ WF_vars(TickPlayers(f))
    /\ \A s \in Sessions : WF_vars(Closed(s))

-----------------------------------------------------------------------------
(* Properties. *)

Messages == UNION { Packets(s) : s \in Sessions }
Hands == [s: Sessions, field: Fields, id: Ids]

\* Null is neither a message nor a player on its way into a field.
ASSUME NullAssumption == None \notin Messages \cup Hands

\* The types, and the two maps of the PlayerManager fit: the player of a
\* session is that session's, also when a session logs in again.
FlowTypeOK ==
    /\ conn \in [Sessions -> {"new", "open", "closing", "closed"}]
    /\ state \in [Sessions -> {"Connected", "InField"}]
    /\ fieldId \in [Sessions -> Fields \cup {None}]
    /\ playerId \in [Sessions -> Ids \cup {0, Anon}]
    /\ bound \in [Ids -> Sessions \cup {None}] /\ owner \in [Ids -> Sessions \cup {None}]
    /\ mine \in [Sessions -> Ids \cup {None}]
    /\ \A s \in Sessions : mine[s] # None => owner[mine[s]] = s
    /\ nextId \in 1..(MaxPlayers + 1)
    /\ reads \in [Sessions -> Nat]
    /\ gameQ \in Seq(Messages) /\ fieldQ \in [Fields -> Seq(Messages)]
    /\ hand \in [Fields -> Messages \cup {None}]
    /\ entering \in Hands \cup {None}
    /\ storage \in BOOLEAN /\ fields \subseteq Fields
    /\ players \in [Fields -> SUBSET Ids] /\ \A f \in Fields \ fields : players[f] = {}
    /\ moving \in [Ids -> BOOLEAN]
    /\ input \in [Ids -> [by: Fields \cup {None}, age: 0..MaxAge]]

\* Input goes to its own player only: a player sets off on a message of the
\* session it belongs to.  A session that has not logged in carries an id that
\* a player may have, and a client may name any player.
OwnPlayerOnly ==
    [][\A i \in Ids : ~moving[i] /\ moving'[i] =>
          \E f \in Fields : hand[f] # None /\ hand[f].s = owner[i]]_vars

\* A session in the state InField, whose packets are routed to the field, has
\* a player there, once OnRecv_EnterField is through: no early return of the
\* handler strands it.
InFieldHasPlayer ==
    \A s \in Sessions :
        state[s] = "InField" /\ (entering = None \/ entering.s # s) =>
            \E i \in players[fieldId[s]] : owner[i] = s

\* Whoever is in a field and whose connection lives is found by
\* find_by_player_id, through which every event of the field is sent: no end
\* of another session unbinds it.
Reachable ==
    \A f \in Fields : \A i \in players[f] :
        conn[owner[i]] \in {"open", "closing"} => bound[i] = owner[i]

\* Skills take the long way round, through the game worker, and are never
\* early: the field that gets one has a player of the session.  (Moves take the
\* short way, and can be.)
SkillAfterEntry ==
    \A f \in Fields : \A k \in 1..Len(fieldQ[f]) :
        fieldQ[f][k].kind = "Skill" => \E i \in players[f] : owner[i] = fieldQ[f][k].s

\* The players of a connection that is gone come to rest, though they stay in
\* the field: whatever input is still on its way, it ends, and the tick stops
\* them for good.
ClosedRests ==
    \A s \in Sessions :
        <>[](conn[s] = "closed" => \A i \in Ids : owner[i] = s => ~moving[i])

\* README.md l. 116-120: a FieldWorker thread per field, and "game logic is
\* handled by the worker thread only".  No other thread is in the players of a
\* field while its thread handles a message.
FieldExclusive == entering # None => hand[entering.field] = None

=============================================================================
