---------------------------- MODULE AoiVisibility ----------------------------
(***************************************************************************)
(* What the area of interest promises, without sectors, watcher sets or    *)
(* subscriptions: entities appear, move and disappear, and each time every *)
(* player is sent what changes for it and no more.  AoiEvents implements   *)
(* this specification (property Visible there).                            *)
(***************************************************************************)
CONSTANTS
    Players, Id, Positions, Absent,
    InView(_, _)   \* InView(p, q): a player at p sees an entity at q

VARIABLES
    where,   \* where each entity is, Absent if it is not in the field
    sent     \* the pairs <<player, entity>> of each kind of event just sent

\* Who sees whom when everybody is where `at' says.
Sight(at) ==
    { s \in Players \X Id :
        /\ s[1] # s[2]
        /\ at[s[1]] # Absent
        /\ at[s[2]] # Absent
        /\ InView(at[s[1]], at[s[2]]) }

Nothing == [entered |-> {}, moved |-> {}, left |-> {}]

Init ==
    /\ where = [i \in Id |-> Absent]
    /\ sent = Nothing

\* Those who see i and those i sees are told of each other.
Appear(i, p) ==
    /\ where[i] = Absent
    /\ where' = [where EXCEPT ![i] = p]
    /\ sent' = [Nothing EXCEPT !.entered = Sight(where') \ Sight(where)]

\* Those who saw i are told; i itself is gone.
Disappear(i) ==
    /\ where[i] # Absent
    /\ where' = [where EXCEPT ![i] = Absent]
    /\ sent' = [Nothing EXCEPT !.left = { s \in Sight(where) : s[2] = i }]

\* Sights gained, sights lost, and the new position for all who now see i.
Move(i, p) ==
    /\ where[i] # Absent
    /\ where' = [where EXCEPT ![i] = p]
    /\ sent' = [entered |-> Sight(where') \ Sight(where),
                moved   |-> { s \in Sight(where') \cup {<<w, w>> : w \in Players} :
                                s[2] = i },
                left    |-> Sight(where) \ Sight(where')]

\* A refresh has nothing to say.
Refresh ==
    /\ sent' = Nothing
    /\ UNCHANGED where

Next ==
    \/ Refresh
    \/ \E i \in Id :
          \/ Disappear(i)
          \/ \E p \in Positions : Appear(i, p) \/ Move(i, p)

Spec == Init /\ [][Next]_<<where, sent>>
=============================================================================
