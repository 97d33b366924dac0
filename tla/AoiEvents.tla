----------------------------- MODULE AoiEvents -----------------------------
(***************************************************************************)
(* The grid with a record of the events of its last operation, by kind.    *)
(* `sent' is a history variable: no operation reads it.  It is there so    *)
(* that what goes out can be compared with what has to go out (Visible);   *)
(* the sum of all events, which AoiWorld keeps in `shown', cannot tell an  *)
(* Enter from a Move or an event from its repetition.                      *)
(***************************************************************************)
EXTENDS AoiWorld

VARIABLE sent   \* the pairs <<watcher, subject>> of each kind of event

eventVars == <<pos, subscribed, occupied, watched, shown, sent>>

\* Enter and Snapshot are one kind: both become an Enter packet.
Sending(enters, moves, leaves) ==
    [entered |-> enters, moved |-> moves, left |-> leaves]

AddSends(i, p) == AddEntity(i, p) /\ sent' = Sending(AddTold(i, p), {}, {})

RemoveSends(i) == RemoveEntity(i) /\ sent' = Sending({}, {}, RemoveLeft(i))

MoveSends(i, p) ==
    /\ MoveEntity(i, p)
    /\ sent' = Sending(MoveEntered(i, p), MoveMoved(i, p), MoveLeft(i, p))

UpdateSends(i) ==
    LET view == View(SectorOf(pos[i])) IN
    /\ UpdatePlayerAoi(i)
    /\ sent' = Sending(Snapshots(i, view \ subscribed[i], pos, occupied), {},
                       GivenUp(i, subscribed[i] \ view, view, pos, occupied))

EventInit == Init /\ sent = Sending({}, {}, {})

EventNext ==
    \E i \in Id :
        \/ pos[i] = Absent /\ \E p \in Positions : AddSends(i, p)
        \/ RemoveSends(i)
        \/ \E p \in Positions : MoveSends(i, p)
        \/ UpdateSends(i)

EventSpec == EventInit /\ [][EventNext]_eventVars

-----------------------------------------------------------------------------
\* Every operation sends what the change of everybody's view calls for and
\* nothing else: an Enter or Snapshot to exactly the players that the subject
\* comes into view of, a Leave to exactly those it goes out of view of, a Move
\* to everybody that sees the mover where it arrives, and to the mover.  The
\* code never looks at a view to decide that: it subtracts the watcher sets of
\* two sectors, and the subscriptions before and after a rebuild.
Visibility == INSTANCE AoiVisibility WITH where <- pos

Visible == Visibility!Spec
=============================================================================
