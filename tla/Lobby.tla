------------------------------- MODULE Lobby -------------------------------
(***************************************************************************)
(* What InstantMeet promises about who is in a meeting, without handlers,   *)
(* locks, snapshots or sockets.  A meeting is opened once by its owner; a   *)
(* guest knocks, waits, and is let in by the owner or turned away; the      *)
(* owner walks in directly; a closed meeting holds nobody and its id never  *)
(* opens again.  MeetingApi is shown to implement this module.              *)
(***************************************************************************)
EXTENDS Integers, FiniteSets

CONSTANTS
    User,       \* the authenticated users
    Id,         \* the meeting ids
    Capacity,   \* people inside plus people waiting, per meeting
    NoUser      \* the owner of an id that is not open

VARIABLES
    owner,      \* owner[id]: who opened the meeting, NoUser when not open
    place,      \* place[id][u]: where u stands with respect to the meeting
    used        \* the ids opened so far

vars == <<owner, place, used>>

Place == {"outside", "waiting", "inside"}

Nobody == [u \in User |-> "outside"]

Seats(id) == {u \in User : place[id][u] # "outside"}

IsOpen(id) == owner[id] # NoUser

Init ==
    /\ owner = [id \in Id |-> NoUser]
    /\ place = [id \in Id |-> Nobody]
    /\ used = {}

Open(id, u) ==
    /\ id \notin used
    /\ owner' = [owner EXCEPT ![id] = u]
    /\ used' = used \cup {id}
    /\ UNCHANGED place

\* u moves from one of the places in `from` to `to`.
Move(id, u, from, to) ==
    /\ IsOpen(id)
    /\ place[id][u] \in from
    /\ place' = [place EXCEPT ![id][u] = to]
    /\ UNCHANGED <<owner, used>>

Knock(id, u) ==
    /\ u # owner[id]
    /\ Cardinality(Seats(id)) < Capacity
    /\ Move(id, u, {"outside"}, "waiting")

Enter(id, u) ==
    /\ u = owner[id]
    /\ Cardinality(Seats(id)) < Capacity
    /\ Move(id, u, {"outside"}, "inside")

Admit(id, u)  == Move(id, u, {"waiting"}, "inside")

Depart(id, u) == Move(id, u, {"waiting", "inside"}, "outside")

Close(id) ==
    /\ IsOpen(id)
    /\ owner' = [owner EXCEPT ![id] = NoUser]
    /\ place' = [place EXCEPT ![id] = Nobody]
    /\ UNCHANGED used

Next ==
    \E id \in Id :
        \/ Close(id)
        \/ \E u \in User :
            \/ Open(id, u)
            \/ Knock(id, u)
            \/ Enter(id, u)
            \/ Admit(id, u)
            \/ Depart(id, u)

Spec == Init /\ [][Next]_vars
=============================================================================
