------------------------------ MODULE Channel ------------------------------
(***************************************************************************)
(* What the hub promises about one connection, without rooms, locks, loops  *)
(* or pumps: events are put on it only while it is registered, in the order *)
(* in which they reach the client, and no more than its channel holds; what *)
(* it does not hold is lost, and so is everything when it breaks.           *)
(* Hub is shown to implement this module for each of its connections.       *)
(***************************************************************************)
EXTENDS Integers, Sequences

CONSTANTS
    Event,      \* what may be sent
    BufSize     \* capacity of Client.send

VARIABLES
    state,      \* how far the server is with the connection
    wire        \* the events the client may still get, in order

vars == <<state, wire>>

State == {"none", "upgraded", "registered", "leaving"}

Init ==
    /\ state = "none"
    /\ wire = <<>>

\* The client is told that the connection is open.
Upgrade ==
    /\ state = "none"
    /\ state' = "upgraded"
    /\ UNCHANGED wire

Register ==
    /\ state = "upgraded"
    /\ state' = "registered"
    /\ UNCHANGED wire

\* An event that fits; one that does not leaves no trace.
Put(e) ==
    /\ state = "registered"
    /\ Len(wire) < BufSize
    /\ wire' = Append(wire, e)
    /\ UNCHANGED state

Take ==
    /\ wire # <<>>
    /\ wire' = Tail(wire)
    /\ UNCHANGED state

\* The server gives the connection up; what is buffered may still go out.
Quit ==
    /\ state = "registered"
    /\ state' = "leaving"
    /\ UNCHANGED wire

\* Nothing will reach the client any more, whether it knows or not.
Break ==
    /\ state' = "none"
    /\ wire' = <<>>

Next ==
    \/ Upgrade
    \/ Register
    \/ \E e \in Event : Put(e)
    \/ Take
    \/ Quit
    \/ Break

Spec == Init /\ [][Next]_vars
=============================================================================
