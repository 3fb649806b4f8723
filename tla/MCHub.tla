------------------------------- MODULE MCHub -------------------------------
(***************************************************************************)
(* Hub on one connection of each of two users in a meeting, and calls that  *)
(* broadcast to it, address bob alone in it, or broadcast to another.       *)
(***************************************************************************)
EXTENDS Hub, TLC

CONSTANTS ann, bob, here, there,        \* users and meetings
          annConn, bobConn,             \* connections, all in `here`
          toAll, toBob, elsewhere       \* calls

MCUserOf == [c \in Conn |-> IF c = annConn THEN ann ELSE bob]
MCRoomOf == [c \in Conn |-> here]
MCTarget == [n \in Call |-> IF n = elsewhere THEN there ELSE here]
MCTo     == [n \in Call |-> IF n = toBob THEN bob ELSE Everyone]
=============================================================================
