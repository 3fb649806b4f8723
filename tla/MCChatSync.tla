----------------------------- MODULE MCChatSync -----------------------------
(***************************************************************************)
(* ChatSync for the page of gil; ann and bob are in the meeting as well.    *)
(***************************************************************************)
EXTENDS ChatSync

CONSTANTS ann, bob, gil,                \* users
          toAll, annToGil, annToBob     \* messages

MCAuthor == [n \in Message |-> ann]

MCTo == [n \in Message |-> CASE n = toAll    -> Everyone
                             [] n = annToGil -> gil
                             [] n = annToBob -> bob]
=============================================================================
