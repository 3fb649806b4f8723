------------------------------- MODULE MCCall -------------------------------
(***************************************************************************)
(* Call with a few clicks under way at once.                                *)
(***************************************************************************)
EXTENDS Call
=============================================================================
