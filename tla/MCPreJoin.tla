----------------------------- MODULE MCPreJoin -----------------------------
(***************************************************************************)
(* PreJoin on small sets of devices and streams.                            *)
(***************************************************************************)
EXTENDS PreJoin
=============================================================================
