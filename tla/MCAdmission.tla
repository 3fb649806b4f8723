---------------------------- MODULE MCAdmission ----------------------------
(***************************************************************************)
(* Admission for one guest, with one page.  Two guests do not share a       *)
(* variable except `todo`, and the state space is the square of this one.   *)
(***************************************************************************)
EXTENDS Admission
=============================================================================
