-------------------------- MODULE MCMeetingSocket --------------------------
(***************************************************************************)
(* MeetingSocket on small sets of meetings and sockets.                     *)
(***************************************************************************)
EXTENDS MeetingSocket
=============================================================================
