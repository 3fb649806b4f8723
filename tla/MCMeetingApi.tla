---------------------------- MODULE MCMeetingApi ----------------------------
(***************************************************************************)
(* MeetingApi on small sets of users, ids and request goroutines.           *)
(***************************************************************************)
EXTENDS MeetingApi, TLC

\* Users and goroutines are interchangeable: any user may create a meeting.
Interchangeable == Permutations(User) \cup Permutations(Thread)
=============================================================================
