-------------------------------- MODULE Link --------------------------------
(***************************************************************************)
(* What useMeetingSocket promises the page that uses it, without sockets,   *)
(* timers, refs or effects: a connection is made only for a page that wants *)
(* one and only after the loss of the last was noticed; the page is told of *)
(* each connection once, and hears of its loss after the loss.              *)
(* MeetingSocket is shown to implement this module.                         *)
(***************************************************************************)
VARIABLES
    wanted,     \* the page is there and has a meeting to be connected to
    conn,       \* a connection is being made or is there
    told        \* the page believes that it is connected

vars == <<wanted, conn, told>>

Init ==
    /\ wanted = FALSE
    /\ conn = FALSE
    /\ told = FALSE

Want ==
    /\ wanted' = TRUE
    /\ UNCHANGED <<conn, told>>

Dial ==
    /\ wanted
    /\ ~conn
    /\ ~told
    /\ conn' = TRUE
    /\ UNCHANGED <<wanted, told>>

\* The page may be told late, but not of a connection that is gone.
Open ==
    /\ conn
    /\ told' = TRUE
    /\ UNCHANGED <<wanted, conn>>

\* The connection is refused or lost, which the page does not know yet.
Drop ==
    /\ conn' = FALSE
    /\ UNCHANGED <<wanted, told>>

Notice ==
    /\ ~conn
    /\ told' = FALSE
    /\ UNCHANGED <<wanted, conn>>

\* The page gives its connection up for another one.
HangUp ==
    /\ wanted
    /\ conn' = FALSE
    /\ told' = FALSE
    /\ UNCHANGED wanted

\* The page goes.
Leave ==
    /\ wanted' = FALSE
    /\ conn' = FALSE
    /\ told' = FALSE

Next == Want \/ Dial \/ Open \/ Drop \/ Notice \/ HangUp \/ Leave

Spec == Init /\ [][Next]_vars
=============================================================================
