--------------------------- MODULE MeetingSocket ---------------------------
(***************************************************************************)
(* The hook useMeetingSocket (frontend/src/hooks/useMeetingSocket.ts): one   *)
(* page's WebSocket, redialled with a growing delay.  Its refs are shared by *)
(* the callbacks of every socket it ever made, its timer, its effect and     *)
(* retryNow, which the browser runs one at a time and in any order.          *)
(*                                                                          *)
(* Abstractions: the network opens and breaks connections as it likes; time  *)
(* is left out, so that a timer may fire at any moment; messages are the     *)
(* business of Admission and ChatSync.  The name of a socket is used again   *)
(* when its onclose has run, since no callback of it is left then.           *)
(***************************************************************************)
EXTENDS Integers

CONSTANTS
    Meeting,    \* ids a page may be given
    Socket,     \* bound: WebSocket objects that still have callbacks to run
    NoMeeting, NoSocket

ASSUME NoneIsNone == NoMeeting \notin Meeting /\ NoSocket \notin Socket

VARIABLES
    mounted,    \* a page uses the hook
    meetingId,  \* the hook's argument: join ? id : undefined
    due,        \* the effect has to run: its dependencies have changed
    status,     \* what the hook tells the page
    current,    \* socketRef
    state,      \* state[s]: readyState of s, "closing" until its onclose runs
    retry,      \* retryRef; four and more failures are alike
    timer,      \* the delay of timerRef's timer in seconds; 0: none is set
    manual      \* manualCloseRef

refs == <<current, state, retry, timer, manual>>
vars == <<mounted, meetingId, due, status, refs>>

MaxRetry == 4

\* Mutant: the delay is not capped.
DelayUncapped(n) == <<1, 2, 4, 8, 16>>[n + 1]

\* Seconds before the dial that follows n failures: doubled, up to MAX_BACKOFF_MS.
Delay(n) == <<1, 2, 4, 8, 15>>[n + 1]

\* A page has just appeared: the first effect is due.
Init ==
    /\ mounted = TRUE
    /\ meetingId = NoMeeting
    /\ due = TRUE
    /\ status = "closed"
    /\ current = NoSocket
    /\ state = [s \in Socket |-> "none"]
    /\ retry = 0
    /\ timer = 0
    /\ manual = FALSE

\* socketRef.current?.close()
Closed == [s \in Socket |-> IF s = current THEN "closing" ELSE state[s]]

----------------------------------------------------------------------------

\* The first answer to a join, or another meeting's page.
Give(m) ==
    /\ mounted
    /\ meetingId # m
    /\ meetingId' = m
    /\ due' = TRUE
    /\ UNCHANGED <<mounted, status, refs>>

\* The effect without an id: nothing to be connected to.
RunEffectIdle ==
    /\ due
    /\ meetingId = NoMeeting
    /\ due' = FALSE
    /\ manual' = TRUE
    /\ timer' = 0
    /\ state' = Closed
    /\ current' = NoSocket
    /\ status' = "closed"
    /\ UNCHANGED <<mounted, meetingId, retry>>

\* The cleanup of its last run, which closes the old socket, and connect, which
\* makes a new one, s.
RunEffect(s) ==
    /\ due
    /\ meetingId # NoMeeting
    /\ state[s] = "none"
    /\ due' = FALSE
    /\ timer' = 0
    /\ manual' = FALSE
    /\ status' = IF retry > 0 THEN "reconnecting" ELSE "connecting"
    /\ state' = [Closed EXCEPT ![s] = "connecting"]
    /\ current' = s
    /\ UNCHANGED <<mounted, meetingId, retry>>

\* onopen; a browser does not call it once close() was called.
OnOpen(s) ==
    /\ state[s] = "connecting"
    /\ state' = [state EXCEPT ![s] = "open"]
    /\ retry' = 0
    /\ status' = "open"
    /\ UNCHANGED <<mounted, meetingId, due, current, timer, manual>>

\* The server refuses, or the connection is lost; onerror closes the socket.
Break(s) ==
    /\ state[s] \in {"connecting", "open"}
    /\ state' = [state EXCEPT ![s] = "closing"]
    /\ UNCHANGED <<mounted, meetingId, due, status, current, retry, timer, manual>>

\* Mutant: every socket's onclose is taken for that of the current one.
OnCloseStaleHeard(s) ==
    /\ state[s] = "closing"
    /\ current # s
    /\ state' = [state EXCEPT ![s] = "none"]
    /\ current' = NoSocket
    /\ UNCHANGED <<mounted, meetingId, due, status, retry, timer, manual>>

\* onclose of a socket that was superseded or given up: nothing but the end of it.
OnCloseStale(s) ==
    /\ state[s] = "closing"
    /\ current # s
    /\ state' = [state EXCEPT ![s] = "none"]
    /\ UNCHANGED <<mounted, meetingId, due, status, current, retry, timer, manual>>

Lost(s, told, delay, failures) ==
    /\ state[s] = "closing"
    /\ current = s
    /\ state' = [state EXCEPT ![s] = "none"]
    /\ current' = NoSocket
    /\ status' = told
    /\ timer' = delay
    /\ retry' = failures
    /\ UNCHANGED <<mounted, meetingId, due, manual>>

OneMore == IF retry < MaxRetry THEN retry + 1 ELSE retry

\* Mutants: no timer is set; the page is not told.
OnCloseGivesUp(s) == Lost(s, "reconnecting", timer, OneMore)
OnCloseSilent(s)  == Lost(s, status, Delay(retry), OneMore)

\* onclose of the current socket: try again later, unless this was meant.
OnClose(s) ==
    IF manual
    THEN Lost(s, "closed", timer, retry)
    ELSE Lost(s, "reconnecting", Delay(retry), OneMore)

\* The timer counts retryTick up, on which the effect depends.
Fire ==
    /\ timer > 0
    /\ timer' = 0
    /\ due' = TRUE
    /\ UNCHANGED <<mounted, meetingId, status, current, state, retry, manual>>

Redial(tick) ==
    /\ mounted
    /\ meetingId # NoMeeting
    /\ timer' = 0
    /\ state' = Closed
    /\ current' = NoSocket
    /\ retry' = 0
    /\ manual' = FALSE
    /\ due' = tick
    /\ UNCHANGED <<mounted, meetingId, status>>

\* Mutant: retryTick is not counted up.
RetryNowUnticked == Redial(due)

\* The banner's button: what is under way is dropped, the effect dials at once.
RetryNow == Redial(TRUE)

\* The cleanup when the page goes.
Unmount ==
    /\ mounted
    /\ mounted' = FALSE
    /\ meetingId' = NoMeeting
    /\ due' = FALSE
    /\ manual' = TRUE
    /\ timer' = 0
    /\ state' = Closed
    /\ current' = NoSocket
    /\ UNCHANGED <<status, retry>>

\* A new page with refs of its own, while sockets of the last one still close.
Mount ==
    /\ ~mounted
    /\ mounted' = TRUE
    /\ due' = TRUE
    /\ status' = "closed"
    /\ retry' = 0
    /\ manual' = FALSE
    /\ UNCHANGED <<meetingId, current, state, timer>>

Callback(s) == OnCloseStale(s) \/ OnClose(s)

Effect == RunEffectIdle \/ \E s \in Socket : RunEffect(s)

Next ==
    \/ \E m \in Meeting : Give(m)
    \/ Effect
    \/ \E s \in Socket : OnOpen(s) \/ Break(s) \/ Callback(s)
    \/ Fire
    \/ RetryNow
    \/ Unmount
    \/ Mount

Spec == Init /\ [][Next]_vars

\* The browser runs effects, timers and onclose callbacks.  Of a network that is
\* tried again and again one attempt succeeds; without that no code can connect.
FairSpec ==
    /\ Spec
    /\ WF_vars(Effect)
    /\ WF_vars(Fire)
    /\ \A s \in Socket : WF_vars(Callback(s))
    /\ SF_vars(\E s \in Socket : OnOpen(s))

----------------------------------------------------------------------------

\* Type invariant of the hook's state and its refs.
TypeOK ==
    /\ mounted \in BOOLEAN
    /\ meetingId \in Meeting \cup {NoMeeting}
    /\ due \in BOOLEAN
    /\ status \in {"connecting", "open", "reconnecting", "closed"}
    /\ current \in Socket \cup {NoSocket}
    /\ state \in [Socket -> {"none", "connecting", "open", "closing"}]
    /\ retry \in 0..MaxRetry
    /\ timer \in {0, 1, 2, 4, 8, 15}
    /\ manual \in BOOLEAN

\* However effects, retries and remounts follow each other, the only connection
\* that is open or being opened is the one a mounted page holds in socketRef.
OneLiveSocket ==
    \A s \in Socket :
        state[s] \in {"connecting", "open"} => current = s /\ mounted

\* A retry waits only for a page that has no socket: no timer outlives the page,
\* and none replaces a connection that another path has made meanwhile.
TimerOnlyWithoutSocket ==
    timer > 0 => mounted /\ meetingId # NoMeeting /\ current = NoSocket

\* The hook never comes to rest without a connection: one is there, or a timer
\* or the effect is going to make one, even after a manual close was undone.
NeverStranded ==
    mounted /\ meetingId # NoMeeting =>
        \/ due
        \/ timer > 0
        \/ current # NoSocket /\ ~manual

\* One attempt at a time, but always one: a page never has two connections, nor
\* one connection and a timer that would replace it, nor either after it is gone;
\* and it is never left with neither.
OneAttempt == OneLiveSocket /\ TimerOnlyWithoutSocket /\ NeverStranded

\* The page is told "open" only while its socket is, or is just being replaced
\* or found broken; and it is not told "closed" while the hook is at work.
StatusIsHonest ==
    mounted /\ ~due =>
        /\ status = "open" =>
            current # NoSocket /\ state[current] \in {"open", "closing"}
        /\ status = "closed" <=> meetingId = NoMeeting

\* The hook as its page sees it.  When the effect is due the hook is about to
\* give up whatever socket there is, in the same turn of the browser.
Contract == INSTANCE Link WITH
    wanted <- meetingId # NoMeeting,
    conn   <- /\ ~due
              /\ current # NoSocket
              /\ state[current] \in {"connecting", "open"},
    told   <- meetingId # NoMeeting /\ ~due /\ status = "open"

\* Sockets, timers, retries and remounts implement Link: the page is told of
\* each connection while it lasts, and a lost one is replaced only after the
\* page has been told of the loss.
ImplementsLink == Contract!Spec

\* Whatever closes and retries happen, a page with a meeting gets connected.
GetsConnected ==
    mounted /\ meetingId # NoMeeting ~> status = "open" \/ ~mounted
=============================================================================
