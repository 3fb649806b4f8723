------------------------ MODULE MeetingSocketProofs ------------------------
(***************************************************************************)
(* What useMeetingSocket guarantees for every set of meetings and however   *)
(* many sockets still have callbacks to run.                                *)
(***************************************************************************)
EXTENDS MeetingSocket, TLAPS

\* Only a mounted hook is given a meeting, and only with one it holds a socket.
HeldByPage ==
    /\ current # NoSocket => meetingId # NoMeeting
    /\ meetingId # NoMeeting => mounted

\* TypeOK in two parts: what is a flag and what has a value.
Flags == mounted \in BOOLEAN /\ due \in BOOLEAN /\ manual \in BOOLEAN

Values ==
    /\ meetingId \in Meeting \cup {NoMeeting}
    /\ status \in {"connecting", "open", "reconnecting", "closed"}
    /\ current \in Socket \cup {NoSocket}
    /\ state \in [Socket -> {"none", "connecting", "open", "closing"}]
    /\ retry \in 0..MaxRetry
    /\ timer \in {0, 1, 2, 4, 8, 15}

SocketInv ==
    /\ Flags
    /\ Values
    /\ OneLiveSocket
    /\ TimerOnlyWithoutSocket
    /\ NeverStranded
    /\ StatusIsHonest
    /\ HeldByPage

----------------------------------------------------------------------------

LEMMA DelayIsCapped == \A n \in 0..MaxRetry : Delay(n) \in {1, 2, 4, 8, 15}
BY DEF Delay, MaxRetry

LEMMA OneMoreType ==
    ASSUME retry \in 0..MaxRetry
    PROVE  OneMore \in 0..MaxRetry
BY DEF OneMore, MaxRetry

\* close() on socketRef leaves no socket alive.
LEMMA ClosedIsDead ==
    ASSUME Values, OneLiveSocket
    PROVE  /\ Closed \in [Socket -> {"none", "connecting", "open", "closing"}]
           /\ \A s \in Socket : Closed[s] \in {"none", "closing"}
BY NoneIsNone DEF Closed, Values, OneLiveSocket

LEMMA InitSocketInv == Init => SocketInv
<1> SUFFICES ASSUME Init PROVE SocketInv
    OBVIOUS
<1>1. Flags
      BY DEF Init, Flags
<1>2. Values
      BY DEF Init, Values, MaxRetry
<1>3. OneLiveSocket
      BY DEF Init, OneLiveSocket
<1>4. TimerOnlyWithoutSocket /\ NeverStranded
      BY DEF Init, TimerOnlyWithoutSocket, NeverStranded
<1>5. StatusIsHonest /\ HeldByPage
      BY DEF Init, StatusIsHonest, HeldByPage
<1> QED BY <1>1, <1>2, <1>3, <1>4, <1>5 DEF SocketInv

\* Whatever drops the current socket and leaves the effect due, or no page,
\* keeps the invariant.
LEMMA DroppedKeepsInv ==
    ASSUME SocketInv, Flags', Values', current' = NoSocket, timer' = 0,
           state' = Closed, due' \/ ~mounted', meetingId' # NoMeeting => mounted'
    PROVE  SocketInv'
<1>1. OneLiveSocket'
      BY ClosedIsDead DEF SocketInv, OneLiveSocket
<1>2. TimerOnlyWithoutSocket' /\ NeverStranded'
      BY DEF TimerOnlyWithoutSocket, NeverStranded
<1>3. StatusIsHonest' /\ HeldByPage'
      BY DEF StatusIsHonest, HeldByPage
<1> QED BY <1>1, <1>2, <1>3 DEF SocketInv

LEMMA GiveKeepsInv ==
    ASSUME SocketInv, NEW m \in Meeting, Give(m)
    PROVE  SocketInv'
<1>1. Flags'
      BY DEF SocketInv, Give, refs, Flags
<1>2. Values'
      BY DEF SocketInv, Give, refs, Values
<1>3. OneLiveSocket'
      BY DEF SocketInv, Give, refs, OneLiveSocket
<1>4. TimerOnlyWithoutSocket' /\ NeverStranded' /\ StatusIsHonest' /\ HeldByPage'
      BY NoneIsNone
         DEF SocketInv, Give, refs, TimerOnlyWithoutSocket, NeverStranded,
             StatusIsHonest, HeldByPage
<1> QED BY <1>1, <1>2, <1>3, <1>4 DEF SocketInv

LEMMA EffectKeepsInv ==
    ASSUME SocketInv, Effect
    PROVE  SocketInv'
<1>1. CASE RunEffectIdle
  <2>1. Flags'
        BY <1>1 DEF SocketInv, RunEffectIdle, Flags
  <2>2. Values'
        BY <1>1, ClosedIsDead DEF SocketInv, RunEffectIdle, Values
  <2>3. OneLiveSocket'
        BY <1>1, ClosedIsDead DEF SocketInv, RunEffectIdle, OneLiveSocket
  <2>4. TimerOnlyWithoutSocket' /\ NeverStranded' /\ StatusIsHonest' /\ HeldByPage'
        BY <1>1
           DEF RunEffectIdle, TimerOnlyWithoutSocket, NeverStranded,
               StatusIsHonest, HeldByPage
  <2> QED BY <2>1, <2>2, <2>3, <2>4 DEF SocketInv
<1>2. ASSUME NEW s \in Socket, RunEffect(s)
      PROVE  SocketInv'
  <2>1. mounted /\ mounted' /\ meetingId' # NoMeeting
        BY <1>2 DEF RunEffect, SocketInv, HeldByPage
  <2>2. Flags'
        BY <1>2 DEF SocketInv, RunEffect, Flags
  <2>3. Values'
        BY <1>2, ClosedIsDead DEF SocketInv, RunEffect, Values
  <2>4. OneLiveSocket'
        BY <1>2, <2>1, ClosedIsDead DEF SocketInv, RunEffect, OneLiveSocket
  <2>5. TimerOnlyWithoutSocket' /\ NeverStranded' /\ HeldByPage'
        BY <1>2, <2>1, NoneIsNone
           DEF RunEffect, TimerOnlyWithoutSocket, NeverStranded, HeldByPage
  <2>6. status' \in {"connecting", "reconnecting"}
        BY <1>2 DEF RunEffect
  <2>7. StatusIsHonest'
        BY <2>1, <2>6 DEF StatusIsHonest
  <2> QED BY <2>2, <2>3, <2>4, <2>5, <2>7 DEF SocketInv
<1> QED BY <1>1, <1>2 DEF Effect

LEMMA OnOpenKeepsInv ==
    ASSUME SocketInv, NEW s \in Socket, OnOpen(s)
    PROVE  SocketInv'
<1>1. current = s /\ mounted /\ meetingId # NoMeeting
      BY NoneIsNone DEF SocketInv, OnOpen, OneLiveSocket, HeldByPage
<1>2. Flags'
      BY DEF SocketInv, OnOpen, Flags
<1>3. Values'
      BY DEF SocketInv, OnOpen, Values, MaxRetry
<1>4. OneLiveSocket'
      BY <1>1 DEF SocketInv, OnOpen, OneLiveSocket, Values
<1>5. TimerOnlyWithoutSocket' /\ NeverStranded' /\ HeldByPage'
      BY DEF SocketInv, OnOpen, TimerOnlyWithoutSocket, NeverStranded, HeldByPage
<1>6. StatusIsHonest'
      BY <1>1, NoneIsNone DEF SocketInv, OnOpen, StatusIsHonest, Values
<1> QED BY <1>2, <1>3, <1>4, <1>5, <1>6 DEF SocketInv

LEMMA BreakKeepsInv ==
    ASSUME SocketInv, NEW s \in Socket, Break(s)
    PROVE  SocketInv'
<1>1. Flags' /\ Values'
      BY DEF SocketInv, Break, Flags, Values
<1>2. OneLiveSocket'
      BY DEF SocketInv, Break, OneLiveSocket, Values
<1>3. TimerOnlyWithoutSocket' /\ NeverStranded' /\ HeldByPage'
      BY DEF SocketInv, Break, TimerOnlyWithoutSocket, NeverStranded, HeldByPage
<1>4. StatusIsHonest'
      BY NoneIsNone DEF SocketInv, Break, StatusIsHonest, Values
<1> QED BY <1>1, <1>2, <1>3, <1>4 DEF SocketInv

\* A late onclose touches no ref.
LEMMA OnCloseStaleKeepsInv ==
    ASSUME SocketInv, NEW s \in Socket, OnCloseStale(s)
    PROVE  SocketInv'
<1>1. Flags' /\ Values'
      BY DEF SocketInv, OnCloseStale, Flags, Values
<1>2. OneLiveSocket'
      BY DEF SocketInv, OnCloseStale, OneLiveSocket, Values
<1>3. TimerOnlyWithoutSocket' /\ NeverStranded' /\ HeldByPage'
      BY DEF SocketInv, OnCloseStale, TimerOnlyWithoutSocket, NeverStranded, HeldByPage
<1>4. StatusIsHonest'
      BY NoneIsNone DEF SocketInv, OnCloseStale, StatusIsHonest, Values
<1> QED BY <1>1, <1>2, <1>3, <1>4 DEF SocketInv

\* That of the current socket sets the timer: its check of manualCloseRef never
\* finds it set, except when the effect is due anyway.
LEMMA OnCloseKeepsInv ==
    ASSUME SocketInv, NEW s \in Socket, OnClose(s)
    PROVE  SocketInv'
<1>1. mounted /\ meetingId # NoMeeting /\ timer = 0 /\ (~due => ~manual)
      BY NoneIsNone
         DEF SocketInv, OnClose, Lost, Values, HeldByPage, NeverStranded,
             TimerOnlyWithoutSocket
<1>2. /\ timer' \in {0, 1, 2, 4, 8, 15}
      /\ ~manual => timer' > 0 /\ status' = "reconnecting"
  <2>1. Delay(retry) \in {1, 2, 4, 8, 15}
        BY DelayIsCapped DEF SocketInv, Values
  <2>2. CASE manual
        BY <2>2, <1>1 DEF OnClose, Lost
  <2>3. CASE ~manual
        BY <2>1, <2>3 DEF OnClose, Lost
  <2> QED BY <2>2, <2>3
<1>3. Flags'
      BY DEF SocketInv, OnClose, Lost, Flags
<1>4. Values'
      BY <1>2, OneMoreType DEF SocketInv, OnClose, Lost, Values
<1>5. OneLiveSocket'
      BY DEF SocketInv, OnClose, Lost, OneLiveSocket, Values
<1>6. TimerOnlyWithoutSocket' /\ NeverStranded' /\ StatusIsHonest' /\ HeldByPage'
      BY <1>1, <1>2
         DEF OnClose, Lost, TimerOnlyWithoutSocket, NeverStranded, StatusIsHonest,
             HeldByPage
<1> QED BY <1>3, <1>4, <1>5, <1>6 DEF SocketInv

LEMMA FireKeepsInv ==
    ASSUME SocketInv, Fire
    PROVE  SocketInv'
<1>1. Flags'
      BY DEF SocketInv, Fire, Flags
<1>2. Values'
      BY DEF SocketInv, Fire, Values
<1>3. OneLiveSocket'
      BY DEF SocketInv, Fire, OneLiveSocket
<1>4. TimerOnlyWithoutSocket' /\ NeverStranded' /\ StatusIsHonest' /\ HeldByPage'
      BY DEF SocketInv, Fire, TimerOnlyWithoutSocket, NeverStranded, StatusIsHonest,
             HeldByPage
<1> QED BY <1>1, <1>2, <1>3, <1>4 DEF SocketInv

LEMMA RetryNowKeepsInv ==
    ASSUME SocketInv, RetryNow
    PROVE  SocketInv'
<1>1. Flags'
      BY DEF SocketInv, RetryNow, Redial, Flags
<1>2. Values'
      BY ClosedIsDead DEF SocketInv, RetryNow, Redial, Values, MaxRetry
<1> QED BY <1>1, <1>2, DroppedKeepsInv DEF RetryNow, Redial

LEMMA UnmountKeepsInv ==
    ASSUME SocketInv, Unmount
    PROVE  SocketInv'
<1>1. Flags'
      BY DEF SocketInv, Unmount, Flags
<1>2. Values'
      BY ClosedIsDead DEF SocketInv, Unmount, Values
<1> QED BY <1>1, <1>2, DroppedKeepsInv DEF Unmount

LEMMA MountKeepsInv ==
    ASSUME SocketInv, Mount
    PROVE  SocketInv'
<1>1. Flags'
      BY DEF SocketInv, Mount, Flags
<1>2. Values'
      BY DEF SocketInv, Mount, Values, MaxRetry
<1>3. OneLiveSocket'
      BY DEF SocketInv, Mount, OneLiveSocket
<1>4. TimerOnlyWithoutSocket' /\ NeverStranded' /\ StatusIsHonest' /\ HeldByPage'
      BY DEF SocketInv, Mount, TimerOnlyWithoutSocket, NeverStranded, StatusIsHonest,
             HeldByPage
<1> QED BY <1>1, <1>2, <1>3, <1>4 DEF SocketInv

LEMMA NextKeepsInv == SocketInv /\ [Next]_vars => SocketInv'
<1> SUFFICES ASSUME SocketInv, [Next]_vars PROVE SocketInv'
    OBVIOUS
<1>1. CASE Next
      BY <1>1, GiveKeepsInv, EffectKeepsInv, OnOpenKeepsInv, BreakKeepsInv,
         OnCloseStaleKeepsInv, OnCloseKeepsInv, FireKeepsInv, RetryNowKeepsInv,
         UnmountKeepsInv, MountKeepsInv
         DEF Next, Callback
<1>2. CASE UNCHANGED vars
      BY <1>2
         DEF vars, refs, SocketInv, Flags, Values, OneLiveSocket, TimerOnlyWithoutSocket,
             NeverStranded, StatusIsHonest, HeldByPage
<1> QED BY <1>1, <1>2

----------------------------------------------------------------------------

\* The strengthened invariant holds for any meetings and sockets: superseded
\* sockets, timers, retries and remounts never disturb what the page holds.
THEOREM SocketInductive == Spec => []SocketInv
BY InitSocketInv, NextKeepsInv, PTL DEF Spec

\* The refs and the status keep their types; no delay exceeds MAX_BACKOFF_MS.
THEOREM SocketTypeCorrect == Spec => []TypeOK
<1>1. SocketInv => TypeOK
      BY DEF SocketInv, Flags, Values, TypeOK
<1> QED BY <1>1, SocketInductive, PTL

\* A page has at most one live connection or one backoff timer, and a page that
\* is gone has neither.
THEOREM AttemptsAreOwned == Spec => []OneAttempt
<1>1. SocketInv => OneAttempt
      BY DEF SocketInv, OneAttempt
<1> QED BY <1>1, SocketInductive, PTL

\* The hook always has a connection, a timer or an effect that will make one.
THEOREM NobodyStranded == Spec => []NeverStranded
<1>1. SocketInv => NeverStranded
      BY DEF SocketInv
<1> QED BY <1>1, SocketInductive, PTL

\* The status the page shows agrees with the socket.
THEOREM HonestStatus == Spec => []StatusIsHonest
<1>1. SocketInv => StatusIsHonest
      BY DEF SocketInv
<1> QED BY <1>1, SocketInductive, PTL
----------------------------------------------------------------------------
(* The refinement of Link.                                                  *)

\* What the page wants, has and believes, as Link names it.
Wanted == meetingId # NoMeeting
Conn   == ~due /\ current # NoSocket /\ state[current] \in {"connecting", "open"}
Told   == Wanted /\ ~due /\ status = "open"

\* A connection is made or told of only for a page that wants one.
LEMMA OnlyIfWanted ==
    ASSUME SocketInv
    PROVE  /\ Conn \/ Told => Wanted
           /\ Wanted \in BOOLEAN /\ Conn \in BOOLEAN /\ Told \in BOOLEAN
BY DEF SocketInv, HeldByPage, Wanted, Conn, Told

\* A step after which the effect is due gives up whatever there was.
LEMMA DueIsLink ==
    ASSUME SocketInv, due', Wanted => Wanted'
    PROVE  Contract!Next \/ UNCHANGED Contract!vars
<1>1. ~Conn' /\ ~Told'
      BY DEF Conn, Told
<1>2. CASE Wanted
      BY <1>1, <1>2 DEF Contract!HangUp, Contract!Next, Wanted, Conn, Told
<1>3. CASE ~Wanted /\ Wanted'
      BY <1>1, <1>3, OnlyIfWanted
         DEF Contract!Want, Contract!Next, Wanted, Conn, Told
<1>4. CASE ~Wanted /\ ~Wanted'
      BY <1>1, <1>4, OnlyIfWanted DEF Contract!vars, Wanted, Conn, Told
<1> QED BY <1>2, <1>3, <1>4, OnlyIfWanted

\* Every step of the hook is one of Link or invisible to its page.
LEMMA StepIsLink ==
    ASSUME SocketInv, SocketInv', [Next]_vars
    PROVE  [Contract!Next]_(Contract!vars)
<1> SUFFICES Contract!Next \/ UNCHANGED Contract!vars
    OBVIOUS
<1>1. ASSUME NEW m \in Meeting, Give(m)
      PROVE  Contract!Next \/ UNCHANGED Contract!vars
      BY <1>1, DueIsLink, NoneIsNone DEF Give, Wanted
<1>2. CASE RunEffectIdle
      BY <1>2 DEF RunEffectIdle, Contract!vars
<1>3. ASSUME NEW s \in Socket, RunEffect(s)
      PROVE  Contract!Next
  <2>1. Conn' /\ ~Told' /\ Wanted'
        BY <1>3, NoneIsNone, ClosedIsDead
           DEF RunEffect, SocketInv, Values, Conn, Told, Wanted
  <2>2. ~Conn /\ ~Told /\ Wanted
        BY <1>3 DEF RunEffect, Conn, Told, Wanted
  <2> QED BY <2>1, <2>2 DEF Contract!Dial, Contract!Next, Wanted, Conn, Told
<1>4. ASSUME NEW s \in Socket, OnOpen(s)
      PROVE  Contract!Next \/ UNCHANGED Contract!vars
  <2>1. current = s /\ s # NoSocket /\ meetingId # NoMeeting
        BY <1>4, NoneIsNone DEF OnOpen, SocketInv, OneLiveSocket, HeldByPage
  <2>2. CASE due
        BY <1>4, <2>2 DEF OnOpen, Contract!vars
  <2>3. CASE ~due
    <3>1. Conn /\ Conn' /\ Told' /\ Wanted /\ Wanted'
          BY <1>4, <2>1, <2>3 DEF OnOpen, SocketInv, Values, Conn, Told, Wanted
    <3> QED BY <3>1 DEF Contract!Open, Contract!Next, Wanted, Conn, Told
  <2> QED BY <2>2, <2>3 DEF SocketInv, Flags
<1>5. ASSUME NEW s \in Socket, Break(s)
      PROVE  Contract!Next \/ UNCHANGED Contract!vars
  <2>1. current = s
        BY <1>5 DEF Break, SocketInv, OneLiveSocket
  <2>2. ~Conn'
        BY <1>5, <2>1 DEF Break, SocketInv, Values, Conn
  <2>3. Wanted' = Wanted /\ Told' = Told
        BY <1>5 DEF Break, Wanted, Told
  <2> QED BY <2>2, <2>3 DEF Contract!Drop, Contract!Next, Wanted, Conn, Told
<1>6. ASSUME NEW s \in Socket, OnCloseStale(s)
      PROVE  UNCHANGED Contract!vars
      BY <1>6 DEF OnCloseStale, SocketInv, Values, Contract!vars
<1>7. ASSUME NEW s \in Socket, OnClose(s)
      PROVE  Contract!Next \/ UNCHANGED Contract!vars
  <2>1. CASE due
        BY <1>7, <2>1 DEF OnClose, Lost, Contract!vars
  <2>2. CASE ~due
    <3>1. ~Conn /\ ~Conn'
          BY <1>7 DEF OnClose, Lost, Conn
    <3>2. status' # "open"
          BY <1>7 DEF OnClose, Lost
    <3>3. Wanted' = Wanted /\ ~Told'
          BY <1>7, <3>2 DEF OnClose, Lost, Wanted, Told
    <3> QED BY <3>1, <3>3 DEF Contract!Notice, Contract!Next, Wanted, Conn, Told
  <2> QED BY <2>1, <2>2 DEF SocketInv, Flags
<1>8. CASE Fire
      BY <1>8, DueIsLink DEF Fire, Wanted
<1>9. CASE RetryNow
      BY <1>9, DueIsLink DEF RetryNow, Redial, Wanted
<1>10. CASE Unmount
      BY <1>10 DEF Unmount, Contract!Leave, Contract!Next
<1>11. CASE Mount
      BY <1>11, DueIsLink DEF Mount, Wanted
<1>12. CASE UNCHANGED vars
      BY <1>12 DEF vars, refs, Contract!vars
<1> QED BY <1>1, <1>2, <1>3, <1>4, <1>5, <1>6, <1>7, <1>8, <1>9, <1>10, <1>11, <1>12
        DEF Next, Effect, Callback

LEMMA InitIsLink == Init => Contract!Init
BY DEF Init, Contract!Init

\* The hook implements Link for any meetings and any number of sockets: late
\* callbacks of superseded sockets, timers and the button tell the page nothing
\* that is not so, and give it no second connection before it knows of the loss
\* of the first.
THEOREM HookImplementsLink == Spec => ImplementsLink
<1>1. SocketInv /\ SocketInv' /\ [Next]_vars => [Contract!Next]_(Contract!vars)
      BY StepIsLink
<1> QED BY <1>1, InitIsLink, SocketInductive, PTL
        DEF Spec, ImplementsLink, Contract!Spec
=============================================================================
