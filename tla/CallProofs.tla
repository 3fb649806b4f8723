----------------------------- MODULE CallProofs -----------------------------
(***************************************************************************)
(* What the call guarantees for every number of clicks under way and every  *)
(* length of the queue in front of LiveKit.                                 *)
(***************************************************************************)
EXTENDS Call, TLAPS

\* TypeOK in parts: flags, values, and what relates queue and handlers.
Flags ==
    /\ isHost \in BOOLEAN /\ saved \in BOOLEAN /\ audio \in BOOLEAN
    /\ live \in BOOLEAN /\ shown \in BOOLEAN /\ flag \in BOOLEAN
    /\ muting \in BOOLEAN /\ intentional \in BOOLEAN /\ told \in BOOLEAN
    /\ silenced \in BOOLEAN /\ late \in BOOLEAN /\ crossed \in BOOLEAN

Request == [by : Click \cup {Start, Host}, on : BOOLEAN]
Handler == [by : {"nobody", "controls", "settings"}, on : BOOLEAN, step : Step]

Values ==
    /\ at \in {"prejoin", "call", "home"}
    /\ room \in {"none", "connecting", "up", "reconnecting", "down"}
    /\ mediaStatus \in {"connected", "reconnecting", "disconnected"}
    /\ queue \in Seq(Request)
    /\ click \in [Click -> Handler]
    /\ exit \in {"no", "leaving", "ending", "refused"}

Queued ==
    /\ \A c \in Click :
        /\ click[c] = Idle <=> click[c].step = "idle"
        /\ click[c].step = "device" <=> \E i \in DOMAIN queue : queue[i].by = c
    /\ \A i, j \in DOMAIN queue :
        queue[i].by \in Click /\ queue[i].by = queue[j].by => i = j

\* LiveKitRoom is there exactly in the call.
Placed ==
    /\ room = "none" <=> at # "call"
    /\ room = "none" => queue = <<>>
    /\ live => Connected

\* Once the user or the meeting has asked for it, the page may go home; an end that
\* was refused leaves it so.
Asked == intentional => told \/ exit \in {"leaving", "ending", "refused"}

\* Behind every call that switches on there is the host's, which switches off.
Silent ==
    /\ \A i \in DOMAIN queue : queue[i].by = Host => ~queue[i].on
    /\ silenced =>
        /\ room # "connecting"
        /\ \A i \in DOMAIN queue : queue[i].on =>
               \E j \in DOMAIN queue : j > i /\ queue[j].by = Host

CallInv == Flags /\ Values /\ Queued /\ Placed /\ Asked /\ Silent
           /\ MuteSilences /\ StatusTracksRoom /\ HomeOnlyWhenAsked

\* While a mute that crossed no click is coming or holds, no click is under way
\* that could undo it.
MuteAlone ==
    /\ (muting \/ silenced) /\ ~late => ~InFlight /\ ~flag
    /\ silenced /\ ~late => ~shown

HostQueued == \E i \in DOMAIN queue : queue[i].by = Host

InSettings(c) == c \in Click /\ click[c].by = "settings"

\* The device has been told what the settings say, and the controls will be.
Told(c) == InSettings(c) /\ click[c].step \in {"sent", "answered"}

Asks ==
    /\ \A i \in DOMAIN queue :
        queue[i].by \in Click => queue[i].on = click[queue[i].by].on
    /\ \A c \in Click :
        /\ click[c].step = "answered" => click[c].by = "settings"
        /\ click[c].by = "nobody" => click[c].step = "idle"

\* LiveKitRoom starts with what the button shows, before anything else.
StartIsShown ==
    /\ room = "connecting" => queue = <<>> /\ audio = saved /\ shown = saved
    /\ \A i \in DOMAIN queue : queue[i].by = Start =>
        i = 1 /\ (queue[i].on => shown \/ HostQueued)

\* A click in the settings is the last but for the host's mute, and once it has
\* switched off, nothing under way switches on.
SettingsAreLast ==
    /\ \A c \in Click : InSettings(c) => click[c].on = saved
    /\ \A i, j \in DOMAIN queue :
        i < j /\ InSettings(queue[i].by) => queue[j].by = Host
    /\ \A c \in Click :
        InSettings(c) /\ click[c].step # "device" /\ ~click[c].on =>
            ~live /\ \A i \in DOMAIN queue : ~queue[i].on

\* A microphone that is on is shown, will be, or is about to be switched off.
ShownSoon == live /\ ~shown => HostQueued \/ \E c \in Click : Told(c) /\ click[c].on

ButtonInv == Asks /\ (~crossed => StartIsShown /\ SettingsAreLast /\ ShownSoon)

LEMMA IdleIsHandler == Idle \in Handler
BY DEF Idle, Handler, Step

LEMMA UnmountedValues ==
    ASSUME Values, NEW where \in {"prejoin", "home"}, Unmount(where)
    PROVE  /\ at' \in {"prejoin", "home"}
           /\ room' = "none"
           /\ queue' \in Seq(Request)
           /\ click' \in [Click -> Handler]
<1>1. Adrift \in [Click -> Handler]
      BY DEF Values, Adrift, Handler, Step
<1> QED BY <1>1, IdleIsHandler DEF Unmount

\* What Append and Tail do to the positions of a queue.
LEMMA Appended ==
    ASSUME NEW q \in Seq(Request), NEW r \in Request
    PROVE  /\ DOMAIN q = 1..Len(q) /\ Len(q) \in Nat
           /\ DOMAIN Append(q, r) = 1..Len(q) + 1
           /\ \A i \in 1..Len(q) : Append(q, r)[i] = q[i]
           /\ Append(q, r)[Len(q) + 1] = r
OBVIOUS

LEMMA Shortened ==
    ASSUME NEW q \in Seq(Request), q # <<>>
    PROVE  /\ DOMAIN q = 1..Len(q) /\ Len(q) \in Nat /\ 1 \in DOMAIN q
           /\ DOMAIN Tail(q) = 1..Len(q) - 1
           /\ \A i \in 1..Len(q) - 1 : Tail(q)[i] = q[i + 1]
           /\ Head(q) = q[1]
OBVIOUS

\* Taking the first call leaves the host's behind all that switch on.
LEMMA SilentTail ==
    ASSUME Values, Silent, queue # <<>>, queue' = Tail(queue), room' = room,
           silenced' = silenced
    PROVE  Silent'
<1>1. \A i \in DOMAIN queue' : queue'[i] = queue[i + 1] /\ i + 1 \in DOMAIN queue
      BY Shortened DEF Values
<1>2. \A i \in DOMAIN queue' : queue'[i].by = Host => ~queue'[i].on
      BY <1>1 DEF Silent
<1>3. ASSUME silenced, NEW i \in DOMAIN queue', queue'[i].on
      PROVE  \E j \in DOMAIN queue' : j > i /\ queue'[j].by = Host
  <2>1. PICK j \in DOMAIN queue : j > i + 1 /\ queue[j].by = Host
        BY <1>1, <1>3 DEF Silent
  <2>2. j - 1 \in DOMAIN queue' /\ queue'[j - 1] = queue[j] /\ j - 1 > i
        BY <2>1, Shortened DEF Values
  <2> QED BY <2>1, <2>2
<1> QED BY <1>2, <1>3 DEF Silent

\* If the first call switches on, the host's is behind it.
LEMMA HostBehindHead ==
    ASSUME Values, Silent, silenced, queue # <<>>, Head(queue).on,
           queue' = Tail(queue)
    PROVE  \E i \in DOMAIN queue' : queue'[i].by = Host
<1>1. PICK j \in DOMAIN queue : j > 1 /\ queue[j].by = Host
      BY Shortened DEF Values, Silent
<1>2. j - 1 \in DOMAIN queue' /\ queue'[j - 1] = queue[j]
      BY <1>1, Shortened DEF Values
<1> QED BY <1>1, <1>2

LEMMA BeginIsSilent ==
    ASSUME CallInv, NEW c \in Click, NEW by, NEW on \in BOOLEAN, Begin(c, by, on)
    PROVE  Silent' /\ MuteSilences'
<1>1. ~silenced'
      BY DEF Begin
<1>2. \A i \in DOMAIN queue' : queue'[i].by = Host => ~queue'[i].on
  <2>1. [by |-> c, on |-> on] \in Request
        BY DEF Request
  <2> QED BY <2>1, Appended, CallersDiffer DEF Begin, CallInv, Values, Silent
<1> QED BY <1>1, <1>2 DEF Silent, MuteSilences

\* Every flag stays a flag.
LEMMA FlagsKept ==
    ASSUME CallInv, Next
    PROVE  Flags'
<1> USE DEF CallInv
<1>1. CASE Choose
      BY <1>1 DEF Choose, page, mic, history, Flags, Values, Connected
<1>2. CASE JoinNow
      BY <1>2 DEF JoinNow, page, mic, history, Flags, Values, Connected
<1>3. CASE Render
      BY <1>3 DEF Render, page, mic, history, Flags, Values, Connected
<1>4. CASE OnConnected
      BY <1>4 DEF OnConnected, page, mic, history, Flags, Values, Connected
<1>5. CASE OnReconnecting
      BY <1>5 DEF OnReconnecting, page, mic, history, Flags, Values, Connected
<1>6. CASE OnReconnected
      BY <1>6 DEF OnReconnected, page, mic, history, Flags, Values, Connected
<1>7. CASE OnDisconnected
      BY <1>7 DEF OnDisconnected, Unmount, page, mic, history, Flags, Values,
             Connected
<1>8. CASE RecoverMedia
      BY <1>8 DEF RecoverMedia, Unmount, page, mic, history, Flags, Values,
             Connected
<1>9. CASE Leave
      BY <1>9 DEF Leave, page, mic, history, Flags, Values, Connected
<1>10. CASE End
      BY <1>10 DEF End, page, mic, history, Flags, Values, Connected
<1>11. CASE Left
      BY <1>11 DEF Left, GoHome, Unmount, page, mic, history, Flags, Values,
             Connected
<1>12. CASE Ended
      BY <1>12 DEF Ended, GoHome, Unmount, page, mic, history, Flags,
             Values, Connected
<1>13. CASE EndRefused
      BY <1>13 DEF EndRefused, page, mic, history, Flags, Values, Connected
<1>14. CASE OnSocketEnd
      BY <1>14 DEF OnSocketEnd, GoHome, Unmount, page, mic, history, Flags,
             Values, Connected
<1>15. CASE Mute
      BY <1>15 DEF Mute, page, history, Flags, Values, Connected
<1>16. CASE OnMute
      BY <1>16 DEF OnMute, page, history, Flags, Values, Connected
<1>17. CASE LoseMute
      BY <1>17 DEF LoseMute, page, history, Flags, Values, Connected
<1>18. CASE OnDevice
  <2>1. Head(queue) \in Request
        BY <1>18 DEF OnDevice, Values
  <2>2. Head(queue).on \in BOOLEAN
        BY <2>1 DEF Request
  <2>3. live' \in BOOLEAN /\ shown' \in BOOLEAN
        BY <1>18, <2>2 DEF OnDevice, Flags
  <2>4. crossed' \in BOOLEAN
        BY <1>18 DEF OnDevice
  <2>5. UNCHANGED <<page, isHost, saved, audio, flag, muting, silenced, late>>
        BY <1>18 DEF OnDevice
  <2> QED BY <2>3, <2>4, <2>5 DEF Flags, page
<1>19. CASE OnDeviceRefused
      BY <1>19 DEF OnDeviceRefused, page, history, Flags, Values, Connected
<1>20. ASSUME NEW c \in Click, Clicks(c)
      PROVE  Flags'
  <2>1. CASE Toggle(c)
        BY <2>1 DEF Toggle, Begin, page, Flags, Values, Connected, Settings,
             Handler
  <2>2. CASE ToggleInSettings(c)
        BY <2>2 DEF ToggleInSettings, Begin, page, Flags, Values, Connected,
             Settings, Handler
  <2>3. CASE OnDeviceAdrift(c)
        BY <2>3 DEF OnDeviceAdrift, page, history, Flags, Values, Connected,
             Settings, Handler
  <2>4. CASE Media(c)
        BY <2>4 DEF Media, page, history, Flags, Values, Connected, Settings,
             Handler
  <2>5. CASE MediaFails(c)
        BY <2>5 DEF MediaFails, page, history, Flags, Values, Connected,
             Settings, Handler
  <2>6. CASE Sync(c)
        BY <2>6 DEF Sync, page, history, Flags, Values, Connected, Settings,
             Handler
  <2> QED BY <1>20, <2>1, <2>2, <2>3, <2>4, <2>5, <2>6 DEF Clicks
<1> QED BY <1>1, <1>2, <1>3, <1>4, <1>5, <1>6, <1>7, <1>8, <1>9, <1>10, <1>11,
             <1>12, <1>13, <1>14, <1>15, <1>16, <1>17, <1>18, <1>19, <1>20
             DEF Next, Device, HostMute, Room, Exit

\* The values, the queue and the handlers keep their types.
LEMMA ValuesKept ==
    ASSUME CallInv, Next
    PROVE  Values'
<1> USE DEF CallInv
<1>1. CASE Choose
      BY <1>1 DEF Choose, page, mic, history, Values, Flags, Request,
             Handler, Step
<1>2. CASE JoinNow
      BY <1>2 DEF JoinNow, page, mic, history, Values, Flags, Request,
             Handler, Step
<1>3. CASE Render
      BY <1>3 DEF Render, page, mic, history, Values, Flags, Request,
             Handler, Step
<1>4. CASE OnConnected
      BY <1>4 DEF OnConnected, page, mic, history, Values, Flags, Request,
             Handler, Step
<1>5. CASE OnReconnecting
      BY <1>5 DEF OnReconnecting, page, mic, history, Values, Flags, Request,
             Handler, Step
<1>6. CASE OnReconnected
      BY <1>6 DEF OnReconnected, page, mic, history, Values, Flags, Request,
             Handler, Step
<1>7. CASE OnDisconnected
  <2>1. CASE Unmount("home")
        BY <1>7, <2>1, UnmountedValues DEF Values, OnDisconnected
  <2>2. CASE ~Unmount("home")
    <3>1. /\ room' = "down" /\ mediaStatus' = "disconnected"
          /\ UNCHANGED <<at, queue, click, exit>>
          BY <1>7, <2>2 DEF OnDisconnected
    <3> QED BY <3>1 DEF Values
  <2> QED BY <2>1, <2>2
<1>8. CASE RecoverMedia
      BY <1>8 DEF RecoverMedia, Unmount, page, mic, history, Values, Flags,
             Request, Handler, Step, Adrift, Idle
<1>9. CASE Leave
      BY <1>9 DEF Leave, page, mic, history, Values, Flags, Request,
             Handler, Step
<1>10. CASE End
      BY <1>10 DEF End, page, mic, history, Values, Flags, Request, Handler,
             Step
<1>11. CASE Left
      BY <1>11 DEF Left, GoHome, Unmount, page, mic, history, Values, Flags,
             Request, Handler, Step, Adrift, Idle
<1>12. CASE Ended
      BY <1>12 DEF Ended, GoHome, Unmount, page, mic, history, Values,
             Flags, Request, Handler, Step, Adrift, Idle
<1>13. CASE EndRefused
      BY <1>13 DEF EndRefused, page, mic, history, Values, Flags, Request,
             Handler, Step
<1>14. CASE OnSocketEnd
      BY <1>14 DEF OnSocketEnd, GoHome, Unmount, page, mic, history, Values,
             Flags, Request, Handler, Step, Adrift, Idle
<1>15. CASE Mute
      BY <1>15 DEF Mute, page, history, Values, Flags, Request, Handler, Step
<1>16. CASE OnMute
  <2>1. [by |-> Host, on |-> FALSE] \in Request
        BY DEF Request
  <2>2. CASE queue' = Append(queue, [by |-> Host, on |-> FALSE])
        BY <1>16, <2>1, <2>2 DEF OnMute, Values, page
  <2>3. CASE queue' = queue
        BY <1>16, <2>3 DEF OnMute, Values, page
  <2> QED BY <1>16, <2>2, <2>3 DEF OnMute
<1>17. CASE LoseMute
      BY <1>17 DEF LoseMute, page, history, Values, Flags, Request, Handler,
             Step
<1>18. CASE OnDevice
      BY <1>18 DEF OnDevice, page, history, Values, Flags, Request, Handler,
             Step, Resumed, Idle
<1>19. CASE OnDeviceRefused
      BY <1>19 DEF OnDeviceRefused, page, history, Values, Flags, Request,
             Handler, Step, Resumed, Idle
<1>20. ASSUME NEW c \in Click, Clicks(c)
      PROVE  Values'
  <2>1. CASE Toggle(c)
        BY <2>1 DEF Toggle, Begin, page, Values, Flags, Request, Handler,
             Step, Idle
  <2>2. CASE ToggleInSettings(c)
        BY <2>2 DEF ToggleInSettings, Begin, page, Values, Flags, Request,
             Handler, Step, Idle
  <2>3. CASE OnDeviceAdrift(c)
    <3>1. CASE click' = [click EXCEPT ![c].step = "sent"]
          BY <2>3, <3>1 DEF Values, OnDeviceAdrift, Handler, Step, page
    <3>2. CASE click' = [click EXCEPT ![c] = Idle]
          BY <2>3, <3>2, IdleIsHandler DEF Values, OnDeviceAdrift, page
    <3> QED BY <2>3, <3>1, <3>2 DEF OnDeviceAdrift
  <2>4. CASE Media(c)
        BY <2>4 DEF Media, page, history, Values, Flags, Request, Handler,
             Step, Idle
  <2>5. CASE MediaFails(c)
        BY <2>5 DEF MediaFails, page, history, Values, Flags, Request,
             Handler, Step, Idle
  <2>6. CASE Sync(c)
        BY <2>6 DEF Sync, page, history, Values, Flags, Request, Handler,
             Step, Idle
  <2> QED BY <1>20, <2>1, <2>2, <2>3, <2>4, <2>5, <2>6 DEF Clicks
<1> QED BY <1>1, <1>2, <1>3, <1>4, <1>5, <1>6, <1>7, <1>8, <1>9, <1>10, <1>11,
             <1>12, <1>13, <1>14, <1>15, <1>16, <1>17, <1>18, <1>19, <1>20
             DEF Next, Device, HostMute, Room, Exit

\* The status follows the room, and the room the page.
LEMMA PlacedKept ==
    ASSUME CallInv, Next
    PROVE  Placed' /\ StatusTracksRoom'
<1> USE DEF CallInv
<1>1. CASE Choose
      BY <1>1 DEF Choose, page, mic, history, Placed, StatusTracksRoom,
             Connected, Values
<1>2. CASE JoinNow
      BY <1>2 DEF JoinNow, page, mic, history, Placed, StatusTracksRoom,
             Connected, Values
<1>3. CASE Render
      BY <1>3 DEF Render, page, mic, history, Placed, StatusTracksRoom,
             Connected, Values
<1>4. CASE OnConnected
      BY <1>4 DEF OnConnected, page, mic, history, Placed, StatusTracksRoom,
             Connected, Values
<1>5. CASE OnReconnecting
      BY <1>5 DEF OnReconnecting, page, mic, history, Placed,
             StatusTracksRoom, Connected, Values
<1>6. CASE OnReconnected
      BY <1>6 DEF OnReconnected, page, mic, history, Placed, StatusTracksRoom,
             Connected, Values
<1>7. CASE OnDisconnected
      BY <1>7 DEF OnDisconnected, CanBeLost, Unmount, page, mic, history, Placed,
             StatusTracksRoom, Connected, Values
<1>8. CASE RecoverMedia
      BY <1>8 DEF RecoverMedia, Unmount, page, mic, history, Placed,
             StatusTracksRoom, Connected, Values
<1>9. CASE Leave
      BY <1>9 DEF Leave, page, mic, history, Placed, StatusTracksRoom,
             Connected, Values
<1>10. CASE End
      BY <1>10 DEF End, page, mic, history, Placed, StatusTracksRoom,
             Connected, Values
<1>11. CASE Left
      BY <1>11 DEF Left, GoHome, Unmount, page, mic, history, Placed,
             StatusTracksRoom, Connected, Values
<1>12. CASE Ended
      BY <1>12 DEF Ended, GoHome, Unmount, page, mic, history, Placed,
             StatusTracksRoom, Connected, Values
<1>13. CASE EndRefused
      BY <1>13 DEF EndRefused, page, mic, history, Placed, StatusTracksRoom,
             Connected, Values
<1>14. CASE OnSocketEnd
      BY <1>14 DEF OnSocketEnd, GoHome, Unmount, page, mic, history, Placed,
             StatusTracksRoom, Connected, Values
<1>15. CASE Mute
      BY <1>15 DEF Mute, page, history, Placed, StatusTracksRoom, Connected,
             Values
<1>16. CASE OnMute
      BY <1>16 DEF OnMute, page, history, Placed, StatusTracksRoom, Connected,
             Values
<1>17. CASE LoseMute
      BY <1>17 DEF LoseMute, page, history, Placed, StatusTracksRoom,
             Connected, Values
<1>18. CASE OnDevice
      BY <1>18 DEF OnDevice, page, history, Placed, StatusTracksRoom,
             Connected, Values
<1>19. CASE OnDeviceRefused
      BY <1>19 DEF OnDeviceRefused, page, history, Placed, StatusTracksRoom,
             Connected, Values
<1>20. ASSUME NEW c \in Click, Clicks(c)
      PROVE  Placed' /\ StatusTracksRoom'
  <2>1. CASE Toggle(c)
        BY <2>1 DEF Toggle, Begin, page, Placed, StatusTracksRoom, Connected,
             Values
  <2>2. CASE ToggleInSettings(c)
        BY <2>2 DEF ToggleInSettings, Begin, page, Placed, StatusTracksRoom,
             Connected, Values
  <2>3. CASE OnDeviceAdrift(c)
        BY <2>3 DEF OnDeviceAdrift, page, history, Placed, StatusTracksRoom,
             Connected, Values
  <2>4. CASE Media(c)
        BY <2>4 DEF Media, page, history, Placed, StatusTracksRoom, Connected,
             Values
  <2>5. CASE MediaFails(c)
        BY <2>5 DEF MediaFails, page, history, Placed, StatusTracksRoom,
             Connected, Values
  <2>6. CASE Sync(c)
        BY <2>6 DEF Sync, page, history, Placed, StatusTracksRoom, Connected,
             Values
  <2> QED BY <1>20, <2>1, <2>2, <2>3, <2>4, <2>5, <2>6 DEF Clicks
<1> QED BY <1>1, <1>2, <1>3, <1>4, <1>5, <1>6, <1>7, <1>8, <1>9, <1>10, <1>11,
             <1>12, <1>13, <1>14, <1>15, <1>16, <1>17, <1>18, <1>19, <1>20
             DEF Next, Device, HostMute, Room, Exit

\* intentionalLeave is set by those who have asked, or by the socket.
LEMMA AskedKept ==
    ASSUME CallInv, Next
    PROVE  Asked' /\ HomeOnlyWhenAsked'
<1> USE DEF CallInv
<1>1. CASE Choose
      BY <1>1 DEF Choose, page, mic, history, Asked, HomeOnlyWhenAsked
<1>2. CASE JoinNow
      BY <1>2 DEF JoinNow, page, mic, history, Asked, HomeOnlyWhenAsked
<1>3. CASE Render
      BY <1>3 DEF Render, page, mic, history, Asked, HomeOnlyWhenAsked
<1>4. CASE OnConnected
      BY <1>4 DEF OnConnected, page, mic, history, Asked, HomeOnlyWhenAsked
<1>5. CASE OnReconnecting
      BY <1>5 DEF OnReconnecting, page, mic, history, Asked, HomeOnlyWhenAsked
<1>6. CASE OnReconnected
      BY <1>6 DEF OnReconnected, page, mic, history, Asked, HomeOnlyWhenAsked
<1>7. CASE OnDisconnected
      BY <1>7 DEF OnDisconnected, Unmount, page, mic, history, Asked,
             HomeOnlyWhenAsked
<1>8. CASE RecoverMedia
      BY <1>8 DEF RecoverMedia, Unmount, page, mic, history, Asked,
             HomeOnlyWhenAsked
<1>9. CASE Leave
      BY <1>9 DEF Leave, page, mic, history, Asked, HomeOnlyWhenAsked
<1>10. CASE End
      BY <1>10 DEF End, page, mic, history, Asked, HomeOnlyWhenAsked
<1>11. CASE Left
      BY <1>11 DEF Left, GoHome, Unmount, page, mic, history, Asked,
             HomeOnlyWhenAsked
<1>12. CASE Ended
      BY <1>12 DEF Ended, GoHome, Unmount, page, mic, history, Asked,
             HomeOnlyWhenAsked
<1>13. CASE EndRefused
      BY <1>13 DEF EndRefused, page, mic, history, Asked, HomeOnlyWhenAsked
<1>14. CASE OnSocketEnd
      BY <1>14 DEF OnSocketEnd, GoHome, Unmount, page, mic, history, Asked,
             HomeOnlyWhenAsked
<1>15. CASE Mute
      BY <1>15 DEF Mute, page, history, Asked, HomeOnlyWhenAsked
<1>16. CASE OnMute
      BY <1>16 DEF OnMute, page, history, Asked, HomeOnlyWhenAsked
<1>17. CASE LoseMute
      BY <1>17 DEF LoseMute, page, history, Asked, HomeOnlyWhenAsked
<1>18. CASE OnDevice
      BY <1>18 DEF OnDevice, page, history, Asked, HomeOnlyWhenAsked
<1>19. CASE OnDeviceRefused
      BY <1>19 DEF OnDeviceRefused, page, history, Asked, HomeOnlyWhenAsked
<1>20. ASSUME NEW c \in Click, Clicks(c)
      PROVE  Asked' /\ HomeOnlyWhenAsked'
  <2>1. CASE Toggle(c)
        BY <2>1 DEF Toggle, Begin, page, Asked, HomeOnlyWhenAsked
  <2>2. CASE ToggleInSettings(c)
        BY <2>2 DEF ToggleInSettings, Begin, page, Asked, HomeOnlyWhenAsked
  <2>3. CASE OnDeviceAdrift(c)
        BY <2>3 DEF OnDeviceAdrift, page, history, Asked, HomeOnlyWhenAsked
  <2>4. CASE Media(c)
        BY <2>4 DEF Media, page, history, Asked, HomeOnlyWhenAsked
  <2>5. CASE MediaFails(c)
        BY <2>5 DEF MediaFails, page, history, Asked, HomeOnlyWhenAsked
  <2>6. CASE Sync(c)
        BY <2>6 DEF Sync, page, history, Asked, HomeOnlyWhenAsked
  <2> QED BY <1>20, <2>1, <2>2, <2>3, <2>4, <2>5, <2>6 DEF Clicks
<1> QED BY <1>1, <1>2, <1>3, <1>4, <1>5, <1>6, <1>7, <1>8, <1>9, <1>10, <1>11,
             <1>12, <1>13, <1>14, <1>15, <1>16, <1>17, <1>18, <1>19, <1>20
             DEF Next, Device, HostMute, Room, Exit

\* A mute stays the last word until the user clicks or media is connected anew.
LEMMA SilentKept ==
    ASSUME CallInv, Next
    PROVE  Silent' /\ MuteSilences'
<1> USE DEF CallInv
<1>1. CASE Choose
      BY <1>1 DEF Choose, page, mic, history, Silent, MuteSilences, Placed,
             Connected, Values
<1>2. CASE JoinNow
      BY <1>2 DEF JoinNow, page, mic, history, Silent, MuteSilences, Placed,
             Connected, Values
<1>3. CASE Render
      BY <1>3 DEF Render, page, mic, history, Silent, MuteSilences, Placed,
             Connected, Values
<1>4. CASE OnConnected
      BY <1>4, CallersDiffer DEF OnConnected, page, mic, history, Silent,
             MuteSilences, Placed, Connected, Values, Request
<1>5. CASE OnReconnecting
      BY <1>5 DEF OnReconnecting, page, mic, history, Silent, MuteSilences,
             Placed, Connected, Values
<1>6. CASE OnReconnected
      BY <1>6 DEF OnReconnected, page, mic, history, Silent, MuteSilences,
             Placed, Connected, Values
<1>7. CASE OnDisconnected
      BY <1>7 DEF OnDisconnected, Unmount, page, mic, history, Silent,
             MuteSilences, Placed, Connected, Values
<1>8. CASE RecoverMedia
      BY <1>8 DEF RecoverMedia, Unmount, page, mic, history, Silent,
             MuteSilences, Placed, Connected, Values
<1>9. CASE Leave
      BY <1>9 DEF Leave, page, mic, history, Silent, MuteSilences, Placed,
             Connected, Values
<1>10. CASE End
      BY <1>10 DEF End, page, mic, history, Silent, MuteSilences, Placed,
             Connected, Values
<1>11. CASE Left
      BY <1>11 DEF Left, GoHome, Unmount, page, mic, history, Silent,
             MuteSilences, Placed, Connected, Values
<1>12. CASE Ended
      BY <1>12 DEF Ended, GoHome, Unmount, page, mic, history, Silent,
             MuteSilences, Placed, Connected, Values
<1>13. CASE EndRefused
      BY <1>13 DEF EndRefused, page, mic, history, Silent, MuteSilences,
             Placed, Connected, Values
<1>14. CASE OnSocketEnd
      BY <1>14 DEF OnSocketEnd, GoHome, Unmount, page, mic, history, Silent,
             MuteSilences, Placed, Connected, Values
<1>15. CASE Mute
      BY <1>15 DEF Mute, page, history, Silent, MuteSilences, Placed,
             Connected, Values
<1>16. CASE OnMute
  <2>1. CASE at # "call"
        BY <1>16, <2>1 DEF OnMute, page, Silent, MuteSilences, Placed
  <2>2. CASE at = "call"
    <3>1. /\ queue' = Append(queue, [by |-> Host, on |-> FALSE])
          /\ room' = room /\ silenced' = (room # "connecting")
          BY <1>16, <2>2 DEF OnMute, page
    <3>2. [by |-> Host, on |-> FALSE] \in Request
          BY DEF Request
    <3>3. /\ Len(queue) + 1 \in DOMAIN queue'
          /\ queue'[Len(queue) + 1] = [by |-> Host, on |-> FALSE]
          /\ \A i \in DOMAIN queue' \ {Len(queue) + 1} :
                i \in DOMAIN queue /\ i < Len(queue) + 1 /\ queue'[i] = queue[i]
          BY <3>1, <3>2, Appended DEF Values
    <3>4. \A i \in DOMAIN queue' : queue'[i].by = Host => ~queue'[i].on
          BY <3>3 DEF Silent
    <3>5. \A i \in DOMAIN queue' : queue'[i].on =>
              \E j \in DOMAIN queue' : j > i /\ queue'[j].by = Host
          BY <3>3
    <3>6. silenced' => room' # "connecting"
          BY <3>1
    <3>7. \E i \in DOMAIN queue' : queue'[i].by = Host
          BY <3>3
    <3>8. Silent'
          BY <3>4, <3>5, <3>6 DEF Silent
    <3>9. MuteSilences'
          BY <3>7 DEF MuteSilences
    <3> QED BY <3>8, <3>9
  <2> QED BY <2>1, <2>2
<1>17. CASE LoseMute
      BY <1>17 DEF LoseMute, page, history, Silent, MuteSilences, Placed,
             Connected, Values
<1>18. CASE OnDevice
  <2>1. Silent'
        BY <1>18, SilentTail DEF OnDevice, page
  <2>2. ASSUME silenced', \A i \in DOMAIN queue' : queue'[i].by # Host
        PROVE  ~live'
    <3>1. ~Head(queue).on
          BY <1>18, <2>2, HostBehindHead DEF OnDevice
    <3> QED BY <1>18, <3>1 DEF OnDevice, Placed
  <2> QED BY <2>1, <2>2 DEF MuteSilences
<1>19. CASE OnDeviceRefused
  <2>1. Silent'
        BY <1>19, SilentTail DEF OnDeviceRefused, page, history
  <2>2. ~(silenced' /\ \A i \in DOMAIN queue' : queue'[i].by # Host)
        BY <1>19, HostBehindHead DEF OnDeviceRefused, history
  <2> QED BY <2>1, <2>2 DEF MuteSilences
<1>20. ASSUME NEW c \in Click, Clicks(c)
      PROVE  Silent' /\ MuteSilences'
  <2>1. CASE Toggle(c)
        BY <2>1, BeginIsSilent DEF Toggle, Flags
  <2>2. CASE ToggleInSettings(c)
        BY <2>2, BeginIsSilent DEF ToggleInSettings, Flags
  <2>3. CASE OnDeviceAdrift(c)
        BY <2>3 DEF OnDeviceAdrift, page, history, Silent, MuteSilences,
             Placed, Connected, Values
  <2>4. CASE Media(c)
        BY <2>4 DEF Media, page, history, Silent, MuteSilences, Placed,
             Connected, Values
  <2>5. CASE MediaFails(c)
        BY <2>5 DEF MediaFails, page, history, Silent, MuteSilences, Placed,
             Connected, Values
  <2>6. CASE Sync(c)
        BY <2>6 DEF Sync, page, history, Silent, MuteSilences, Placed,
             Connected, Values
  <2> QED BY <1>20, <2>1, <2>2, <2>3, <2>4, <2>5, <2>6 DEF Clicks
<1> QED BY <1>1, <1>2, <1>3, <1>4, <1>5, <1>6, <1>7, <1>8, <1>9, <1>10, <1>11,
             <1>12, <1>13, <1>14, <1>15, <1>16, <1>17, <1>18, <1>19, <1>20
             DEF Next, Device, HostMute, Room, Exit

\* A handler is added to the queue and to those that await it.
LEMMA BeginIsQueued ==
    ASSUME CallInv, NEW c \in Click, NEW by \in {"controls", "settings"},
           NEW on \in BOOLEAN, Begin(c, by, on)
    PROVE  Queued'
<1> USE DEF CallInv
<1>1. [by |-> c, on |-> on] \in Request
      BY DEF Request
<1>2. click[c].step = "idle" /\ (\A i \in DOMAIN queue : queue[i].by # c)
      BY DEF Begin, Queued
<1>3. /\ Len(queue) + 1 \in DOMAIN queue' /\ queue'[Len(queue) + 1].by = c
      /\ \A i \in DOMAIN queue : i \in DOMAIN queue' /\ queue'[i] = queue[i]
      /\ \A i \in DOMAIN queue' \ {Len(queue) + 1} : i \in DOMAIN queue
      BY <1>1, Appended DEF Begin, Values
<1>4. /\ click'[c].step = "device" /\ click'[c] # Idle
      /\ \A d \in Click \ {c} : click'[d] = click[d]
      BY DEF Begin, Values, Handler, Idle
<1>5. \A d \in Click : click'[d] = Idle <=> click'[d].step = "idle"
      BY <1>4 DEF Queued
<1>6. \A d \in Click : click'[d].step = "device" <=>
                          \E i \in DOMAIN queue' : queue'[i].by = d
      BY <1>3, <1>4 DEF Queued
<1>7. \A i, j \in DOMAIN queue' :
          queue'[i].by \in Click /\ queue'[i].by = queue'[j].by => i = j
      BY <1>2, <1>3 DEF Queued
<1> QED BY <1>5, <1>6, <1>7 DEF Queued

\* A call that no handler awaits is added.
LEMMA OtherIsQueued ==
    ASSUME Values, Queued, NEW r \in Request, r.by \notin Click,
           queue' = Append(queue, r), click' = click
    PROVE  Queued'
<1>1. /\ Len(queue) + 1 \in DOMAIN queue' /\ queue'[Len(queue) + 1] = r
      /\ \A i \in DOMAIN queue : i \in DOMAIN queue' /\ queue'[i] = queue[i]
      /\ \A i \in DOMAIN queue' \ {Len(queue) + 1} : i \in DOMAIN queue
      BY Appended DEF Values
<1>2. \A d \in Click : click'[d].step = "device" <=>
                          \E i \in DOMAIN queue' : queue'[i].by = d
      BY <1>1 DEF Queued
<1>3. \A i, j \in DOMAIN queue' :
          queue'[i].by \in Click /\ queue'[i].by = queue'[j].by => i = j
      BY <1>1 DEF Queued
<1> QED BY <1>2, <1>3 DEF Queued

\* The first call is taken, and its handler goes on to another step.
LEMMA TailIsQueued ==
    ASSUME Values, Queued, queue # <<>>, queue' = Tail(queue),
           \A c \in Click : c # Head(queue).by => click'[c] = click[c],
           Head(queue).by \in Click =>
               /\ click'[Head(queue).by].step # "device"
               /\ click'[Head(queue).by] = Idle <=>
                      click'[Head(queue).by].step = "idle"
    PROVE  Queued'
<1>1. /\ 1 \in DOMAIN queue /\ Head(queue) = queue[1]
      /\ \A i \in DOMAIN queue' :
            i + 1 \in DOMAIN queue /\ i + 1 # 1 /\ queue'[i] = queue[i + 1]
      /\ \A i \in DOMAIN queue \ {1} :
            i - 1 \in DOMAIN queue' /\ queue'[i - 1] = queue[i]
      BY Shortened DEF Values
<1>2. \A d \in Click : click'[d] = Idle <=> click'[d].step = "idle"
      BY DEF Queued
<1>3. ASSUME NEW d \in Click
      PROVE  click'[d].step = "device" <=> \E i \in DOMAIN queue' : queue'[i].by = d
  <2>1. CASE d = Head(queue).by
        BY <1>1, <2>1 DEF Queued
  <2>2. CASE d # Head(queue).by
    <3>1. ASSUME NEW i \in DOMAIN queue', queue'[i].by = d
          PROVE  \E j \in DOMAIN queue : queue[j].by = d
          BY <1>1, <3>1
    <3>2. ASSUME NEW j \in DOMAIN queue, queue[j].by = d
          PROVE  \E i \in DOMAIN queue' : queue'[i].by = d
      <4>1. j \in DOMAIN queue \ {1}
            BY <1>1, <2>2, <3>2
      <4> QED BY <1>1, <3>2, <4>1
    <3>3. click'[d] = click[d]
          BY <2>2
    <3> QED BY <3>1, <3>2, <3>3 DEF Queued
  <2> QED BY <2>1, <2>2
<1>4. ASSUME NEW i \in DOMAIN queue', NEW j \in DOMAIN queue',
             queue'[i].by \in Click, queue'[i].by = queue'[j].by
      PROVE  i = j
  <2>1. i + 1 = j + 1
        BY <1>1, <1>4 DEF Queued
  <2>2. i \in Int /\ j \in Int
        BY Shortened DEF Values
  <2> QED BY <2>1, <2>2
<1> QED BY <1>2, <1>3, <1>4 DEF Queued

\* Without a room nobody awaits it.
LEMMA UnmountedQueued ==
    ASSUME Values, Queued, NEW where \in {"prejoin", "home"}, Unmount(where)
    PROVE  Queued'
<1>1. Idle.step = "idle" /\ Idle.by = "nobody"
      BY DEF Idle
<1>2. ASSUME NEW c \in Click
      PROVE  /\ Adrift[c].step # "device"
             /\ Adrift[c] = Idle <=> Adrift[c].step = "idle"
  <2>1. CASE click[c].step = "device"
        BY <2>1, <1>1 DEF Adrift, Values, Handler
  <2>2. CASE click[c].step # "device"
        BY <2>2 DEF Adrift, Queued
  <2> QED BY <2>1, <2>2
<1>3. ASSUME NEW c \in Click
      PROVE  /\ click'[c].step # "device"
             /\ click'[c] = Idle <=> click'[c].step = "idle"
      BY <1>1, <1>2 DEF Unmount
<1>4. DOMAIN queue' = {}
      BY DEF Unmount
<1> QED BY <1>3, <1>4 DEF Queued

\* Who awaits the device is in the queue, and once.
LEMMA QueuedKept ==
    ASSUME CallInv, Next
    PROVE  Queued'
<1> USE DEF CallInv
<1>1. CASE Choose
      BY <1>1 DEF Choose, page, mic, history, Queued
<1>2. CASE JoinNow
      BY <1>2 DEF JoinNow, page, mic, history, Queued
<1>3. CASE Render
      BY <1>3 DEF Render, page, mic, history, Queued
<1>4. CASE OnConnected
  <2>1. [by |-> Start, on |-> audio] \in Request
        BY DEF Request, Flags
  <2> QED BY <1>4, <2>1, OtherIsQueued, CallersDiffer DEF OnConnected
<1>5. CASE OnReconnecting
      BY <1>5 DEF OnReconnecting, page, mic, history, Queued
<1>6. CASE OnReconnected
      BY <1>6 DEF OnReconnected, page, mic, history, Queued
<1>7. CASE OnDisconnected
  <2>1. CASE Unmount("home")
        BY <1>7, <2>1, UnmountedQueued
  <2>2. CASE ~Unmount("home")
        BY <1>7, <2>2 DEF OnDisconnected, Queued
  <2> QED BY <2>1, <2>2
<1>8. CASE RecoverMedia
      BY <1>8, UnmountedQueued DEF RecoverMedia, GoHome
<1>9. CASE Leave
      BY <1>9 DEF Leave, page, mic, history, Queued
<1>10. CASE End
      BY <1>10 DEF End, page, mic, history, Queued
<1>11. CASE Left
      BY <1>11, UnmountedQueued DEF Left, GoHome
<1>12. CASE Ended
      BY <1>12, UnmountedQueued DEF Ended, GoHome
<1>13. CASE EndRefused
      BY <1>13 DEF EndRefused, page, mic, history, Queued
<1>14. CASE OnSocketEnd
      BY <1>14, UnmountedQueued DEF OnSocketEnd, GoHome
<1>15. CASE Mute
      BY <1>15 DEF Mute, page, history, Queued
<1>16. CASE OnMute
  <2>1. CASE at # "call"
        BY <1>16, <2>1 DEF OnMute, Queued
  <2>2. CASE at = "call"
    <3>1. [by |-> Host, on |-> FALSE] \in Request
          BY DEF Request
    <3>2. click' = click /\ queue' = Append(queue, [by |-> Host, on |-> FALSE])
          BY <1>16, <2>2 DEF OnMute
    <3> QED BY <3>1, <3>2, OtherIsQueued, CallersDiffer
  <2> QED BY <2>1, <2>2
<1>17. CASE LoseMute
      BY <1>17 DEF LoseMute, page, history, Queued
<1>18. CASE OnDevice
  <2>1. /\ queue # <<>> /\ queue' = Tail(queue)
        /\ click' = Resumed(Head(queue).by)
        BY <1>18 DEF OnDevice
  <2>2. /\ \A c \in Click : c # Head(queue).by => click'[c] = click[c]
        /\ Head(queue).by \in Click => click'[Head(queue).by].step = "sent"
        BY <2>1 DEF Resumed, Values, Handler
  <2> QED BY <2>1, <2>2, TailIsQueued DEF Idle
<1>19. CASE OnDeviceRefused
  <2>1. /\ queue # <<>> /\ queue' = Tail(queue)
        /\ click' = IF Head(queue).by \in Click
                     THEN [click EXCEPT ![Head(queue).by] = Idle] ELSE click
        BY <1>19 DEF OnDeviceRefused
  <2>2. /\ \A c \in Click : c # Head(queue).by => click'[c] = click[c]
        /\ Head(queue).by \in Click => click'[Head(queue).by] = Idle
        BY <2>1 DEF Values
  <2> QED BY <2>1, <2>2, TailIsQueued DEF Idle
<1>20. ASSUME NEW c \in Click, Clicks(c)
      PROVE  Queued'
  <2>1. CASE Toggle(c)
        BY <2>1, BeginIsQueued DEF Toggle, Flags
  <2>2. CASE ToggleInSettings(c)
        BY <2>2, BeginIsQueued DEF ToggleInSettings, Flags
  <2>3. CASE OnDeviceAdrift(c)
    <3>1. CASE click' = [click EXCEPT ![c].step = "sent"]
      <4>1. click'[c] # Idle /\ click'[c].step = "sent"
            BY <3>1 DEF Values, Handler, Idle
      <4>2. \A d \in Click \ {c} : click'[d] = click[d]
            BY <3>1 DEF Values
      <4>3. queue' = queue /\ click[c].step # "device"
            BY <2>3 DEF OnDeviceAdrift
      <4> QED BY <4>1, <4>2, <4>3 DEF Queued
    <3>2. CASE click' = [click EXCEPT ![c] = Idle]
      <4>1. click'[c] = Idle /\ click'[c].step = "idle"
            BY <3>2 DEF Values, Idle
      <4>2. \A d \in Click \ {c} : click'[d] = click[d]
            BY <3>2 DEF Values
      <4>3. queue' = queue /\ click[c].step # "device"
            BY <2>3 DEF OnDeviceAdrift
      <4> QED BY <4>1, <4>2, <4>3 DEF Queued
    <3> QED BY <2>3, <3>1, <3>2 DEF OnDeviceAdrift
  <2>4. CASE Media(c)
    <3>1. \A d \in Click \ {c} : click'[d] = click[d]
          BY <2>4 DEF Media, Values
    <3>2. /\ click[c].step # "device" /\ click'[c].step # "device"
          /\ click'[c] = Idle <=> click'[c].step = "idle"
          BY <2>4 DEF Media, Values, Handler, Idle
    <3>3. queue' = queue
          BY <2>4 DEF Media
    <3> QED BY <3>1, <3>2, <3>3 DEF Queued
  <2>5. CASE MediaFails(c)
    <3>1. \A d \in Click \ {c} : click'[d] = click[d]
          BY <2>5 DEF MediaFails, Values
    <3>2. /\ click[c].step # "device" /\ click'[c].step # "device"
          /\ click'[c] = Idle <=> click'[c].step = "idle"
          BY <2>5 DEF MediaFails, Values, Handler, Idle
    <3>3. queue' = queue
          BY <2>5 DEF MediaFails
    <3> QED BY <3>1, <3>2, <3>3 DEF Queued
  <2>6. CASE Sync(c)
    <3>1. \A d \in Click \ {c} : click'[d] = click[d]
          BY <2>6 DEF Sync, Values
    <3>2. /\ click[c].step # "device" /\ click'[c].step # "device"
          /\ click'[c] = Idle <=> click'[c].step = "idle"
          BY <2>6 DEF Sync, Values, Handler, Idle
    <3>3. queue' = queue
          BY <2>6 DEF Sync
    <3> QED BY <3>1, <3>2, <3>3 DEF Queued
  <2> QED BY <1>20, <2>1, <2>2, <2>3, <2>4, <2>5, <2>6 DEF Clicks
<1> QED BY <1>1, <1>2, <1>3, <1>4, <1>5, <1>6, <1>7, <1>8, <1>9, <1>10, <1>11,
             <1>12, <1>13, <1>14, <1>15, <1>16, <1>17, <1>18, <1>19, <1>20
             DEF Next, Device, HostMute, Room, Exit

LEMMA InitCallInv == Init => CallInv
<1> SUFFICES ASSUME Init PROVE CallInv
    OBVIOUS
<1>1. Flags
      BY DEF Init, Flags
<1>2. Values
      BY IdleIsHandler DEF Init, Values
<1>3. Queued
      BY DEF Init, Queued, Idle
<1>4. Placed /\ StatusTracksRoom
      BY DEF Init, Placed, StatusTracksRoom
<1>5. Asked /\ HomeOnlyWhenAsked
      BY DEF Init, Asked, HomeOnlyWhenAsked
<1>6. Silent /\ MuteSilences
      BY DEF Init, Silent, MuteSilences
<1> QED BY <1>1, <1>2, <1>3, <1>4, <1>5, <1>6 DEF CallInv

LEMMA StutterKeepsInv == CallInv /\ UNCHANGED vars => CallInv'
<1> SUFFICES ASSUME CallInv, UNCHANGED vars PROVE CallInv'
    OBVIOUS
<1> USE DEF CallInv, vars, page, mic, history
<1>1. Flags'
      BY DEF Flags
<1>2. Values' /\ Queued'
      BY DEF Values, Queued
<1>3. Placed' /\ StatusTracksRoom'
      BY DEF Placed, StatusTracksRoom, Connected
<1>4. Asked' /\ HomeOnlyWhenAsked'
      BY DEF Asked, HomeOnlyWhenAsked
<1>5. Silent' /\ MuteSilences'
      BY DEF Silent, MuteSilences
<1> QED BY <1>1, <1>2, <1>3, <1>4, <1>5

\* The invariant is inductive: every theorem below is a part of it.
THEOREM CallInductive == Spec => []CallInv
<1>1. CallInv /\ Next => CallInv'
      BY FlagsKept, ValuesKept, QueuedKept, PlacedKept, AskedKept, SilentKept
         DEF CallInv
<1>2. CallInv /\ [Next]_vars => CallInv'
      BY <1>1, StutterKeepsInv
<1> QED BY <1>2, InitCallInv, PTL DEF Spec

\* Every variable of the call keeps its type, and a handler awaits the device
\* exactly while its call is queued.
THEOREM CallTypeCorrect == Spec => []TypeOK
<1>1. CallInv => TypeOK
      BY DEF CallInv, Flags, Values, Queued, TypeOK, Request, Handler
<1> QED BY <1>1, CallInductive, PTL

\* However clicks and the host's mute cross, and however many, the microphone of
\* a muted user is off when the page has carried the mute out.
THEOREM MuteIsFinal == Spec => []MuteSilences
<1>1. CallInv => MuteSilences
      BY DEF CallInv
<1> QED BY <1>1, CallInductive, PTL

\* Whoever loses the room or does not get one is offered the way back, and nobody
\* else is; nobody is sent home but who was told to go, is leaving or ending, or had an
\* end refused, after which a loss of the room does so (MeetingPage.tsx's
\* onLiveKitDisconnected and its intentionalLeave, which a refused end leaves set).
THEOREM RecoveryIsOffered == Spec => []LostMediaIsRecoverable
<1>1. CallInv => LostMediaIsRecoverable
      BY DEF CallInv, LostMediaIsRecoverable
<1> QED BY <1>1, CallInductive, PTL

----------------------------------------------------------------------------

\* A room that goes leaves every handler idle that was.
LEMMA UnmountedIdle ==
    ASSUME Values, NEW where \in {"prejoin", "home"}, Unmount(where), ~InFlight
    PROVE  ~InFlight'
BY DEF Unmount, Adrift, Idle, InFlight, Values

\* A mute that met no click meets none before it ends.
LEMMA MuteAloneKept ==
    ASSUME CallInv, MuteAlone, Next
    PROVE  MuteAlone'
<1> USE DEF CallInv, MuteAlone
<1>1. CASE Choose \/ Render \/ OnConnected \/ OnReconnecting \/ OnReconnected
      BY <1>1 DEF Choose, Render, OnConnected, OnReconnecting, OnReconnected, page,
         mic, history, InFlight
<1>2. CASE Leave \/ End \/ EndRefused \/ LoseMute \/ JoinNow
      BY <1>2 DEF Leave, End, EndRefused, LoseMute, JoinNow, page, mic, history, InFlight
<1>3. CASE OnDisconnected
  <2>1. UNCHANGED <<shown, flag, muting, silenced, late>>
        BY <1>3 DEF OnDisconnected, history
  <2>2. CASE Unmount("home")
        BY <2>1, <2>2, UnmountedIdle
  <2>3. CASE ~Unmount("home")
        BY <1>3, <2>1, <2>3 DEF OnDisconnected, InFlight
  <2> QED BY <2>2, <2>3
<1>4. CASE RecoverMedia \/ Left \/ Ended \/ OnSocketEnd
  <2>1. UNCHANGED <<shown, flag, muting, silenced, late>>
        BY <1>4 DEF RecoverMedia, Left, Ended, OnSocketEnd, GoHome, history
  <2>2. Unmount("prejoin") \/ Unmount("home")
        BY <1>4 DEF RecoverMedia, Left, Ended, OnSocketEnd, GoHome
  <2> QED BY <2>1, <2>2, UnmountedIdle
<1>5. CASE Mute
      BY <1>5 DEF Mute, InFlight
<1>6. CASE OnMute
      BY <1>6 DEF OnMute, InFlight
<1>7. CASE Device
  <2>1. UNCHANGED <<flag, muting, silenced, late>>
        BY <1>7 DEF Device, OnDevice, OnDeviceRefused, history
  <2>2. ASSUME ~InFlight
        PROVE  click' = click /\ shown' = shown
    <3>1. Head(queue) = queue[1] /\ 1 \in DOMAIN queue
          BY <1>7, Shortened DEF Device, OnDevice, OnDeviceRefused, Values
    <3>2. Head(queue).by \notin Click
          BY <2>2, <3>1 DEF InFlight, Queued
    <3> QED BY <1>7, <3>2 DEF Device, OnDevice, OnDeviceRefused, Resumed, FromControls
  <2> QED BY <2>1, <2>2 DEF InFlight
<1>8. ASSUME NEW c \in Click, Clicks(c)
      PROVE  MuteAlone'
  <2>1. CASE Toggle(c) \/ ToggleInSettings(c)
    <3>1. ~silenced' /\ late' = (late \/ muting) /\ muting' = muting
          BY <2>1 DEF Toggle, ToggleInSettings, Begin
    <3> QED BY <3>1 DEF Flags
  <2>2. CASE OnDeviceAdrift(c) \/ Media(c) \/ MediaFails(c) \/ Sync(c)
    <3>1. InFlight /\ UNCHANGED <<muting, silenced, late>>
          BY <2>2 DEF OnDeviceAdrift, Media, MediaFails, Sync, InFlight, history
    <3> QED BY <3>1
  <2> QED BY <1>8, <2>1, <2>2 DEF Clicks
<1> QED BY <1>1, <1>2, <1>3, <1>4, <1>5, <1>6, <1>7, <1>8
        DEF Next, HostMute, Room, Exit

\* Everyone sees a mute that did not cross a click (MeetingControls's listener
\* for the mute, mute of api.go).
THEOREM MuteIsVisible == Spec => []MuteIsSeen
<1>1. Init => MuteAlone
      BY DEF Init, MuteAlone
<1>2. MuteAlone /\ UNCHANGED vars => MuteAlone'
      BY DEF vars, page, mic, history, MuteAlone, InFlight
<1>3. CallInv /\ MuteAlone /\ [Next]_vars => MuteAlone'
      BY <1>2, MuteAloneKept
<1>4. MuteAlone => MuteIsSeen
      BY DEF MuteAlone, MuteIsSeen
<1> QED BY <1>1, <1>3, <1>4, CallInductive, PTL DEF Spec

----------------------------------------------------------------------------

\* A step that changes none of what the button depends on.
LEMMA ButtonQuiet ==
    ASSUME ButtonInv, UNCHANGED <<saved, live, shown, queue, click, crossed>>,
           room' = "connecting" => room = "connecting" /\ audio' \in {audio, saved}
    PROVE  ButtonInv'
BY DEF ButtonInv, Asks, StartIsShown, SettingsAreLast, ShownSoon, HostQueued, Told,
   InSettings

\* PreJoin's toggle, which only a click in the settings can contradict.
LEMMA ButtonChoose ==
    ASSUME CallInv, ButtonInv, Choose
    PROVE  ButtonInv'
<1>1. room' # "connecting" /\ ~live' /\ queue' = <<>> /\ click' = click
      BY DEF Choose, CallInv, Placed, Connected, page
<1>2. Asks'
      BY <1>1 DEF ButtonInv, Asks
<1>3. ~crossed' => \A c \in Click : ~InSettings(c)
      BY DEF Choose, Settings, InSettings
<1> QED BY <1>1, <1>2, <1>3
        DEF ButtonInv, StartIsShown, SettingsAreLast, ShownSoon, InSettings

\* The button and LiveKitRoom start from the choice stored.
LEMMA ButtonJoinNow ==
    ASSUME CallInv, ButtonInv, JoinNow
    PROVE  ButtonInv'
<1>1. /\ ~live' /\ queue' = <<>> /\ queue = <<>> /\ click' = click /\ saved' = saved
      /\ audio' = saved /\ shown' = saved
      BY DEF JoinNow, CallInv, Placed, Connected
<1>2. Asks'
      BY <1>1 DEF ButtonInv, Asks
<1>3. ~crossed' => ~crossed \/ \A c \in Click : ~InSettings(c)
      BY DEF JoinNow, Settings, InSettings
<1> QED BY <1>1, <1>2, <1>3
        DEF ButtonInv, StartIsShown, SettingsAreLast, ShownSoon, InSettings

\* Nothing is queued before LiveKitRoom's own call.
LEMMA ButtonOnConnected ==
    ASSUME CallInv, ButtonInv, OnConnected
    PROVE  ButtonInv'
<1>1. /\ UNCHANGED <<saved, audio, live, shown, click, crossed>>
      /\ room = "connecting" /\ room' = "up"
      /\ queue' = Append(queue, [by |-> Start, on |-> audio])
      BY DEF OnConnected, history
<1>2. [by |-> Start, on |-> audio] \in Request /\ queue \in Seq(Request)
      BY DEF Request, CallInv, Flags, Values
<1>3. /\ \A i \in DOMAIN queue' \ {Len(queue) + 1} : i \in DOMAIN queue /\ queue'[i] = queue[i]
      /\ queue'[Len(queue) + 1] = [by |-> Start, on |-> audio]
      BY <1>1, <1>2, Appended
<1>4. Asks'
      BY <1>1, <1>3, CallersDiffer DEF ButtonInv, Asks
<1>5. ASSUME ~crossed
      PROVE  StartIsShown' /\ SettingsAreLast' /\ ShownSoon'
  <2>1. queue = <<>> /\ audio = saved /\ shown = saved /\ ~live
        BY <1>1, <1>5 DEF ButtonInv, StartIsShown, CallInv, Placed, Connected
  <2>2. /\ \A i \in DOMAIN queue' : i = 1 /\ queue'[i] = [by |-> Start, on |-> saved]
        BY <1>1, <2>1, <1>3
  <2>3. StartIsShown'
        BY <1>1, <2>1, <2>2 DEF StartIsShown
  <2>4. SettingsAreLast'
        BY <1>1, <1>5, <2>1, <2>2 DEF ButtonInv, SettingsAreLast, InSettings
  <2> QED BY <1>1, <2>1, <2>3, <2>4 DEF ShownSoon
<1> QED BY <1>1, <1>4, <1>5 DEF ButtonInv

\* Without a room the microphone is off and nothing is queued.
LEMMA ButtonUnmount ==
    ASSUME CallInv, ButtonInv, NEW where \in {"prejoin", "home"}, Unmount(where),
           UNCHANGED <<saved, shown, crossed>>
    PROVE  ButtonInv'
<1>1. room' = "none" /\ ~live' /\ queue' = <<>>
      BY DEF Unmount
<1>2. ASSUME NEW c \in Click
      PROVE  /\ InSettings(c)' => InSettings(c) /\ click'[c].on = click[c].on
             /\ click'[c].step = "answered" => click'[c] = click[c]
             /\ click'[c].by = "nobody" => click'[c].step = "idle"
  <2>1. CASE where = "home"
        BY <2>1 DEF Unmount, Idle, InSettings
  <2>2. CASE where = "prejoin"
        BY <2>2 DEF Unmount, Adrift, InSettings, CallInv, Values, Handler, ButtonInv, Asks
  <2> QED BY <2>1, <2>2
<1>3. Asks'
      BY <1>1, <1>2 DEF ButtonInv, Asks
<1>4. ~crossed => \A c \in Click : InSettings(c)' => click'[c].on = saved'
      BY <1>2 DEF ButtonInv, SettingsAreLast
<1> QED BY <1>1, <1>3, <1>4 DEF ButtonInv, StartIsShown, SettingsAreLast, ShownSoon

LEMMA ButtonOnDisconnected ==
    ASSUME CallInv, ButtonInv, OnDisconnected
    PROVE  ButtonInv'
<1>1. UNCHANGED <<saved, shown, crossed>>
      BY DEF OnDisconnected, history
<1>2. CASE Unmount("home")
      BY <1>1, <1>2, ButtonUnmount
<1>3. CASE ~Unmount("home")
  <2>1. room' = "down" /\ ~live' /\ UNCHANGED <<queue, click>>
        BY <1>3 DEF OnDisconnected
  <2> QED BY <1>1, <2>1 DEF ButtonInv, Asks, StartIsShown, SettingsAreLast, ShownSoon,
          HostQueued, InSettings
<1> QED BY <1>2, <1>3

\* The host's mute shows "off" and is the last to be carried out.
LEMMA ButtonOnMute ==
    ASSUME CallInv, ButtonInv, OnMute
    PROVE  ButtonInv'
<1>1. CASE at # "call"
      BY <1>1, ButtonQuiet DEF OnMute, page
<1>2. CASE at = "call"
  <2>1. /\ UNCHANGED <<saved, audio, live, click, room>> /\ ~shown'
        /\ queue' = Append(queue, [by |-> Host, on |-> FALSE])
        /\ crossed' = (crossed \/ room = "connecting")
        BY <1>2 DEF OnMute, page
  <2>2. [by |-> Host, on |-> FALSE] \in Request /\ queue \in Seq(Request)
        BY DEF Request, CallInv, Values
  <2>3. /\ \A i \in DOMAIN queue' \ {Len(queue) + 1} :
              i \in DOMAIN queue /\ i < Len(queue) + 1 /\ queue'[i] = queue[i]
        /\ Len(queue) + 1 \in DOMAIN queue'
        /\ queue'[Len(queue) + 1] = [by |-> Host, on |-> FALSE]
        BY <2>1, <2>2, Appended
  <2>4. HostQueued'
        BY <2>3 DEF HostQueued
  <2>5. Asks'
    <3>1. Host \notin Click /\ queue'[Len(queue) + 1].by = Host
          BY <2>3, CallersDiffer
    <3>2. \A i \in DOMAIN queue' : queue'[i].by \in Click =>
              queue'[i].on = click'[queue'[i].by].on
          BY <2>1, <2>3, <3>1 DEF ButtonInv, Asks
    <3> QED BY <2>1, <3>2 DEF ButtonInv, Asks
  <2>6. ASSUME ~crossed'
        PROVE  StartIsShown' /\ SettingsAreLast' /\ ShownSoon'
    <3>1. ~crossed /\ room # "connecting"
          BY <2>1, <2>6
    <3>2. StartIsShown'
          BY <2>1, <2>3, <2>4, <3>1, CallersDiffer DEF ButtonInv, StartIsShown
    <3>3. \A i, j \in DOMAIN queue' :
              i < j /\ InSettings(queue[i].by)' => queue'[j].by = Host
      <4> SUFFICES ASSUME NEW i \in DOMAIN queue', NEW j \in DOMAIN queue',
                          i < j, InSettings(queue[i].by)', j # Len(queue) + 1
                   PROVE  queue'[j].by = Host
          BY <2>3
      <4>1. j \in DOMAIN queue /\ j < Len(queue) + 1 /\ queue'[j] = queue[j]
            BY <2>3
      <4>2. i # Len(queue) + 1
            BY <2>3, CallersDiffer DEF InSettings
      <4>3. i \in DOMAIN queue /\ queue'[i] = queue[i]
            BY <2>3, <4>2
      <4> QED BY <2>1, <3>1, <4>1, <4>3 DEF ButtonInv, SettingsAreLast, InSettings
    <3>4. SettingsAreLast'
          BY <2>1, <2>3, <3>1, <3>3 DEF ButtonInv, SettingsAreLast, InSettings
    <3> QED BY <2>4, <3>2, <3>4 DEF ShownSoon
  <2> QED BY <2>5, <2>6 DEF ButtonInv
<1> QED BY <1>1, <1>2

\* A click comes last; one during an unfinished one in the settings is not followed.
LEMMA ButtonBegin ==
    ASSUME CallInv, ButtonInv, NEW c \in Click, NEW by, NEW on \in BOOLEAN,
           Begin(c, by, on),
           \/ by = "controls" /\ saved' = saved
           \/ by = "settings" /\ on = ~saved /\ saved' = ~saved
    PROVE  ButtonInv'
<1>1. /\ UNCHANGED <<audio, live, shown, room>>
      /\ click' = [click EXCEPT ![c] = [by |-> by, on |-> on, step |-> "device"]]
      /\ queue' = Append(queue, [by |-> c, on |-> on])
      /\ crossed' = (crossed \/ Settings \/ room = "connecting")
      /\ click[c] = Idle
      BY DEF Begin, page
<1>2. [by |-> c, on |-> on] \in Request /\ queue \in Seq(Request)
      BY DEF Request, CallInv, Values
<1>3. /\ click'[c].by = by /\ click'[c].on = on /\ click'[c].step = "device"
      /\ \A d \in Click \ {c} : click'[d] = click[d]
      BY <1>1 DEF CallInv, Values
<1>4. /\ \A i \in DOMAIN queue' \ {Len(queue) + 1} :
            i \in DOMAIN queue /\ i < Len(queue) + 1 /\ queue'[i] = queue[i]
      /\ \A i \in DOMAIN queue : i \in DOMAIN queue' /\ queue'[i] = queue[i]
      /\ \A i \in DOMAIN queue' : i \in Int /\ i <= Len(queue) + 1
      /\ queue'[Len(queue) + 1].by = c /\ queue'[Len(queue) + 1].on = on
      BY <1>1, <1>2, Appended
<1>5. \A i \in DOMAIN queue : queue[i].by # c
      BY <1>1 DEF CallInv, Queued, Idle
<1>6. Asks'
      BY <1>3, <1>4, <1>5 DEF ButtonInv, Asks
<1>7. HostQueued => HostQueued'
      BY <1>4 DEF HostQueued
<1>8. ASSUME ~crossed'
      PROVE  StartIsShown' /\ SettingsAreLast' /\ ShownSoon'
  <2>1. ~crossed /\ room # "connecting" /\ \A d \in Click : ~InSettings(d)
        BY <1>1, <1>8 DEF Settings, InSettings
  <2>2. StartIsShown'
        BY <1>1, <1>4, <1>7, <2>1, CallersDiffer DEF ButtonInv, StartIsShown
  <2>3. \A d \in Click : InSettings(d)' => d = c
        BY <1>3, <2>1 DEF InSettings
  <2>4. SettingsAreLast'
    <3>1. InSettings(c)' => on = saved'
          BY <1>3 DEF InSettings
    <3>2. \A i, j \in DOMAIN queue' : ~(i < j /\ InSettings(queue[i].by)')
      <4> SUFFICES ASSUME NEW i \in DOMAIN queue', NEW j \in DOMAIN queue',
                          i < j, InSettings(queue[i].by)'
                   PROVE  FALSE
          OBVIOUS
      <4>1. queue'[i].by = c
            BY <2>3 DEF InSettings
      <4>2. i = Len(queue) + 1
            BY <1>4, <1>5, <4>1
      <4>3. j \in Int /\ j <= Len(queue) + 1
            BY <1>4
      <4> QED BY <4>2, <4>3, <1>4
    <3> QED BY <1>3, <2>3, <3>1, <3>2 DEF SettingsAreLast
  <2>5. ShownSoon'
        BY <1>1, <1>7, <2>1 DEF ButtonInv, ShownSoon, Told
  <2> QED BY <2>2, <2>4, <2>5
<1> QED BY <1>6, <1>8 DEF ButtonInv

\* Taking the first call leaves the rest in order.
LEMMA ButtonTail ==
    ASSUME CallInv, ButtonInv, queue # <<>>, queue' = Tail(queue), saved' = saved,
           room' = room, NEW h, h = Head(queue),
           click' \in [Click -> Handler],
           \A c \in Click \ {h.by} : click'[c] = click[c],
           h.by \in Click =>
               \/ /\ click'[h.by].by = click[h.by].by /\ click'[h.by].on = click[h.by].on
                  /\ click'[h.by].step = "sent"
               \/ click'[h.by] = Idle
    PROVE  /\ Asks'
           /\ ~crossed => /\ StartIsShown'
                          /\ \A c \in Click : InSettings(c)' => click'[c].on = saved'
                          /\ \A i, j \in DOMAIN queue' :
                                i < j /\ InSettings(queue[i].by)' => queue'[j].by = Host
           /\ HostQueued /\ h.by # Host => HostQueued'
           /\ \A i \in DOMAIN queue' : \E j \in DOMAIN queue : j > 1 /\ queue'[i] = queue[j]
           /\ 1 \in DOMAIN queue /\ h = queue[1]
           /\ \A i \in DOMAIN queue' : h.by \in Click => queue'[i].by # h.by
<1>1. /\ 1 \in DOMAIN queue /\ h = queue[1]
      /\ \A i \in DOMAIN queue' :
            i \in Int /\ i >= 1 /\ i + 1 \in DOMAIN queue /\ queue'[i] = queue[i + 1]
      /\ \A i \in DOMAIN queue \ {1} : i - 1 \in DOMAIN queue' /\ queue'[i - 1] = queue[i]
      BY Shortened DEF CallInv, Values
<1>2. \A i \in DOMAIN queue' : h.by \in Click => queue'[i].by # h.by
      BY <1>1 DEF CallInv, Queued
<1>3. HostQueued /\ h.by # Host => HostQueued'
      BY <1>1 DEF HostQueued
<1>4. \A i \in DOMAIN queue' : queue'[i].by \in Click =>
          click'[queue'[i].by] = click[queue'[i].by]
      BY <1>2
<1>5. Asks'
  <2>1. \A i \in DOMAIN queue' : queue'[i].by \in Click =>
            queue'[i].on = click'[queue'[i].by].on
        BY <1>1, <1>4 DEF ButtonInv, Asks
  <2>2. ASSUME NEW c \in Click
        PROVE  /\ click'[c].step = "answered" => click'[c].by = "settings"
               /\ click'[c].by = "nobody" => click'[c].step = "idle"
    <3>1. CASE c # h.by
          BY <3>1 DEF ButtonInv, Asks
    <3>2. CASE c = h.by
      <4>1. click[c].step = "device"
            BY <1>1, <3>2 DEF CallInv, Queued
      <4> QED BY <3>2, <4>1 DEF ButtonInv, Asks, Idle
    <3> QED BY <3>1, <3>2
  <2> QED BY <2>1, <2>2 DEF Asks
<1>6. ASSUME ~crossed
      PROVE  /\ StartIsShown'
             /\ \A c \in Click : InSettings(c)' => click'[c].on = saved'
             /\ \A i, j \in DOMAIN queue' :
                    i < j /\ InSettings(queue[i].by)' => queue'[j].by = Host
  <2>1. room' # "connecting" /\ \A i \in DOMAIN queue' : queue'[i].by # Start
        BY <1>1, <1>6 DEF ButtonInv, StartIsShown
  <2>2. \A c \in Click : InSettings(c)' => click'[c].on = saved'
        BY <1>6 DEF ButtonInv, SettingsAreLast, InSettings, Idle
  <2>3. \A i, j \in DOMAIN queue' :
            i < j /\ InSettings(queue[i].by)' => queue'[j].by = Host
    <3> SUFFICES ASSUME NEW i \in DOMAIN queue', NEW j \in DOMAIN queue',
                        i < j, InSettings(queue[i].by)'
                 PROVE  queue'[j].by = Host
        OBVIOUS
    <3>1. InSettings(queue[i + 1].by)
          BY <1>1, <1>4 DEF InSettings
    <3>2. /\ i + 1 \in DOMAIN queue /\ j + 1 \in DOMAIN queue /\ i + 1 < j + 1
          /\ queue'[j] = queue[j + 1]
          BY <1>1
    <3> QED BY <1>6, <3>1, <3>2 DEF ButtonInv, SettingsAreLast
  <2> QED BY <2>1, <2>2, <2>3 DEF StartIsShown
<1>7. \A i \in DOMAIN queue' : \E j \in DOMAIN queue : j > 1 /\ queue'[i] = queue[j]
  <2> SUFFICES ASSUME NEW i \in DOMAIN queue'
               PROVE  \E j \in DOMAIN queue : j > 1 /\ queue'[i] = queue[j]
      OBVIOUS
  <2>1. i + 1 \in DOMAIN queue /\ i + 1 > 1 /\ queue'[i] = queue[i + 1]
        BY <1>1
  <2> QED BY <2>1
<1> QED BY <1>1, <1>2, <1>3, <1>5, <1>6, <1>7

\* The device does what it is asked, and the controls show their own request.
LEMMA ButtonOnDevice ==
    ASSUME CallInv, ButtonInv, OnDevice
    PROVE  ButtonInv'
<1> DEFINE h == Head(queue)
<1>1. /\ queue # <<>> /\ queue' = Tail(queue) /\ UNCHANGED <<saved, room, audio>>
      /\ live' = IF Connected THEN h.on ELSE live
      /\ shown' = IF FromControls(h.by) THEN h.on ELSE shown
      /\ click' = Resumed(h.by)
      /\ crossed' = (crossed /\ ~(Connected /\ FromControls(h.by) /\ Alone(h.by)))
      BY DEF OnDevice, page
<1>2. h \in Request /\ h = queue[1] /\ 1 \in DOMAIN queue
      BY <1>1, Shortened DEF CallInv, Values
<1>3. /\ click' \in [Click -> Handler]
      /\ \A c \in Click \ {h.by} : click'[c] = click[c]
      /\ h.by \in Click => /\ click'[h.by].by = click[h.by].by
                           /\ click'[h.by].on = click[h.by].on
                           /\ click'[h.by].step = "sent"
      BY <1>1 DEF Resumed, CallInv, Values, Handler, Step
<1>4. /\ h.by \in Click => click[h.by].step = "device"
      /\ h.by \in Click => h.on = click[h.by].on
      BY <1>2 DEF CallInv, Queued, ButtonInv, Asks
<1>5. /\ Asks'
      /\ ~crossed => /\ StartIsShown'
                     /\ \A c \in Click : InSettings(c)' => click'[c].on = saved'
                     /\ \A i, j \in DOMAIN queue' :
                           i < j /\ InSettings(queue[i].by)' => queue'[j].by = Host
      /\ HostQueued /\ h.by # Host => HostQueued'
      /\ \A i \in DOMAIN queue' : \E j \in DOMAIN queue : j > 1 /\ queue'[i] = queue[j]
      BY <1>1, <1>3, ButtonTail
<1>6. live' => Connected /\ h.on
      BY <1>1 DEF CallInv, Placed
<1>7. CASE ~crossed
  <2>1. ASSUME NEW c \in Click, InSettings(c)', click'[c].step # "device", ~click'[c].on
        PROVE  ~live' /\ \A i \in DOMAIN queue' : ~queue'[i].on
    <3>1. InSettings(c) /\ ~click[c].on
          BY <1>3, <2>1 DEF InSettings
    <3>2. CASE c = h.by
      <4>1. ~h.on
            BY <1>4, <3>1, <3>2
      <4>2. \A j \in DOMAIN queue : j > 1 => queue[j].by = Host
            BY <1>2, <1>7, <3>1, <3>2 DEF ButtonInv, SettingsAreLast
      <4>3. \A j \in DOMAIN queue : j > 1 => ~queue[j].on
            BY <4>2 DEF CallInv, Silent
      <4> QED BY <1>5, <1>6, <4>1, <4>3
    <3>3. CASE c # h.by
      <4>1. click[c].step # "device"
            BY <1>3, <2>1, <3>3
      <4>2. \A i \in DOMAIN queue : ~queue[i].on
            BY <1>7, <3>1, <4>1 DEF ButtonInv, SettingsAreLast
      <4> QED BY <1>2, <1>5, <1>6, <4>2
    <3> QED BY <3>2, <3>3
  <2>2. SettingsAreLast'
        BY <1>5, <1>7, <2>1 DEF SettingsAreLast
  <2>3. ASSUME live', ~shown'
        PROVE  HostQueued' \/ \E c \in Click : Told(c)' /\ click'[c].on
    <3>1. h.on /\ ~FromControls(h.by) /\ shown' = shown
          BY <1>1, <1>6, <2>3
    <3>2. h.by # Host
          BY <1>2, <3>1 DEF CallInv, Silent
    <3>3. CASE h.by = Start
          BY <1>2, <1>5, <1>7, <2>3, <3>1, <3>2, <3>3 DEF ButtonInv, StartIsShown
    <3>4. CASE h.by \in Click
      <4>1. PICK c \in Click : c = h.by
            BY <3>4
      <4>2. click[c].by = "settings"
        <5>1. click[c] \in Handler /\ click[c].step = "device" /\ click[c].by # "controls"
              BY <1>4, <3>1, <4>1 DEF FromControls, CallInv, Values
        <5> QED BY <5>1 DEF ButtonInv, Asks, Handler
      <4>3. Told(c)'
            BY <1>3, <4>1, <4>2 DEF Told, InSettings
      <4>4. click'[c].on
            BY <1>3, <1>4, <3>1, <4>1
      <4> QED BY <4>3, <4>4
    <3> QED BY <1>2, <3>2, <3>3, <3>4 DEF Request
  <2> QED BY <1>5, <1>7, <2>2, <2>3 DEF ButtonInv, ShownSoon
<1>8. CASE crossed /\ ~crossed'
  <2>1. Connected /\ FromControls(h.by) /\ Alone(h.by)
        BY <1>1, <1>8
  <2>2. queue' = <<>>
        BY <1>1, <2>1 DEF Alone, CallInv, Values
  <2>3. \A c \in Click : ~InSettings(c)'
        BY <1>3, <2>1 DEF Alone, FromControls, InSettings, Idle
  <2>4. live' = shown' /\ room' # "connecting"
        BY <1>1, <2>1 DEF Connected
  <2> QED BY <1>5, <2>2, <2>3, <2>4
          DEF ButtonInv, StartIsShown, SettingsAreLast, ShownSoon
<1> QED BY <1>5, <1>7, <1>8 DEF ButtonInv

\* A request to switch on that is refused changes nothing that is shown.
LEMMA ButtonOnDeviceRefused ==
    ASSUME CallInv, ButtonInv, OnDeviceRefused
    PROVE  ButtonInv'
<1> DEFINE h == Head(queue)
<1>1. /\ queue # <<>> /\ queue' = Tail(queue) /\ h.on
      /\ UNCHANGED <<saved, room, audio, live, shown, crossed>>
      /\ click' = IF h.by \in Click THEN [click EXCEPT ![h.by] = Idle] ELSE click
      BY DEF OnDeviceRefused, page, history
<1>2. h = queue[1] /\ 1 \in DOMAIN queue
      BY <1>1, Shortened DEF CallInv, Values
<1>3. /\ click' \in [Click -> Handler]
      /\ \A c \in Click \ {h.by} : click'[c] = click[c]
      /\ h.by \in Click => click'[h.by] = Idle
      BY <1>1, IdleIsHandler DEF CallInv, Values
<1>4. h.by \in Click => click[h.by].step = "device"
      BY <1>2 DEF CallInv, Queued
<1>5. /\ Asks'
      /\ ~crossed => /\ StartIsShown'
                     /\ \A c \in Click : InSettings(c)' => click'[c].on = saved'
                     /\ \A i, j \in DOMAIN queue' :
                           i < j /\ InSettings(queue[i].by)' => queue'[j].by = Host
      /\ HostQueued /\ h.by # Host => HostQueued'
      /\ \A i \in DOMAIN queue' : \E j \in DOMAIN queue : j > 1 /\ queue'[i] = queue[j]
      BY <1>1, <1>3, ButtonTail
<1>6. h.by # Host
      BY <1>1, <1>2 DEF CallInv, Silent
<1>7. ASSUME ~crossed
      PROVE  SettingsAreLast' /\ ShownSoon'
  <2>1. \A c \in Click : InSettings(c)' => c # h.by /\ click'[c] = click[c]
        BY <1>3 DEF InSettings, Idle
  <2>2. \A c \in Click : InSettings(c)' => InSettings(c)
        BY <2>1 DEF InSettings
  <2>3. \A c \in Click : InSettings(c)' /\ click'[c].step # "device" /\ ~click'[c].on =>
            ~live /\ \A i \in DOMAIN queue : ~queue[i].on
        BY <1>7, <2>1, <2>2 DEF ButtonInv, SettingsAreLast
  <2>4. \A c \in Click : Told(c) => Told(c)' /\ click'[c] = click[c]
        BY <1>3, <1>4 DEF Told, InSettings
  <2>5. SettingsAreLast'
        BY <1>1, <1>5, <1>7, <2>3 DEF SettingsAreLast
  <2>6. ShownSoon'
        BY <1>1, <1>5, <1>6, <1>7, <2>4 DEF ButtonInv, ShownSoon
  <2> QED BY <2>5, <2>6
<1> QED BY <1>1, <1>5, <1>7 DEF ButtonInv

\* A handler that is done with the device goes on or ends.
LEMMA ButtonHandler ==
    ASSUME CallInv, ButtonInv, NEW c \in Click, NEW step \in {"sent", "answered"},
           click[c].step \notin {"idle", "device"},
           UNCHANGED <<saved, audio, room, queue, live>>,
           \/ /\ click' = [click EXCEPT ![c].step = step]
              /\ step = "answered" => click[c].by = "settings"
           \/ click' = [click EXCEPT ![c] = Idle]
    PROVE  /\ Asks'
           /\ ~crossed => SettingsAreLast'
           /\ \A d \in Click \ {c} : Told(d) => Told(d)' /\ click'[d] = click[d]
           /\ click' # [click EXCEPT ![c] = Idle] /\ Told(c) =>
                  Told(c)' /\ click'[c].on = click[c].on
<1>1. \A d \in Click \ {c} : click'[d] = click[d]
      BY DEF CallInv, Values
<1>2. \A i \in DOMAIN queue : queue[i].by # c
      BY DEF CallInv, Queued
<1>3. \/ /\ click'[c].by = click[c].by /\ click'[c].on = click[c].on
         /\ click'[c].step = step /\ (step = "answered" => click[c].by = "settings")
      \/ click'[c] = Idle
      BY DEF CallInv, Values, Handler
<1>4. Asks'
      BY <1>1, <1>2, <1>3 DEF ButtonInv, Asks, Idle
<1>5. \A d \in Click : InSettings(d)' =>
          InSettings(d) /\ click'[d].on = click[d].on
          /\ (click[d].step = "device" => click'[d].step = "device")
      BY <1>1, <1>3 DEF InSettings, Idle
<1>6. ASSUME ~crossed
      PROVE  SettingsAreLast'
  <2>1. \A i \in DOMAIN queue : InSettings(queue[i].by)' => InSettings(queue[i].by)
        BY <1>5 DEF InSettings
  <2>2. \A d \in Click : InSettings(d)' /\ click'[d].step # "device" /\ ~click'[d].on =>
            ~live /\ \A i \in DOMAIN queue : ~queue[i].on
        BY <1>5, <1>6 DEF ButtonInv, SettingsAreLast
  <2>3. \A i, j \in DOMAIN queue : i < j /\ InSettings(queue[i].by)' => queue[j].by = Host
        BY <1>6, <2>1 DEF ButtonInv, SettingsAreLast
  <2> QED BY <1>5, <1>6, <2>2, <2>3 DEF ButtonInv, SettingsAreLast
<1>7. \A d \in Click \ {c} : Told(d) => Told(d)' /\ click'[d] = click[d]
      BY <1>1 DEF Told, InSettings
<1>8. click' # [click EXCEPT ![c] = Idle] /\ Told(c) =>
          Told(c)' /\ click'[c].on = click[c].on
      BY DEF Told, InSettings, CallInv, Values, Handler
<1> QED BY <1>4, <1>6, <1>7, <1>8

\* api.media is answered or not; one the server refuses is not followed.
LEMMA ButtonMedia ==
    ASSUME CallInv, ButtonInv, NEW c \in Click,
           OnDeviceAdrift(c) \/ Media(c) \/ MediaFails(c)
    PROVE  ButtonInv'
<1>1. /\ UNCHANGED <<saved, audio, room, queue, live, shown>>
      /\ click[c].step \notin {"idle", "device"}
      BY DEF OnDeviceAdrift, Media, MediaFails, page
<1>2. /\ crossed => crossed'
      /\ ~crossed' /\ click' = [click EXCEPT ![c] = Idle] => ~Told(c)
  <2>1. CASE OnDeviceAdrift(c)
        BY <2>1 DEF OnDeviceAdrift, history, Told
  <2>2. CASE Media(c)
    <3>1. crossed' = crossed
          BY <2>2 DEF Media, history
    <3>2. click[c].by = "settings" => click'[c].step = "answered"
          BY <2>2 DEF Media, CallInv, Values
    <3>3. click' = [click EXCEPT ![c] = Idle] => click'[c].step = "idle"
          BY DEF CallInv, Values, Idle
    <3> QED BY <3>1, <3>2, <3>3 DEF Told, InSettings
  <2>3. CASE MediaFails(c)
    <3>1. crossed' = (crossed \/ click[c].by = "settings")
          BY <2>3 DEF MediaFails
    <3> QED BY <3>1 DEF Told, InSettings
  <2> QED BY <2>1, <2>2, <2>3
<1>3. \/ click' = [click EXCEPT ![c] = Idle]
      \/ click' = [click EXCEPT ![c].step = "sent"]
      \/ click[c].by = "settings" /\ click' = [click EXCEPT ![c].step = "answered"]
      BY DEF OnDeviceAdrift, Media, MediaFails
<1>4. /\ Asks' /\ (~crossed => SettingsAreLast')
      /\ \A d \in Click \ {c} : Told(d) => Told(d)' /\ click'[d] = click[d]
      /\ click' # [click EXCEPT ![c] = Idle] /\ Told(c) =>
             Told(c)' /\ click'[c].on = click[c].on
  <2>1. CASE click' = [click EXCEPT ![c] = Idle]
        BY <1>1, <2>1, ButtonHandler
  <2>2. CASE click' = [click EXCEPT ![c].step = "sent"]
        BY <1>1, <2>2, ButtonHandler
  <2>3. CASE click[c].by = "settings" /\ click' = [click EXCEPT ![c].step = "answered"]
        BY <1>1, <2>3, ButtonHandler
  <2> QED BY <1>3, <2>1, <2>2, <2>3
<1>5. ASSUME ~crossed'
      PROVE  StartIsShown' /\ ShownSoon'
  <2>1. \A d \in Click : Told(d) => Told(d)' /\ click'[d].on = click[d].on
        BY <1>2, <1>4, <1>5
  <2>2. HostQueued' = HostQueued
        BY <1>1 DEF HostQueued
  <2> QED BY <1>1, <1>2, <1>5, <2>1, <2>2 DEF ButtonInv, StartIsShown, ShownSoon
<1> QED BY <1>2, <1>4, <1>5 DEF ButtonInv

\* The controls follow the settings.
LEMMA ButtonSync ==
    ASSUME CallInv, ButtonInv, NEW c \in Click, Sync(c)
    PROVE  ButtonInv'
<1>1. /\ UNCHANGED <<saved, audio, room, queue, live, at, crossed>>
      /\ click[c].step = "answered" /\ click' = [click EXCEPT ![c] = Idle]
      /\ shown' = IF at = "call" THEN click[c].on ELSE shown
      BY DEF Sync, page, history
<1>2. Asks' /\ (~crossed => SettingsAreLast')
      BY <1>1, ButtonHandler
<1>3. InSettings(c)
      BY <1>1 DEF ButtonInv, Asks, InSettings
<1>4. ASSUME ~crossed
      PROVE  StartIsShown' /\ ShownSoon'
  <2>1. /\ click[c].on = saved
        /\ ~click[c].on => ~live /\ \A i \in DOMAIN queue : ~queue[i].on
        BY <1>1, <1>3, <1>4 DEF ButtonInv, SettingsAreLast
  <2>2. CASE at = "call"
    <3>1. shown' = click[c].on
          BY <1>1, <2>2
    <3>2. click[c].on \in BOOLEAN
          BY DEF CallInv, Values, Handler
    <3>3. StartIsShown'
          BY <1>1, <1>4, <2>1, <3>1, <3>2 DEF ButtonInv, StartIsShown
    <3>4. ShownSoon'
          BY <1>1, <2>1, <3>1 DEF ShownSoon
    <3> QED BY <3>3, <3>4
  <2>3. CASE at # "call"
    <3>1. room = "none" /\ queue = <<>> /\ ~live
          BY <2>3 DEF CallInv, Placed, Connected
    <3> QED BY <1>1, <3>1 DEF StartIsShown, ShownSoon
  <2> QED BY <2>2, <2>3
<1> QED BY <1>1, <1>2, <1>4 DEF ButtonInv

LEMMA ButtonKept ==
    ASSUME CallInv, ButtonInv, Next
    PROVE  ButtonInv'
<1>1. CASE Choose \/ JoinNow \/ OnConnected \/ OnDisconnected \/ OnMute
      BY <1>1, ButtonChoose, ButtonJoinNow, ButtonOnConnected, ButtonOnDisconnected,
         ButtonOnMute
<1>2. CASE Device
      BY <1>2, ButtonOnDevice, ButtonOnDeviceRefused DEF Device
<1>3. CASE Render \/ OnReconnecting \/ OnReconnected
      BY <1>3, ButtonQuiet DEF Render, OnReconnecting, OnReconnected, page, mic, history
<1>4. CASE Leave \/ End \/ EndRefused \/ Mute \/ LoseMute
      BY <1>4, ButtonQuiet DEF Leave, End, EndRefused, Mute, LoseMute, page, mic, history
<1>5. CASE RecoverMedia \/ Left \/ Ended \/ OnSocketEnd
  <2>1. UNCHANGED <<saved, shown, crossed>>
        BY <1>5 DEF RecoverMedia, Left, Ended, OnSocketEnd, GoHome, history
  <2>2. Unmount("prejoin") \/ Unmount("home")
        BY <1>5 DEF RecoverMedia, Left, Ended, OnSocketEnd, GoHome
  <2> QED BY <2>1, <2>2, ButtonUnmount
<1>6. ASSUME NEW c \in Click, Clicks(c)
      PROVE  ButtonInv'
  <2>1. CASE Toggle(c)
    <3>1. PICK on \in BOOLEAN : on = (~shown)
          OBVIOUS
    <3>2. Begin(c, "controls", on) /\ saved' = saved
          BY <2>1, <3>1 DEF Toggle
    <3> QED BY <3>2, ButtonBegin
  <2>2. CASE ToggleInSettings(c)
    <3>1. PICK on \in BOOLEAN : on = (~saved)
          OBVIOUS
    <3>2. Begin(c, "settings", on) /\ on = ~saved /\ saved' = ~saved
          BY <2>2, <3>1 DEF ToggleInSettings
    <3> QED BY <3>2, ButtonBegin
  <2>3. CASE OnDeviceAdrift(c) \/ Media(c) \/ MediaFails(c)
        BY <2>3, ButtonMedia
  <2>4. CASE Sync(c)
        BY <2>4, ButtonSync
  <2> QED BY <1>6, <2>1, <2>2, <2>3, <2>4 DEF Clicks
<1> QED BY <1>1, <1>2, <1>3, <1>4, <1>5, <1>6 DEF Next, HostMute, Room, Exit

\* The button hides no microphone that is on, for any number of clicks, mutes,
\* reconnects and refusals, unless they crossed in one of the ways named
\* (MeetingControls's toggle and its listeners in MeetingPage.tsx).
THEOREM HotMicIsNotHidden == Spec => []HotMicIsShown
<1>1. Init => ButtonInv
      BY DEF Init, ButtonInv, Asks, StartIsShown, SettingsAreLast, ShownSoon, Idle,
         InSettings
<1>2. ButtonInv /\ UNCHANGED vars => ButtonInv'
      BY ButtonQuiet DEF vars, page, mic, history
<1>3. CallInv /\ ButtonInv /\ [Next]_vars => ButtonInv'
      BY <1>2, ButtonKept
<1>4. ButtonInv => HotMicIsShown
  <2> SUFFICES ASSUME ButtonInv, live, ~InFlight, queue = <<>>, ~crossed, ~shown
               PROVE  FALSE
      BY DEF HotMicIsShown
  <2>1. ~HostQueued /\ \A c \in Click : ~Told(c)
        BY DEF HostQueued, InFlight, Told
  <2> QED BY <2>1 DEF ButtonInv, ShownSoon
<1> QED BY <1>1, <1>3, <1>4, CallInductive, PTL DEF Spec
=============================================================================
