-------------------------------- MODULE Call --------------------------------
(***************************************************************************)
(* The call of one user: the part of pages/MeetingPage.tsx around           *)
(* LiveKitRoom, that is MediaReconnectWatcher, the panel that recovers      *)
(* media, MeetingControls, the toggles of SettingsPanel, leave and end, with *)
(* the handlers of backend/internal/api/api.go they meet: media, and the    *)
(* mute of the host.                                                        *)
(*                                                                          *)
(* Whether the microphone is on is kept in five places (LiveKit's track,    *)
(* the button of MeetingControls, the choice in sessionStorage, LiveKitRoom's *)
(* prop and the server's participant), and each click updates some of them, *)
(* one after another, with waits in between.                                *)
(*                                                                          *)
(* Abstractions: the microphone stands for camera and screen, which are     *)
(* toggled alike but not muted.  LiveKit, which is not part of the          *)
(* repository, answers setMicrophoneEnabled in the order of the calls,      *)
(* switches off nothing before it is connected, and emits an event with each *)
(* change of the room.  Admission and the socket are modules of their own:  *)
(* here a mute of the host is delivered some time or lost.                  *)
(***************************************************************************)
EXTENDS Integers, Sequences

CONSTANTS
    Click,    \* bound: handlers of toggles under way at once
    MaxQueue, \* bound: calls of setMicrophoneEnabled under way at once
    Start,    \* the call that LiveKitRoom makes itself
    Host      \* the call that a mute of the host makes

ASSUME CallersDiffer == Start # Host /\ {Start, Host} \cap Click = {}
ASSUME QueueBound == MaxQueue \in Nat

VARIABLES
    at,          \* the page: "prejoin", "call" or "home"
    isHost,      \* the user is the host of the meeting
    room,        \* LiveKit's connection
    mediaStatus, \* what MediaReconnectWatcher reported last
    saved,       \* micEnabled in sessionStorage, and in the settings panel
    audio,       \* LiveKitRoom's prop, as of the last render
    live,        \* the microphone is published
    shown,       \* mic of MeetingControls
    flag,        \* MicEnabled of the server's participant
    queue,       \* calls of setMicrophoneEnabled to be answered
    click,       \* click[c]: a handler of a toggle under way
    muting,      \* a participant.muted event is on its way
    intentional, \* intentionalLeave
    exit,        \* the user's request to leave or end
    told,        \* history: the meeting ended, or the user was removed
    silenced,    \* history: muted by the host, and nothing clicked since
    late,        \* history: a click was under way when the host muted
    crossed      \* history: the button may have lost track, see HotMicIsShown

page    == <<at, room, mediaStatus, intentional, exit, told>>
mic     == <<saved, audio, live, shown, flag, queue, click, muting>>
history == <<silenced, late, crossed>>
vars    == <<page, mic, history, isHost>>

Idle == [by |-> "nobody", on |-> FALSE, step |-> "idle"]

InFlight == \E c \in Click : click[c].step # "idle"
Settings == \E c \in Click : click[c].by = "settings"

Connected == room \in {"up", "reconnecting"}

\* LiveKit's connection is there or on its way.
CanBeLost == Connected \/ room = "connecting"

Init ==
    /\ at = "prejoin"
    /\ isHost \in BOOLEAN
    /\ room = "none"
    /\ mediaStatus = "connected"
    /\ saved \in BOOLEAN
    /\ audio = FALSE
    /\ live = FALSE
    /\ shown = FALSE
    /\ flag = TRUE
    /\ queue = <<>>
    /\ click = [c \in Click |-> Idle]
    /\ muting = FALSE
    /\ intentional = FALSE
    /\ exit = "no"
    /\ told = FALSE
    /\ silenced = FALSE
    /\ late = FALSE
    /\ crossed = FALSE

----------------------------------------------------------------------------
(* Toggles. *)

\* A handler calls setMicrophoneEnabled and awaits it.
Begin(c, by, on) ==
    /\ at = "call"
    /\ click[c] = Idle
    /\ Len(queue) < MaxQueue
    /\ click' = [click EXCEPT ![c] = [by |-> by, on |-> on, step |-> "device"]]
    /\ queue' = Append(queue, [by |-> c, on |-> on])
    /\ silenced' = FALSE
    /\ late' = (late \/ muting)
    /\ crossed' = (crossed \/ Settings \/ room = "connecting")
    /\ UNCHANGED <<page, isHost, audio, live, shown, flag, muting>>

\* The microphone button of MeetingControls; sessionStorage keeps what it says.
Toggle(c) == Begin(c, "controls", ~shown) /\ UNCHANGED saved

\* The microphone toggle of the settings panel.
ToggleInSettings(c) == Begin(c, "settings", ~saved) /\ saved' = ~saved

\* A call that has been answered lets its handler go on to api.media.
Resumed(c) ==
    IF c \in Click THEN [click EXCEPT ![c].step = "sent"] ELSE click

FromControls(c) == c \in Click /\ click[c].by = "controls"

Alone(c) ==
    /\ Len(queue) = 1
    /\ \A other \in Click \ {c} : click[other] = Idle

\* Mutant: the button does not follow the device.
OnDeviceUnshown ==
    /\ queue # <<>>
    /\ Connected
    /\ live' = Head(queue).on
    /\ click' = Resumed(Head(queue).by)
    /\ queue' = Tail(queue)
    /\ UNCHANGED <<page, isHost, saved, audio, shown, flag, muting, history>>

\* setMicrophoneEnabled is done; the handler of the controls sets the button.
OnDevice ==
    /\ queue # <<>>
    /\ LET call == Head(queue) IN
        /\ room = "connecting" => ~call.on
        /\ live' = IF Connected THEN call.on ELSE live
        /\ shown' = IF FromControls(call.by) THEN call.on ELSE shown
        /\ click' = Resumed(call.by)
        /\ crossed' = (crossed /\ ~(Connected /\ FromControls(call.by) /\ Alone(call.by)))
    /\ queue' = Tail(queue)
    /\ UNCHANGED <<page, isHost, saved, audio, flag, muting, silenced, late>>

\* No permission or no device: the handler ends with its exception.
OnDeviceRefused ==
    /\ queue # <<>>
    /\ LET call == Head(queue) IN
        /\ call.on
        /\ click' = IF call.by \in Click THEN [click EXCEPT ![call.by] = Idle]
                    ELSE click
    /\ queue' = Tail(queue)
    /\ UNCHANGED <<page, isHost, saved, audio, live, shown, flag, muting, history>>

\* A call on a participant whose room has been taken away.
OnDeviceAdrift(c) ==
    /\ click[c].step = "adrift"
    /\ \/ click' = [click EXCEPT ![c].step = "sent"]
       \/ click' = [click EXCEPT ![c] = Idle]
    /\ UNCHANGED <<page, isHost, saved, audio, live, shown, flag, queue, muting,
                   history>>

\* api.media at the server; only the settings have more to do afterwards.
Media(c) ==
    /\ click[c].step = "sent"
    /\ flag' = click[c].on
    /\ click' = IF click[c].by = "settings"
                THEN [click EXCEPT ![c].step = "answered"]
                ELSE [click EXCEPT ![c] = Idle]
    /\ UNCHANGED <<page, isHost, saved, audio, live, shown, queue, muting, history>>

\* api.media rejects: it was refused, or its answer is lost.
MediaFails(c) ==
    /\ click[c].step \in {"sent", "answered"}
    /\ click' = [click EXCEPT ![c] = Idle]
    /\ crossed' = (crossed \/ click[c].by = "settings")
    /\ UNCHANGED <<page, isHost, saved, audio, live, shown, flag, queue, muting,
                   silenced, late>>

\* instantmeet:media reaches MeetingControls, if it is there.
Sync(c) ==
    /\ click[c].step = "answered"
    /\ click' = [click EXCEPT ![c] = Idle]
    /\ shown' = IF at = "call" THEN click[c].on ELSE shown
    /\ UNCHANGED <<page, isHost, saved, audio, live, flag, queue, muting, history>>

----------------------------------------------------------------------------
(* The host. *)

\* api.go mute; the host's page has no such button for the host.
Mute ==
    /\ at # "home"
    /\ ~isHost
    /\ ~muting
    /\ flag' = FALSE
    /\ muting' = TRUE
    /\ late' = (InFlight \/ (silenced /\ late))
    /\ UNCHANGED <<page, isHost, saved, audio, live, shown, queue, click, silenced,
                   crossed>>

\* Mutant: the button goes off and the microphone stays on.
OnMuteShownOnly ==
    /\ muting
    /\ muting' = FALSE
    /\ IF at = "call"
       THEN shown' = FALSE /\ silenced' = (room # "connecting")
       ELSE UNCHANGED <<shown, silenced>>
    /\ UNCHANGED <<page, isHost, saved, audio, live, flag, queue, click, late, crossed>>

\* Mutant: the microphone goes off and the button stays on.
OnMuteUnshown ==
    /\ muting
    /\ muting' = FALSE
    /\ IF at = "call"
       THEN /\ Len(queue) < MaxQueue
            /\ queue' = Append(queue, [by |-> Host, on |-> FALSE])
            /\ silenced' = (room # "connecting")
            /\ crossed' = (crossed \/ room = "connecting")
       ELSE UNCHANGED <<queue, silenced, crossed>>
    /\ UNCHANGED <<page, isHost, saved, audio, live, shown, flag, click, late>>

\* participant.muted; without MeetingControls nobody listens.
OnMute ==
    /\ muting
    /\ muting' = FALSE
    /\ IF at = "call"
       THEN /\ Len(queue) < MaxQueue
            /\ queue' = Append(queue, [by |-> Host, on |-> FALSE])
            /\ shown' = FALSE
            /\ silenced' = (room # "connecting")
            /\ crossed' = (crossed \/ room = "connecting")
       ELSE UNCHANGED <<queue, shown, silenced, crossed>>
    /\ UNCHANGED <<page, isHost, saved, audio, live, flag, click, late>>

\* The event meets a full buffer or a socket that is down.
LoseMute ==
    /\ muting
    /\ muting' = FALSE
    /\ UNCHANGED <<page, isHost, saved, audio, live, shown, flag, queue, click, history>>

----------------------------------------------------------------------------
(* The room and the page. *)

\* PreJoin's toggle.
Choose ==
    /\ at = "prejoin"
    /\ saved' = ~saved
    /\ crossed' = (crossed \/ Settings)
    /\ UNCHANGED <<page, isHost, audio, live, shown, flag, queue, click, muting,
                   silenced, late>>

\* setReady(true): LiveKitRoom, the watcher and the controls are mounted.
JoinNow ==
    /\ at = "prejoin"
    /\ at' = "call"
    /\ room' = "connecting"
    /\ mediaStatus' = "connected"
    /\ audio' = saved
    /\ shown' = saved
    /\ silenced' = FALSE
    /\ crossed' = (crossed /\ Settings)
    /\ UNCHANGED <<intentional, exit, told, isHost, saved, live, flag, queue, click,
                   muting, late>>

\* Any state of the page changes, and it is rendered again.
Render ==
    /\ room = "connecting"
    /\ audio # saved
    /\ audio' = saved
    /\ UNCHANGED <<page, isHost, saved, live, shown, flag, queue, click, muting, history>>

\* LiveKitRoom sets the microphone to its prop.
OnConnected ==
    /\ room = "connecting"
    /\ room' = "up"
    /\ mediaStatus' = "connected"
    /\ queue' = Append(queue, [by |-> Start, on |-> audio])
    /\ UNCHANGED <<at, intentional, exit, told, isHost, saved, audio, live, shown, flag,
                   click, muting, history>>

OnReconnecting ==
    /\ room = "up"
    /\ room' = "reconnecting"
    /\ mediaStatus' = "reconnecting"
    /\ UNCHANGED <<at, intentional, exit, told, isHost, mic, history>>

OnReconnected ==
    /\ room = "reconnecting"
    /\ room' = "up"
    /\ mediaStatus' = "connected"
    /\ UNCHANGED <<at, intentional, exit, told, isHost, mic, history>>

\* Mutant: they still wait for the room that is gone.
AdriftNever == click

\* Handlers under way when their room goes stay under way.
Adrift ==
    [c \in Click |-> IF click[c].step = "device" THEN [click[c] EXCEPT !.step = "adrift"]
                     ELSE click[c]]

\* LiveKitRoom is unmounted, and the page shows something else.  Once it is gone
\* itself, the ends of its handlers are not followed.
Unmount(where) ==
    /\ at' = where
    /\ room' = "none"
    /\ live' = FALSE
    /\ queue' = <<>>
    /\ click' = IF where = "home" THEN [c \in Click |-> Idle] ELSE Adrift

\* Mutant: every disconnect leads home.
OnDisconnectedHome ==
    /\ CanBeLost
    /\ Unmount("home")
    /\ UNCHANGED <<mediaStatus, intentional, exit, told, isHost, saved, audio, shown,
                   flag, muting, history>>

\* onLiveKitDisconnected and the watcher's disconnected: the room is lost, or never
\* comes up (its token has expired, say).
OnDisconnected ==
    /\ CanBeLost
    /\ IF intentional
       THEN Unmount("home")
       ELSE room' = "down" /\ live' = FALSE /\ UNCHANGED <<at, queue, click>>
    /\ mediaStatus' = "disconnected"
    /\ UNCHANGED <<intentional, exit, told, isHost, saved, audio, shown, flag, muting,
                   history>>

\* The button of media-recover; the next frame is JoinNow.
RecoverMedia ==
    /\ at = "call"
    /\ mediaStatus = "disconnected"
    /\ mediaStatus' = "reconnecting"
    /\ Unmount("prejoin")
    /\ UNCHANGED <<intentional, exit, told, isHost, saved, audio, shown, flag, muting,
                   history>>

----------------------------------------------------------------------------
(* The way home. *)

GoHome ==
    /\ at # "home"
    /\ Unmount("home")
    /\ UNCHANGED <<mediaStatus, exit, isHost, saved, audio, shown, flag, muting, history>>

Leave ==
    /\ at # "home"
    /\ exit \in {"no", "refused"}
    /\ exit' = "leaving"
    /\ intentional' = TRUE
    /\ UNCHANGED <<at, room, mediaStatus, told, isHost, mic, history>>

End ==
    /\ at = "call"
    /\ isHost
    /\ exit \in {"no", "refused"}
    /\ exit' = "ending"
    /\ intentional' = TRUE
    /\ UNCHANGED <<at, room, mediaStatus, told, isHost, mic, history>>

\* Mutant: nobody catches a leave that the server refuses.
LeftUncaught ==
    /\ exit = "leaving"
    /\ at # "home"
    /\ \/ /\ GoHome
          /\ UNCHANGED <<intentional, told>>
       \/ /\ exit' = "refused"
          /\ UNCHANGED <<at, room, mediaStatus, intentional, told, isHost, mic, history>>

\* api.leave is answered, whatever the answer.
Left ==
    /\ exit = "leaving"
    /\ GoHome
    /\ UNCHANGED <<intentional, told>>

Ended ==
    /\ exit = "ending"
    /\ GoHome
    /\ UNCHANGED <<intentional, told>>

\* Nobody catches it, and the page stays.
EndRefused ==
    /\ exit = "ending"
    /\ at # "home"
    /\ exit' = "refused"
    /\ UNCHANGED <<at, room, mediaStatus, intentional, told, isHost, mic, history>>

\* meeting.ended, or participant.removed for this user.
OnSocketEnd ==
    /\ GoHome
    /\ intentional' = TRUE
    /\ told' = TRUE

Clicks(c) ==
    \/ Toggle(c)
    \/ ToggleInSettings(c)
    \/ OnDeviceAdrift(c)
    \/ Media(c)
    \/ MediaFails(c)
    \/ Sync(c)

Device == OnDevice \/ OnDeviceRefused

HostMute == Mute \/ OnMute \/ LoseMute

Room ==
    \/ Choose
    \/ JoinNow
    \/ Render
    \/ OnConnected
    \/ OnReconnecting
    \/ OnReconnected
    \/ OnDisconnected
    \/ RecoverMedia

Exit == Leave \/ End \/ Left \/ Ended \/ EndRefused \/ OnSocketEnd

Next == (\E c \in Click : Clicks(c)) \/ Device \/ HostMute \/ Room \/ Exit

Spec == Init /\ [][Next]_vars

\* A request is answered, if only by the browser's timeout.
FairSpec == Spec /\ WF_vars(Left) /\ WF_vars(Ended \/ EndRefused)

----------------------------------------------------------------------------

Step == {"idle", "device", "adrift", "sent", "answered"}

\* Type invariant; a handler awaits the device exactly while its call is queued.
TypeOK ==
    /\ at \in {"prejoin", "call", "home"}
    /\ isHost \in BOOLEAN
    /\ room \in {"none", "connecting", "up", "reconnecting", "down"}
    /\ mediaStatus \in {"connected", "reconnecting", "disconnected"}
    /\ {saved, audio, live, shown, flag} \subseteq BOOLEAN
    /\ queue \in Seq([by : Click \cup {Start, Host}, on : BOOLEAN])
    /\ click \in [Click -> [by : {"nobody", "controls", "settings"}, on : BOOLEAN,
                            step : Step]]
    /\ {muting, intentional, told, silenced, late, crossed} \subseteq BOOLEAN
    /\ exit \in {"no", "leaving", "ending", "refused"}
    /\ \A c \in Click :
        /\ click[c] = Idle <=> click[c].step = "idle"
        /\ click[c].step = "device" <=> \E i \in DOMAIN queue : queue[i].by = c

\* A user whom the host has muted is silent: whatever clicks were under way, the
\* microphone is off from the moment the page has carried out the event until the
\* user clicks a toggle or media is connected anew.
MuteSilences ==
    silenced /\ (\A i \in DOMAIN queue : queue[i].by # Host) => ~live

\* And everyone can see it, if the mute did not cross a click of the user: when
\* the page has settled, the button and the server's participant are off too.
MuteIsSeen ==
    silenced /\ ~late /\ ~muting /\ queue = <<>> => ~shown /\ ~flag

\* When the page has settled, a microphone that is on is shown as on: mutes, slow
\* devices, refused permissions and reconnects do not hide it.  It may be hidden
\* only after a click during an unfinished one in the settings, a settings click
\* that the server refused, or a click or mute before the room is connected, and
\* only until the button is clicked the next time.
HotMicIsShown ==
    live /\ ~InFlight /\ queue = <<>> /\ ~crossed => shown

\* The status that the banner and media-recover show is that of the room: who
\* has lost media is offered the way back, and nobody else.
StatusTracksRoom ==
    at = "call" => mediaStatus = CASE room = "down"         -> "disconnected"
                                   [] room = "reconnecting" -> "reconnecting"
                                   [] OTHER                 -> "connected"

\* Nobody is sent home but who was told to go, is leaving or ending, or had an end
\* refused: that leaves intentionalLeave set for good.
HomeOnlyWhenAsked == at = "home" => told \/ exit \in {"leaving", "ending", "refused"}

\* Whoever loses the room, or does not get one, is offered media-recover and stays on
\* the page, however often it is lost and recovered.  An end that was refused is the
\* one exception that the user did not ask for (see LostMediaStaysOnPage).
LostMediaIsRecoverable == StatusTracksRoom /\ HomeOnlyWhenAsked

\* docs/current-state.md:53, "media recovery without forced home redirect": nobody is
\* sent home who was not told to go and has no leave or end under way.  The code does
\* not do so: a refused end is not under way any more.
LostMediaStaysOnPage == at = "home" => told \/ exit \in {"leaving", "ending"}

\* A user who leaves gets home, whatever the server answers; one who ends the
\* meeting gets home or is refused.
LeavingGoesHome ==
    /\ exit = "leaving" ~> at = "home"
    /\ exit = "ending" ~> at = "home" \/ exit = "refused"
=============================================================================
