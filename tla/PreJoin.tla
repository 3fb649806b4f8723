------------------------------ MODULE PreJoin ------------------------------
(***************************************************************************)
(* Microphone, camera and the user's choices about them on one page: the    *)
(* hook useMediaDevices (frontend/src/hooks/useMediaDevices.ts), the preview *)
(* (components/PreJoin.tsx) in the waiting room and before the call, the    *)
(* device lists (components/DeviceSelects.tsx), and the settings panel of   *)
(* the call (pages/MeetingPage.tsx), which uses the same hook.              *)
(*                                                                          *)
(* getUserMedia and enumerateDevices answer when they like, while the user  *)
(* toggles, devices come and go, and the page shows one thing after another.*)
(* Abstractions: one kind of device, the microphone, stands for the three,  *)
(* which are treated alike; one meeting; sessionStorage works; the warning  *)
(* about permissions is a text.  React is assumed to drop what a component  *)
(* that is gone sets, without running its updater, so that its refreshes    *)
(* are forgotten; the stream a refresh asks for only to get permission is   *)
(* stopped in the callback that receives it.                                *)
(***************************************************************************)
EXTENDS Integers, SequencesExt

CONSTANTS
    Device,     \* microphones
    Removable,  \* bound: those that are pulled out and plugged in again
    Stream,     \* bound: getUserMedia requests of previews and their streams
    MaxRefresh, \* bound: refreshes of one hook under way at once
    NoDevice, NoStream

ASSUME NoneIsNone == NoDevice \notin Device /\ NoStream \notin Stream
ASSUME SomeAreRemovable == Removable \subseteq Device
ASSUME RefreshBound == MaxRefresh \in Nat \ {0}

VARIABLES
    shows,      \* what the page shows
    available,  \* the browser has navigator.mediaDevices
    panel,      \* the settings panel is open, or will be with the next call
    plugged,    \* microphones of the computer
    changed,    \* a devicechange event is to be delivered
    saved,      \* sessionStorage: the choices in this meeting
    hook,       \* the state of the mounted useMediaDevices
    asking,     \* refreshes that wait for getUserMedia
    listing,    \* refreshes that wait for enumerateDevices
    lists,      \* what it has answered and is not applied yet, in the order taken
    overtaken,  \* history: of lists, the first so many are older than what is applied
    behind,     \* history: an older list was applied last, or a list failed since
    stream,     \* stream[s]: a preview's request, then its stream
    held,       \* streamRef of the mounted PreJoin
    wish,       \* history: what the user chose last
    refused     \* history: the preview's last request failed

refreshes == <<asking, listing, lists, overtaken, behind>>
hooks     == <<saved, hook, refreshes>>
previews  == <<stream, held, refused>>
page      == <<shows, panel, available>>
vars == <<page, plugged, changed, hooks, previews, wish>>

Prefs == [mic : BOOLEAN, camera : BOOLEAN, device : Device \cup {NoDevice}]

DefaultPrefs == [mic |-> TRUE, camera |-> TRUE, device |-> NoDevice]

\* What a preview asks for: the device only if it wants the microphone.
Constraint(p) == [p EXCEPT !.device = IF p.mic THEN @ ELSE NoDevice]

Nothing == [mic |-> FALSE, camera |-> FALSE, device |-> NoDevice]

Wants(p) == p.mic \/ p.camera

\* A cancelled request is still to be answered.
Unused == [is |-> "none", want |-> Nothing]
Cancelled == [is |-> "cancelled", want |-> Nothing]

Previewing == shows \in {"waiting", "prejoin"}
Hooked     == Previewing \/ (shows = "call" /\ panel)

\* Refreshes that have begun and not ended.
UnderWay == asking + listing + Len(lists)

\* The state of a hook that has just been mounted.
Mounted == [prefs |-> saved, ready |-> FALSE, listed |-> {}]

Unmounted == [prefs |-> DefaultPrefs, ready |-> FALSE, listed |-> {}]

Init ==
    /\ shows = "away"
    /\ panel = FALSE
    /\ available \in BOOLEAN
    /\ plugged = Device
    /\ changed = FALSE
    /\ saved = DefaultPrefs
    /\ hook = Unmounted
    /\ asking = 0
    /\ listing = 0
    /\ lists = <<>>
    /\ overtaken = 0
    /\ behind = FALSE
    /\ stream = [s \in Stream |-> Unused]
    /\ held = NoStream
    /\ wish = DefaultPrefs
    /\ refused = FALSE

----------------------------------------------------------------------------
(* The preview's effect. *)

\* Its cleanup cancels the request under way and stops the stream held.
Cleaned ==
    [s \in Stream |->
        CASE s = held               -> Unused
          [] stream[s].is = "asked" -> Cancelled
          [] OTHER                  -> stream[s]]

\* It runs again: nothing to show before the devices are known, nor when both
\* are switched off.
Restart(p, ready) ==
    /\ held' = NoStream
    /\ refused' = FALSE
    /\ IF ready /\ Wants(p)
       THEN \E s \in Stream :
                /\ Cleaned[s] = Unused
                /\ stream' = [Cleaned EXCEPT ![s] =
                        [is |-> "asked", want |-> Constraint(p)]]
       ELSE stream' = Cleaned

\* What the effect depends on.
Deps(p, ready) == <<ready, p.mic, p.camera, p.device>>

\* Mutant: an answer that comes after the cleanup is kept.
OnStreamKept(s) ==
    /\ stream[s].is \in {"asked", "cancelled"}
    /\ stream' = [stream EXCEPT ![s].is = "live"]
    /\ held' = s
    /\ UNCHANGED <<page, plugged, changed, hooks, wish, refused>>

\* getUserMedia delivers a stream: it is shown, or stopped if it comes too late.
OnStream(s) ==
    /\ stream[s].is \in {"asked", "cancelled"}
    /\ IF stream[s].is = "asked"
       THEN stream' = [stream EXCEPT ![s].is = "live"] /\ held' = s
       ELSE stream' = [stream EXCEPT ![s] = Unused] /\ UNCHANGED held
    /\ UNCHANGED <<page, plugged, changed, hooks, wish, refused>>

\* The user or the browser refuses; the preview stays empty.
OnRefused(s) ==
    /\ stream[s].is \in {"asked", "cancelled"}
    /\ stream' = [stream EXCEPT ![s] = Unused]
    /\ refused' = (refused \/ stream[s].is = "asked")
    /\ UNCHANGED <<page, plugged, changed, hooks, held, wish>>

----------------------------------------------------------------------------
(* The hook. *)

\* setPrefs, which also saves to sessionStorage, with setReady and setAudioInputs,
\* and the effect if it depends on what they change.
SetState(p, ready, listed) ==
    /\ hook' = [prefs |-> p, ready |-> ready, listed |-> listed]
    /\ saved' = p
    /\ IF Previewing /\ Deps(p, ready) # Deps(hook.prefs, hook.ready)
       THEN Restart(p, ready)
       ELSE UNCHANGED previews

Choose(p) ==
    /\ SetState(p, hook.ready, hook.listed)
    /\ wish' = p
    /\ UNCHANGED <<page, plugged, changed, refreshes>>

ToggleMic    == Hooked /\ Choose([hook.prefs EXCEPT !.mic = ~@])
ToggleCamera == Hooked /\ Choose([hook.prefs EXCEPT !.camera = ~@])

\* An option of DeviceSelects, whose list may be out of date.
ChooseDevice(d) ==
    /\ Hooked
    /\ d \in hook.listed
    /\ Choose([hook.prefs EXCEPT !.device = d])

\* A refresh has got permission or not; it goes on to list the devices in either case.
RefreshMedia ==
    /\ asking > 0
    /\ asking' = asking - 1
    /\ listing' = listing + 1
    /\ UNCHANGED <<page, plugged, changed, saved, hook, lists, overtaken, behind,
                   previews, wish>>

\* enumerateDevices takes its list; without permission the devices have no ids.
ListDevices ==
    /\ listing > 0
    /\ listing' = listing - 1
    /\ \E visible \in {plugged, {}} : lists' = Append(lists, visible)
    /\ UNCHANGED <<page, plugged, changed, saved, hook, asking, overtaken, behind,
                   previews, wish>>

\* enumerateDevices fails; nobody catches it, and the refresh ends there.
ListRejected ==
    /\ listing > 0
    /\ listing' = listing - 1
    /\ overtaken' = Len(lists)
    /\ behind' = TRUE
    /\ UNCHANGED <<page, plugged, changed, saved, hook, asking, lists, previews, wish>>

\* Mutant: the first device is taken whatever was chosen.
FittingFirst(old, visible) == IF visible = {} THEN {NoDevice} ELSE visible

\* The device chosen if it is there, else the first in the browser's order.
Fitting(old, visible) ==
    IF old \in visible THEN {old}
    ELSE IF visible = {} THEN {NoDevice} ELSE visible

\* Mutant: the hook never says that it is ready.
RefreshListUnready(i) ==
    /\ i \in DOMAIN lists
    /\ lists' = RemoveAt(lists, i)
    /\ overtaken' = IF i > overtaken THEN i - 1 ELSE overtaken - 1
    /\ behind' = (i <= overtaken)
    /\ \E d \in Fitting(hook.prefs.device, lists[i]) :
           SetState([hook.prefs EXCEPT !.device = d], hook.ready, lists[i])
    /\ wish' = [wish EXCEPT !.device = IF @ \in lists[i] THEN @ ELSE NoDevice]
    /\ UNCHANGED <<page, plugged, changed, asking, listing>>

\* A list is applied when its answer arrives, whichever was taken first.
RefreshList(i) ==
    /\ i \in DOMAIN lists
    /\ lists' = RemoveAt(lists, i)
    /\ overtaken' = IF i > overtaken THEN i - 1 ELSE overtaken - 1
    /\ behind' = (i <= overtaken)
    /\ \E d \in Fitting(hook.prefs.device, lists[i]) :
           SetState([hook.prefs EXCEPT !.device = d], TRUE, lists[i])
    /\ wish' = [wish EXCEPT !.device = IF @ \in lists[i] THEN @ ELSE NoDevice]
    /\ UNCHANGED <<page, plugged, changed, asking, listing>>

\* A microphone is plugged in or pulled out.
Replug(d) ==
    /\ plugged' = IF d \in plugged THEN plugged \ {d} ELSE plugged \cup {d}
    /\ changed' = TRUE
    /\ UNCHANGED <<page, hooks, previews, wish>>

\* Mutant: nobody listens.
OnDeviceChangeDeaf ==
    /\ changed
    /\ changed' = FALSE
    /\ UNCHANGED <<page, plugged, hooks, previews, wish>>

\* Without mediaDevices nobody listens, and a refresh returns at once.
OnDeviceChange ==
    /\ changed
    /\ changed' = FALSE
    /\ IF Hooked /\ available
       THEN UnderWay < MaxRefresh /\ asking' = asking + 1
       ELSE UNCHANGED asking
    /\ UNCHANGED <<page, plugged, saved, hook, listing, lists, overtaken, behind,
                   previews, wish>>

----------------------------------------------------------------------------
(* The page. *)

\* The hook that comes with a view begins a refresh, which returns at once if the
\* browser has no mediaDevices.
Mount(view, open) ==
    IF view \in {"waiting", "prejoin"} \/ (view = "call" /\ open)
    THEN hook' = Mounted /\ asking' = IF available THEN 1 ELSE 0
    ELSE hook' = Unmounted /\ asking' = 0

\* Mutant: the refreshes of the last component go on in the next.
ShowListening(view, open) ==
    /\ shows' = view
    /\ panel' = open
    /\ Mount(view, open)
    /\ stream' = Cleaned
    /\ held' = NoStream
    /\ refused' = FALSE
    /\ UNCHANGED <<available, plugged, changed, saved, listing, lists, overtaken,
                   behind, wish>>

\* One thing takes the place of another, with a new instance of each component.
Show(view, open) ==
    /\ shows' = view
    /\ panel' = open
    /\ Mount(view, open)
    /\ listing' = 0
    /\ lists' = <<>>
    /\ overtaken' = 0
    /\ behind' = FALSE
    /\ stream' = Cleaned
    /\ held' = NoStream
    /\ refused' = FALSE
    /\ UNCHANGED <<available, plugged, changed, saved, wish>>

\* The answer to a join: knocked, or let in; also one that comes late.
Waits    == shows # "waiting" /\ Show("waiting", panel)
Admitted == shows \in {"away", "waiting"} /\ Show("prejoin", panel)

\* setReady(true): the button, or the frame after that of RecoverMedia.
JoinNow == shows = "prejoin" /\ Show("call", panel)

\* setReady(false), when media is to be connected again.
RecoverMedia == shows = "call" /\ Show("prejoin", panel)

OpenSettings  == shows = "call" /\ ~panel /\ Show("call", TRUE)
CloseSettings == shows = "call" /\ panel /\ Show("call", FALSE)

GoHome == shows # "away" /\ Show("away", FALSE)

Answers(s) == OnStream(s) \/ OnRefused(s)

User == ToggleMic \/ ToggleCamera \/ \E d \in Device : ChooseDevice(d)

Turns ==
    \/ Waits
    \/ Admitted
    \/ JoinNow
    \/ RecoverMedia
    \/ OpenSettings
    \/ CloseSettings
    \/ GoHome

Next ==
    \/ \E s \in Stream : Answers(s)
    \/ User
    \/ RefreshMedia
    \/ ListDevices
    \/ ListRejected
    \/ \E i \in DOMAIN lists : RefreshList(i)
    \/ \E d \in Removable : Replug(d)
    \/ OnDeviceChange
    \/ Turns

Spec == Init /\ [][Next]_vars

\* The browser lists its devices and delivers what it has listed.
FairSpec ==
    /\ Spec
    /\ WF_vars(ListDevices \/ ListRejected)
    /\ WF_vars(\E i \in DOMAIN lists : RefreshList(i))

----------------------------------------------------------------------------

\* Type invariant of the page, the hook and the preview.
TypeOK ==
    /\ shows \in {"away", "waiting", "prejoin", "call"}
    /\ panel \in BOOLEAN /\ available \in BOOLEAN
    /\ plugged \subseteq Device
    /\ changed \in BOOLEAN
    /\ saved \in Prefs
    /\ hook \in [prefs : Prefs, ready : BOOLEAN, listed : SUBSET Device]
    /\ asking \in Nat /\ listing \in Nat /\ lists \in Seq(SUBSET Device)
    /\ UnderWay <= MaxRefresh
    /\ overtaken \in 0..Len(lists) /\ behind \in BOOLEAN
    /\ stream \in [Stream -> [is : {"none", "asked", "cancelled", "live"},
                              want : Prefs]]
    /\ held \in Stream \cup {NoStream}
    /\ wish \in Prefs
    /\ refused \in BOOLEAN

\* No preview leaves a camera on: a stream that is live is the one the mounted
\* PreJoin holds and will stop, however late getUserMedia answered.
StreamsOwned ==
    \A s \in Stream : stream[s].is = "live" => held = s /\ Previewing

\* What the preview shows is what the user has chosen: nothing is captured that
\* is switched off, and not from another device than the one selected.
PreviewFollowsPrefs ==
    held # NoStream =>
        /\ stream[held].want = Constraint(hook.prefs)
        /\ Wants(hook.prefs)

\* Only what is chosen is captured, and only while it is shown.
OnlyWhatIsChosen == StreamsOwned /\ PreviewFollowsPrefs

\* An empty preview is about to change, refused, or meant to be empty: a refresh is
\* under way until the devices are known, then a request is, and no toggle, list or
\* remount cancels the one without starting the other.  Only a browser without
\* mediaDevices, or one whose list failed, leaves it empty with nothing to come.
PreviewIsOwned ==
    /\ Hooked /\ ~hook.ready => UnderWay > 0 \/ behind \/ ~available
    /\ Previewing /\ hook.ready /\ Wants(hook.prefs) =>
        held # NoStream \/ refused \/ \E s \in Stream : stream[s].is = "asked"

\* The preview shows what is chosen, nothing else, and in the end nothing less.
PreviewIsRight == OnlyWhatIsChosen /\ PreviewIsOwned

\* What the user switched on or off, and the device while it can be seen, is the
\* same in the hook and in sessionStorage, across every remount and refresh.
ChoicesSurvive ==
    \A p \in {saved} \cup (IF Hooked THEN {hook.prefs} ELSE {}) :
        /\ p.mic = wish.mic /\ p.camera = wish.camera
        /\ wish.device # NoDevice => p.device = wish.device

\* At rest, after whatever was plugged and pulled and however refreshes overlapped,
\* the device selected is one the computer has, unless an older list was the last to
\* be applied or the last list failed (nothing in the hook tells one refresh from
\* another).
ChosenDeviceExists ==
    Hooked /\ hook.ready /\ ~changed /\ UnderWay = 0 /\ ~behind =>
        hook.prefs.device \in plugged \cup {NoDevice}

\* People answer what the browser asks them, and a preview that is started again and
\* again is answered once.
PromptsAnswered ==
    /\ WF_vars(RefreshMedia)
    /\ WF_vars(\E s \in Stream : stream[s].is = "cancelled" /\ Answers(s))
    /\ SF_vars(\E s \in Stream : stream[s].is = "asked" /\ Answers(s))

\* If prompts are answered, the preview of a page that stays appears for a user who
\* has something switched on, unless it is refused, everything is switched off, or
\* the browser cannot list its devices.  A page that for ever goes on to another
\* mounts a new preview each time and promises none.
PreviewAppears ==
    PromptsAnswered /\ <>[][shows' = shows]_vars =>
        []<>(\/ ~Previewing
             \/ held # NoStream
             \/ refused
             \/ ~Wants(hook.prefs)
             \/ ~available
             \/ ~hook.ready /\ behind)
=============================================================================
