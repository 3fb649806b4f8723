# Verification of InstantMeet

TLA+ models of InstantMeet (a Go API with an in-memory meeting store and a
WebSocket hub, and a React page per user), TLC configurations that check them on
small instances, and TLAPS proofs of their central safety properties for every
size of instance.  `PROJECT.json` maps every definition to the lines it models,
lists the runs, a mutant for every checked property, the findings, the hazards of
the code and the theorems.

    tlc -workers 2 -config MCMeetingApi_safety.cfg MCMeetingApi
    tlapm MeetingApiProofs.tla

## 1. The system

```
 browser                                     server process (one)
 MeetingPage ── POST join, leave, chat ──►  api.go ── Update, Delete ──►  meeting.Store
    ▲    ▲ └──────── answers ◄────────────    │                             (one RWMutex)
    │    │                                    │ Broadcast, SendTo
    │  useMeetingSocket ◄── 101, events ──  hub.go (one RWMutex, a channel per connection)
    │                                         │ go deleteLiveKitRoom, Token
 LiveKitRoom ◄────────── media ─────────►  LiveKit (another process)
```

| component | state | operations | what is hard about it |
|---|---|---|---|
| meeting store (`meeting/store.go`) | the map of meetings under one lock | Create, Get, Update, Delete, Stats | callers work on clones after the lock is released |
| HTTP API (`api/api.go`) | none of its own; a handler's locals | create, join, admit, reject, leave, remove, mute, end, chat, media | each handler is an Update, then broadcasts, a second lock, a token, a goroutine, all interleaved with other handlers |
| hub (`websocket/hub.go`) | rooms of connections, a bounded channel and two goroutines each | ServeHTTP, register, unregister, Broadcast, SendTo, pumps | overlapping broadcasts, full channels, dead peers, close of a channel somebody may send on, upgrade before register |
| LiveKit service (`services/livekit.go`) | none | Token, DeleteRoom with retry | another process that may fail or answer late |
| authentication (`auth/service.go`), user database (`db/db.go`) | one-time login states, the users table | login, callback, middleware, UpsertUser | abandoned logins, two unique columns |
| server process (`cmd/server/main.go`) | none | start, graceful shutdown | what shutdown does not wait for; a crash forgets every meeting |
| socket hook (`hooks/useMeetingSocket.ts`) | current socket, retry count, timer, flags | connect, onopen, onclose, retryNow, cleanup | late callbacks of superseded sockets, timers |
| meeting page (`pages/MeetingPage.tsx`) | the last join answer as amended by events, the error, flags | refreshJoin, onSocket, reconcile effect, leave, end, send, media controls | answers and events travel separately and arrive in any order |
| media devices, pre-join (`hooks/useMediaDevices.ts`, `components/PreJoin.tsx`, `DeviceSelects.tsx`) | choices (also in sessionStorage), device lists, the preview stream | refresh, setPrefs, getUserMedia per effect | answers after cleanup, overlapping refreshes, remounts |
| call (`pages/MeetingPage.tsx` around LiveKitRoom) | microphone on or off in five places, media status, intentionalLeave | toggles in the controls and the settings, mute by the host, reconnect, recover, leave, end | each click updates the five one after another, with waits in between |
| configuration, metrics, session hook, languages, deployment | | | nothing stateful to check |

What makes the parts correct:

* **Store and API**: nobody is inside without the host's consent, seats are
  counted right, a closed meeting stays closed, is announced and its LiveKit room
  swept, and every accepted close happens, whatever handlers interleave.
* **Hub**: no send on a closed channel, no event to the wrong connection, no
  reordering of calls that do not overlap, no goroutine left behind.
* **Page and hook**: the page finds out where its user stands although notices
  get lost; it shows each chat message once and does not forget any.
* **Socket hook**: one attempt to connect at a time, but always one.
* **Devices and preview**: only what is chosen is captured; choices are kept.
* **Call**: a muted user is silent and is seen to be; whoever loses media can
  recover it, whoever leaves gets home.
* **Between them**: private messages stay between two people on every path.

## 2. The modules

| module | models | lines of code it follows |
|---|---|---|
| `Lobby` | abstract contract: who may be inside, outside, waiting | the closures of api.go, as a promise |
| `Channel` | abstract contract: what the hub promises about one connection | hub.go, as a promise |
| `Link` | abstract contract: what the socket hook promises its page | useMeetingSocket.ts, as a promise |
| `MeetingApi` | store + admission handlers as concurrent goroutines | store.go; join ... end of api.go |
| `MeetingApiProofs` | inductive invariant, safety theorems, refinement of `Lobby` | |
| `Hub` | connections, pumps, channels, calls | hub.go |
| `HubProofs` | inductive invariant, safety theorems, refinement of `Channel` | |
| `Admission` | one guest's page with its joins, socket and events, composed with the handlers and the hub | MeetingPage.tsx 97-190, useMeetingSocket.ts, hub.go, api.go |
| `AdmissionProofs` | inductive invariant, the waiting room is left, refinement of `Lobby` | |
| `ChatSync` | one page's chat list, fed by events, snapshots and join answers | chat and visibleChat of api.go, onSocket and refreshJoin of MeetingPage.tsx |
| `ChatSyncProofs` | inductive invariant, privacy, completeness and append-only theorems | |
| `MeetingSocket` | the hook's refs, effect, timer and callbacks, over remounts | useMeetingSocket.ts |
| `MeetingSocketProofs` | inductive invariant, safety theorems, refinement of `Link` | |
| `PreJoin` | devices, choices, refreshes and the preview, over everything the page shows | useMediaDevices.ts, PreJoin.tsx, DeviceSelects.tsx, MeetingPage.tsx 239-278 |
| `PreJoinProofs` | inductive invariant, safety theorems | |
| `Call` | one user's microphone, room, leave and end, with the handlers media and mute | MeetingPage.tsx 75-94, 186-218, 280-317, 415-613; api.go 186-210, 257-284 |
| `CallProofs` | inductive invariant, safety theorems | |
| `MC*` | values of the constants for TLC | |

**How the modules fit together.**  Three contracts say what a component promises:

```
 MeetingApi ──implements──►  Lobby   ◄──implements── Admission (handlers with late requests)
 MeetingSocket ─implements─► Link
 Hub ─────────implements───► Channel
```

A connection seen through `Channel` ends as soon as its link or its writer does,
because its client hears nothing after that, however long the server keeps it in its
map.  `Admission` and `ChatSync` follow a page with neither timers nor pumps, over a
connection of their own that is read off hub.go and useMeetingSocket.ts once more, in
fewer steps.  It is not derived from the two contracts, and it is narrower: a retry by
hand is here a loss that is noticed (`Drop`, then `OnClose`) where Link hangs up in one
step, and a connection the server has given up is gone at once where Channel may still
empty its buffer.  What these two modules show of a page is shown for this connection.

**MeetingApi.** `meetings` is `Store.meetings`; a participant is a user id.
`job[t]` is a request goroutine: the clone `Update` returned (`snap`) and the next
step (`pc`).  Arrival and Update are one action (`Join`, `Admit`, `Reject`,
`Leave`, `Remove`, `End`, `Create`), because nothing shared is touched before the
lock; each later step is its own: `Publish` and `Farewell` (the broadcasts),
`Delete` (the second lock), `MintToken`, `Sweep` (start of the clean-up
goroutine), `Return`.  Every refusal is an action (`NotFound`, `HostOnly`,
`JoinFull`, `NotWaiting`, `RemoveHost`).  `created`, `admitted`, `announced` and
`swept` are histories no action reads, except that `Create` draws an id not in
`created`: `friendlyID` draws one of 31^9 and never compares it with the map, so
freshness is an assumption of the model (the mutant of `ImplementsLobby` shows
what a repeated id would do).

**Hub.** A connection is `upgraded` (the client knows) before it is registered;
`reader` and `writer` are the two pumps, `queue` the channel, `received` what
reached the wire.  A call of Broadcast or SendTo takes the read lock (`Begin`),
offers its event to one connection after the other (`Offer`) and releases it
(`Finish`); `Register` and `Unregister` need the write lock, hence `Unlocked`.
Deadlines are events that may happen, and must when the code says so
(`ReadDeadline`, `WriteDeadline`).

**Admission.** A handler is its Update plus, in `todo`, the broadcast it still
owes; MeetingApi has the handlers in full and Hub the broadcasts.  `page[g]` is
the join status and the error, `call[g][c]` a join under way (an `orphan` was sent
by a page that is gone), `sock` how far the server is, `open` what the hook tells
the page, `wire` the channel and the connection.  `Again` and the Ask in `OnOpen`
are the reconcile effect, which runs when wsStatus or join.status changes and the
two are `open` and `waiting`.  `missed` is a history: guests whose open page was
not sent its admission.  The host stays inside until it ends the meeting, so no
leave closes it.  `leave` at the server and its answer are one step.

**ChatSync.** `chat` is what is in the server's list, a page's `list` how often it has
each message; the order of either is left out.  A message goes `stamped` (its SentAt
is taken before the lock), `stored`, and then out by Broadcast, or by SendTo to its author (`echoed`) and to
its addressee.  Every other handler contributes a snapshot with the public chat of
its clone (`Announce`, `Broadcast`; join's own in `Reply`).  The page merges:
`WithMessage`, `WithSnapshot`, and `Answer`, which replaces.  `lost` is a history.
The host admits, rejects and removes (`Decide`); who is rejected or removed keeps a
socket that is registered until the page is told or goes.
The reconcile of a waiting page may happen at any time while it has a socket,
which is more often than the effect runs; Admission has exactly when.

**MeetingSocket.** `current`, `retry`, `timer` and `manual` are the four refs;
`state[s]` is the readyState of a WebSocket object, `closing` until its onclose has
run, so that callbacks of superseded sockets are still to come (`OnCloseStale`).
`due` says that the effect has to run, which retryTick and the id make it do
(`RunEffect`: cleanup and connect, one task of the browser).  `Mount` and `Unmount`
give the hook to the next page while sockets of the last one still close.  Time is
left out: a timer may fire at any moment.  Admission and ChatSync use the hook only
through the effect it has on the page (a dial while there is no socket, onopen,
onclose).

**PreJoin.** `hook` is the state of the mounted useMediaDevices, `saved` the choices
in sessionStorage.  A refresh waits for getUserMedia (`asking`), then for
enumerateDevices (`listing`), which takes its list (`ListDevices`) before the page gets
it: `lists` has those taken and not applied, and any of them may be applied next
(`RefreshList`), because nothing in the hook tells one refresh from another.
`enumerateDevices` may also fail, which nobody catches (`ListRejected`), and a browser
without mediaDevices (`~available`) lists nothing and is never ready.  `overtaken` and
`behind` are histories: they remember that an older list was applied after a newer one.
`stream[s]` is a getUserMedia request of a preview and then its stream, `held` is
streamRef.  `SetState` is setPrefs with the effect it may set off (`Deps`,
`Restart`, whose cleanup is `Cleaned`).  `Show` unmounts one view and mounts the
next.  One kind of device stands for three.  `wish` (what the user chose last) and
`refused` are histories.

**Call.** Whether the microphone is on is kept in LiveKit (`live`), in
MeetingControls (`shown`), in sessionStorage (`saved`), in LiveKitRoom's prop
(`audio`) and at the server (`flag`).  `click[c]` is a handler of a toggle, which
waits for the device, then for `Media`, and then (in the settings) tells the
controls (`Sync`).  `queue` has the calls of setMicrophoneEnabled that LiveKit
answers in order.  `room` is LiveKit's connection; `OnConnected`, `OnReconnecting`
and the others are the handlers of MediaReconnectWatcher and onDisconnected.
A room may be lost while it is
connected or never come up (`CanBeLost`: its token has expired, say).
`silenced`, `late`, `crossed` and `told` are histories that only properties read.
LiveKit is external: its order of answers, and that it switches on nothing before
it is connected, are assumptions.

## 3. The runs

| run | instance | shows |
|---|---|---|
| `api_safety` | 3 users, 1 id, 2 handlers, 2 seats (132k states) | who is where, capacity, nobody inside or with a token unasked, closes are in order and always have a handler to finish them, it implements Lobby |
| `api_liveness` | 2 users, 2 handlers (82k) | accepted closes happen, are announced and swept |
| `hub` | 2 connections of two users, 3 overlapping calls (to all, to one, to another meeting), channel of 1 (312k) | a channel ends once and nothing is sent on it then, no misdelivery, real-time order, each connection implements Channel, no leaked pumps, buffered events are written |
| `pages` | 1 guest, 2 joins at once, channel of 1 that others may fill, 2 handlers (503k) | the waiting page catches up, the server keeps the Lobby contract however late requests arrive |
| `chat` | 1 followed page of 3 users, messages public, to it and between others, channel of 1, a handler's snapshot and a join's at once (792k) | privacy, no duplicates, nothing missed unexplained, only the answer to a join takes a message away |
| `socket` | 2 meetings, 3 sockets with callbacks to run (932) | one attempt at a time and never none, an honest status, it implements Link, it gets connected |
| `prejoin` | 2 microphones, one of them removable, 2 requests, 2 refreshes at once (446k) | only what is chosen is captured, an empty preview has a reason, choices survive, the chosen device exists unless an older list came last, the preview of a page that stays appears if prompts are answered |
| `call` | 2 clicks at once, 3 queued device calls (718k) | a muted user is silent and seen to be, a hot microphone is shown, media that is lost or never came is recoverable, leaving goes home |
| `leaverace`, `gap`, `forget`, `refusedend` | smallest instance with the case | the findings below; each is expected to be violated |

Why the bounds are enough.  Handlers meet only at the store's lock, and every
bad interleaving found needs two; three users are a host, a guest and somebody
to hold the last seat, and Capacity 2 puts all of them at the cap.  One id is
enough because meetings share nothing but the map.  A channel of one event
overflows soon; 32 would hide that.  In `chat` an old snapshot meets a newer message all
the same: a handler, or a join, has taken its clone and broadcasts when it likes.  Pages share nothing but the
server, so one is followed at a time; two guests square the state space of
`pages` and do not finish.  Two joins at once let an old answer overtake a new
one.  What holds only at these sizes is not claimed for others, unless section 5
says so.

In `socket` three sockets are one current, one that was superseded and one more
that its successor superseded before the first had closed.  In `prejoin` a
request may be cancelled and unanswered while the next is asked, two refreshes may be
listed before and after a devicechange and applied in either order, and the microphone
that was chosen may go and come back.  `call` has two clicks that
cross each other (the controls' and the settings'), and a third call of the host or
of LiveKitRoom between them; a third click is served by one that is done.

`hub` and `call` set `CHECK_DEADLOCK FALSE`: in `hub` each call is made once and
each connection made once, in `call` the user who is home is done, so both models
really stop.  All other runs check deadlock.

Every property has a mutant, a plausible slip in the code (a dropped guard, a
missing reset, a lock not taken) under which its run fails.

### What the code does and a document does not say

Four runs show it:

1. `leaverace`: docs/architecture.md:32 has the *last active participant's* leave
   destroy the room; leave decides under one lock and deletes under another, and
   somebody who came in between is thrown out of an active meeting.
2. `gap`: MeetingPage.tsx:174-175 means to reconcile admissions that happen before
   the WebSocket registration, but does so at onopen, which the upgrade causes
   *before* register.  A guest admitted in between waits until a reload or reconnect.
3. `forget`: MeetingPage.tsx:147-148 keeps every message already known; the answer to
   a join replaces the list.  A private message that overtakes that answer
   disappears, and no snapshot brings it back.
4. `refusedend`: docs/current-state.md:53 has media recovered without a forced redirect
   home.  An `end` that was refused leaves intentionalLeave set, and the next loss of
   the room goes home, however much later (`EndRefused`, `OnDisconnected`).

The models show more that has no run of its own:

* docs/architecture.md:22 has a meeting's state move forward; a host's join or an
  admit between end's two locks sets `ending` back to `active` (`End`, `Join`).
* README.md:41 supports 100 participants; at the cap, members who join again (every
  admitted guest does, to get a token) and a late host are refused (`JoinFull`).
* docs/architecture.md:32 again: the handler never asks whether who leaves was a
  participant.  A guest who knocks before the host has joined and gives up destroys the
  host's meeting (`Leave`, `AfterLeave`), and other waiting guests get meeting.ended.
* Two refreshes may be answered in the other order: the list taken before a devicechange
  is then applied after the one taken since, and what is selected may be a device that
  is gone, until the next refresh (`RefreshList`; ChosenDeviceExists names it, `behind`).
* A rejected enumerateDevices is caught by nobody (`ListRejected`): a first refresh that
  ends so leaves the preview empty and the hook not ready until a devicechange, without
  a word to the user.  A browser without mediaDevices is told so, and stays there too.
* i18n.ts:103 says that device choices "stay until you close the tab".  A device that
  is unplugged, or listed without permission, is replaced in sessionStorage too, and
  is not chosen again when it is back (`RefreshList`).  ChoicesSurvive therefore
  follows a device only while it can be seen.
* The controls' toggle and the host's mute do not change sessionStorage.  After media
  is recovered the microphone starts from the choice stored there, so that a muted
  user may be heard again (`JoinNow`, `OnConnected`); `silenced` ends there.
* A mute that meets a page without MeetingControls is lost (`OnMute` in pre-join); a
  mute or a click before the room is connected is overridden by LiveKitRoom's own
  start; and two quick clicks in the settings may leave the controls showing "off" for
  a microphone that is on, until the button is clicked again.  HotMicIsShown and
  MuteIsSeen name exactly these crossings (`crossed`, `late`).
* The server's flag starts TRUE and a choice made before the call is never reported,
  so that a user who joins muted is listed with the microphone on.

## 4. Fairness

Invariants assume none.  `FairSpec` of MeetingApi: a handler that has begun goes
on (no step waits but for a mutex held briefly); nobody need send a request.  Of
Hub: goroutines that can run do, calls of Broadcast and SendTo that have begun go on (together: which of them goes next is the scheduler's), a writer that waits for the RWMutex gets it (Go
admits no new reader meanwhile), a dead link is noticed through the deadlines the
code sets.  Of Admission: requests and answers arrive, handlers finish, callbacks
run, the hook redials while it has no socket (its timer does, for ever), and a
page that is given connections again and again opens one in the end: strong
fairness of `OnOpen`, since a network that kills every connection before onopen
would let the guest wait for ever and no code could help.  Of MeetingSocket: the
browser runs effects, timers and onclose callbacks, and of endlessly many dials one
opens (strong fairness of `OnOpen`, for the same reason).  Of PreJoin: the browser
answers enumerateDevices, if with an error, and delivers the answer.  A permission
prompt may be ignored for ever; that somebody answers it, and that a request restarted
again and again is answered once, is the premise of PreviewAppears itself
(`PromptsAnswered`), not of the specification; so is that the page stays what it is in
the end, since one that goes on for ever mounts a new preview each time.  Of Call: only that `leave` and `end` are answered, if with an
error.  Nothing is assumed of
people, of the host's decisions, or of tabs.

## 5. The proofs

All theorems hold for every set of users, ids, goroutines, connections and calls
and every capacity and channel size, from the named ASSUMEs (users are finite,
capacity and some bounds are positive, the "none" values are none).  Every
invariant and every action property that a passing run checks is proved, and so are
the refinements: of `Lobby` by MeetingApi and by Admission, of `Channel` by Hub, and of
`Link` by MeetingSocket.

**MeetingApiProofs** proves `IInv = TypeOK /\ StoreInv /\ HandlerInv /\ HistoryInv`
inductive.  The checked invariants are not inductive alone:
`OnlyByAdmission` is also about a clone, so `HandlerInv` says that every clone is as
good a meeting as those in the store (`GoodMeeting`) and stays so because
admissions are only added; `CapacityRespected` needs that participants and waiting
room are disjoint, or join's sum of the two would not be the number of seats;
`CloseIsComplete` needs what end and leave have done at each `pc` (end has
announced when it deletes, leave has deleted when it announces).  From it: type
correctness, the safety invariants, and `Refinement`: `Spec => Contract!Spec`,
each Update mapping to one Lobby step (or a stutter) and everything else to a
stutter, `Delete` to Close or, when another handler was faster, a stutter.
`CloseIsOwned` is what safety can say of the two liveness properties: a meeting whose
close was accepted, or that is gone and not yet announced or swept, has a handler
that still owes that step.  It is inductive on top of `IInv`, meeting by meeting
(`Owned`): a handler pays what it owes in one step, and what it pays is what the next
clause asks for.  When two closes overlap, neither relies on the other, although
either may delete; this is also why a join or an admit in between changes nothing.
`RestIsClean` follows: with no request under way, announced, swept and gone are the
same meetings.

**HubProofs** proves `HubInv = TypeOK /\ Registration /\ Loops /\ OnlyToAddressees`
inductive.  `Registration`: a connection in the map is in its own meeting's room and
its reader has not unregistered; `Loops`: what a call has still to visit is still
addressed, as nothing leaves the map while a call is inside.  From it
`OnlyToAddressees`, and with `Life` (a connection is in the map exactly while it is
read from) `ChannelEndsOnce`: no send on a closed channel, and every connection
whose reader is past unregister has its channel closed.  `HubImplementsChannel` maps each connection to Channel and
each of the hub's steps to one of Channel's or a stutter: a call's offer is a Put
because what it has still to visit is registered (`PendingIsRegistered`), and the end
of the link or of the writer, whichever comes first, is the Break.  `RealTimeOrder` needs `OrderInv`:
`before` holds only calls that had ended, and a call never returns to a connection it
has visited (`Visited`), so that what a later call offers comes behind.

**AdmissionProofs** proves `AdmissionInv = TypeOK /\ EmptyUnlessLive /\ PageInv` of every
guest.  A waiting page may hold an old answer "waiting" that arrives for a guest who is
inside already.  `CatchesUp` therefore does not count any join as hope but a `Fresh` one,
whose answer cannot be "waiting" for who is inside; `SocketAfterAnswer` says that the
first answer finds no open socket, so that the effect is still to come.  With
`EmptyUnlessLive` and `NothingBeforeCreate` every handler maps to one step of Lobby or a
stutter, however late its request arrives.

**MeetingSocketProofs** proves `SocketInv`: types, the four safety properties, and
`HeldByPage` (a page holds a socket only with a meeting, and has a meeting only while
it is mounted).  The argument is that whatever replaces a socket closes it in the
same step (`ClosedIsDead`): a late onclose then finds another `current` and does
nothing.  `HookImplementsLink` maps an effect that is due to a hook that has hung up: it
is about to close whatever it holds, in the same turn of the browser, and the status
it shows until then is not the page's belief about the connection to come.

**ChatSyncProofs** proves `ChatInv`: types, `SnapshotsArePublic`, and for each page
`PageInv`.  Privacy is not inductive for what a browser has alone: the snapshots still
to be broadcast must be public (`SnapshotsArePublic`), and what is on a wire be for its
user (`Private`).  `Complete` adds to MissingIsExplained the answer that is under way:
it will have all its user may see but for what is explained already, so that the answer
which replaces the list explains the same.  `OnlyJoinsForget` is the action property of the
comment at MeetingPage.tsx:147-148, as far as it is true: events and snapshots add to a
list whatever their age (`EventsAddToLists`), and a message leaves it only with the
answer to a join, as the run `forget` shows that it does.  `ListIsRight` joins ListedOnce and MissingIsExplained.

**PreJoinProofs** proves `PreviewInv = Typed /\ Agreed /\ Asked /\ StreamsOwned /\
PreviewFollowsPrefs`.  A stream that arrives is right only because its request was:
`Asked` says that at most one request is not cancelled, that it is for what is
chosen now, and that nothing is held meanwhile; `Agreed`, that hook, sessionStorage
and the user's wish agree and that no refresh outlives its hook.  `ChosenDeviceExists`
needs to know of the whole list what it says of the device, since the user may choose
from it, and of the lists on their way (`ListIsCurrent`): the newest is current
unless a newer one was applied already, and what is applied is current when nothing newer
is to come, unless `behind`.  `EmptyPreviewIsOwned` is the safety half of
PreviewAppears: an empty preview has a refresh under way until the devices are known
(but in a browser without mediaDevices, or after a list that failed), and a request from
then on, unless it was refused or nothing is wanted.  The effect cancels a request
only when it starts the next (`RestartAsks`), and what is mounted begins with a refresh
(`ShowKeepsOwned`).  `PreviewIsRight` joins it with the two parts of OnlyWhatIsChosen.

**CallProofs** proves `CallInv`: types in three parts (`Flags`, `Values`, `Queued`),
where the room and the page may be (`Placed`), who asked to go (`Asked`), and
`Silent`: while the user is silenced the room is connected, and behind every queued
call that switches on there is one of the host, which switches off.  That is why a
mute wins over clicks that were under way before it, however many there are.
`MuteIsSeen` follows from `MuteAlone`: while a mute that met no click is coming or holds,
no click is under way.  `HotMicIsShown` needs most (`ButtonInv`): LiveKitRoom's own call is
first in the queue and asks for what the button shows (`StartIsShown`); a click in the
settings is followed in the queue by nothing but the host's mute, and once it has switched
off nothing switches on again (`SettingsAreLast`); and a microphone that is on and not
shown has the host's call behind it or the settings' message to the controls to come
(`ShownSoon`).

Only model-checked: the liveness properties (`AcceptedCloseHappens`,
`ClosedIsAnnouncedAndSwept`, `NoLeakedPumps`, `BufferedIsWritten`, `AdmissionIsShown`,
`GetsConnected`, `PreviewAppears`, `LeavingGoesHome`), which are beyond this prover, and
the four expected violations, which are counterexamples.  Where a liveness property
has a safety half, that is proved: `CloseIsOwned` for the first two,
`WaitingPageCatchesUp` for AdmissionIsShown, NeverStranded in `OneAttempt` for
GetsConnected, `PreviewIsOwned` for PreviewAppears.

`NothingLeftAtRest` (RestIsClean), `Life` (Lives) and `PreviewIsOwned` alone are proved but are not listed by a run: they follow from, or
are the reason for, a property that is.

## 6. Not modelled

* Names, avatars, timestamps and wording; metrics, configuration, languages, the
  home page and deployment (no behaviour over time); origin and cookie checks (they
  leave no state).
* Camera and screen in Call (the toggles are the microphone's without the mute), the
  choice of a device during the call (`switchActiveDevice`), `chatTarget`, which
  silently turns from a user who left to everyone, and the lists of participants in
  the page.
* The inside of LiveKit, Google and PostgreSQL, and with it DeleteRoom's retry: what
  a room service does with a room that is deleted while a client with a valid token
  joins it is not said in this repository.  Login (a one-time state and one upsert)
  has no interleaving of the program's own.
* React.  An updater passed to a state setter of a component that is gone is assumed
  not to run.  useMediaDevices writes to sessionStorage inside one (`setPrefs`), so that
  a refresh of an unmounted hook would otherwise put its choices back; ChoicesSurvive
  rests on this.
* Crash and restart: nothing of a meeting is persisted, so there is nothing to
  recover; shutdown waits for handlers only.
* The order of messages: the server appends, a page sorts by SentAt when a snapshot
  comes and appends an event otherwise, and the stamps are taken before the lock.  Two
  pages may therefore list messages in different orders; nothing in the repository
  says that they do not.

## 7. Plan

In this order:

1. The participants' flags of several users in one meeting, with snapshots that
   overtake each other (api.go:88): what a page's list may show, and when it is
   current again.
2. The invariants of `Lobby`, `Link` and `Channel` themselves, so that what
   implements them inherits them; and a page composed with the contracts in place of a
   connection of its own (hanging up in one step, a buffer that still empties), so that
   what is shown of it holds for whatever implements them.
3. Liveness remains with TLC; the safety halves that are still to be stated are those
   of `NoLeakedPumps` and `LeavingGoesHome`.
