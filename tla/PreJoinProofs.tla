--------------------------- MODULE PreJoinProofs ---------------------------
(***************************************************************************)
(* What the preview and the choices guarantee for every set of devices and  *)
(* however many requests of getUserMedia and refreshes overlap.             *)
(***************************************************************************)
EXTENDS PreJoin, SequenceTheorems, TLAPS

Requests == [is : {"none", "asked", "cancelled", "live"}, want : Prefs]

Hook == [prefs : Prefs, ready : BOOLEAN, listed : SUBSET Device]

\* The part of TypeOK that the arguments below need.
Typed ==
    /\ plugged \subseteq Device
    /\ saved \in Prefs
    /\ hook \in Hook
    /\ asking \in Nat /\ listing \in Nat /\ lists \in Seq(SUBSET Device)
    /\ stream \in [Stream -> Requests]
    /\ held \in Stream \cup {NoStream}
    /\ wish \in Prefs

\* The hook and sessionStorage agree; without the hook, and without mediaDevices,
\* nothing is refreshed.
Agreed ==
    /\ Hooked => hook.prefs = saved
    /\ ~Hooked \/ ~available => asking = 0 /\ listing = 0 /\ lists = <<>>
    /\ ~available => ~hook.ready
    /\ saved.mic = wish.mic /\ saved.camera = wish.camera
    /\ wish.device # NoDevice => saved.device = wish.device

\* At most one request is not cancelled, for what is chosen, while nothing is held.
Asked ==
    /\ \A s \in Stream : stream[s].is = "asked" =>
        /\ held = NoStream /\ Previewing
        /\ stream[s].want = Constraint(hook.prefs) /\ Wants(hook.prefs)
    /\ \A s, t \in Stream : stream[s].is = "asked" /\ stream[t].is = "asked" => s = t
    /\ held # NoStream => stream[held].is = "live"

PreviewInv == Typed /\ Agreed /\ Asked /\ StreamsOwned /\ PreviewFollowsPrefs

\* The rest of TypeOK.
PageTyped ==
    /\ shows \in {"away", "waiting", "prejoin", "call"}
    /\ panel \in BOOLEAN /\ available \in BOOLEAN
    /\ changed \in BOOLEAN /\ refused \in BOOLEAN
    /\ UnderWay <= MaxRefresh
    /\ overtaken \in 0..Len(lists) /\ behind \in BOOLEAN

\* Once the last list has been taken, it is that of the computer; it is the one still
\* to be applied, or what the user sees unless that is behind.
ListIsCurrent ==
    Hooked /\ ~changed /\ asking = 0 /\ listing = 0 =>
        /\ Len(lists) > overtaken => lists[Len(lists)] \subseteq plugged
        /\ Len(lists) = overtaken /\ hook.ready /\ ~behind =>
            /\ hook.prefs.device \in plugged \cup {NoDevice}
            /\ hook.listed \subseteq plugged

----------------------------------------------------------------------------

\* What is left when one list is taken out: the last stays the last.
LEMMA RemoveProperties ==
    ASSUME NEW S, NEW s \in Seq(S), NEW i \in DOMAIN s
    PROVE  /\ RemoveAt(s, i) \in Seq(S)
           /\ Len(RemoveAt(s, i)) = Len(s) - 1
           /\ i < Len(s) => RemoveAt(s, i)[Len(s) - 1] = s[Len(s)]
<1> DEFINE a == SubSeq(s, 1, i - 1)
           b == SubSeq(s, i + 1, Len(s))
<1>1. Len(s) \in Nat /\ i \in 1..Len(s) /\ \A j \in 1..Len(s) : s[j] \in S
      OBVIOUS
<1>2. a \in Seq(S) /\ Len(a) = i - 1
  <2>1. \A j \in 1..(i - 1) : s[j] \in S
        BY <1>1
  <2>2. /\ a \in Seq(S)
        /\ Len(a) = IF 1 <= i - 1 THEN (i - 1) - 1 + 1 ELSE 0
        BY <1>1, <2>1, SubSeqProperties
  <2> QED BY <1>1, <2>2
<1>3. /\ b \in Seq(S) /\ Len(b) = Len(s) - i
      /\ \A j \in 1..(Len(s) - i) : b[j] = s[i + j]
  <2>1. \A j \in (i + 1)..Len(s) : s[j] \in S
        BY <1>1
  <2>2. /\ b \in Seq(S)
        /\ Len(b) = IF i + 1 <= Len(s) THEN Len(s) - (i + 1) + 1 ELSE 0
        /\ \A j \in 1..(Len(s) - (i + 1) + 1) : b[j] = s[(i + 1) + j - 1]
        BY <1>1, <2>1, SubSeqProperties
  <2> QED BY <1>1, <2>2
<1>4. RemoveAt(s, i) = a \o b
      BY DEF RemoveAt
<1> HIDE DEF a, b
<1>5. /\ a \o b \in Seq(S)
      /\ Len(a \o b) = Len(a) + Len(b)
      /\ \A j \in 1..(Len(a) + Len(b)) :
             (a \o b)[j] = IF j <= Len(a) THEN a[j] ELSE b[j - Len(a)]
      BY <1>2, <1>3, ConcatProperties
<1>6. ASSUME i < Len(s)
      PROVE  (a \o b)[Len(s) - 1] = s[Len(s)]
  <2>1. Len(s) - 1 \in 1..(Len(a) + Len(b)) /\ ~(Len(s) - 1 <= Len(a))
        BY <1>1, <1>2, <1>3, <1>6
  <2>2. (a \o b)[Len(s) - 1] = b[Len(s) - 1 - Len(a)]
        BY <1>5, <2>1
  <2>3. Len(s) - 1 - Len(a) = Len(s) - i
        BY <1>1, <1>2
  <2>4. Len(s) - i \in 1..(Len(s) - i) /\ i + (Len(s) - i) = Len(s)
        BY <1>1, <1>6
  <2>5. b[Len(s) - i] = s[i + (Len(s) - i)]
        BY <1>3, <2>4
  <2> QED BY <2>2, <2>3, <2>4, <2>5
<1>7. Len(a \o b) = Len(s) - 1
      BY <1>1, <1>2, <1>3, <1>5
<1> QED BY <1>4, <1>5, <1>6, <1>7

LEMMA CleanedType ==
    ASSUME Typed
    PROVE  Cleaned \in [Stream -> Requests]
BY DEF Typed, Cleaned, Requests, Unused, Cancelled, Nothing, Prefs

LEMMA ConstraintType == \A p \in Prefs : Constraint(p) \in Prefs
BY DEF Constraint, Prefs

\* The cleanup leaves nothing live and nothing to be kept.
LEMMA CleanedIsOff ==
    ASSUME Typed, StreamsOwned
    PROVE  \A s \in Stream : Cleaned[s].is \in {"none", "cancelled"}
BY DEF Typed, StreamsOwned, Cleaned, Unused, Cancelled, Requests

\* What the effect leaves when it runs again.
LEMMA RestartIsOwned ==
    ASSUME PreviewInv, NEW p \in Prefs, NEW ready, Previewing', hook'.prefs = p,
           Restart(p, ready)
    PROVE  /\ Asked' /\ StreamsOwned' /\ PreviewFollowsPrefs'
           /\ stream' \in [Stream -> Requests] /\ held' = NoStream
<1> USE DEF PreviewInv
<1>1. held' = NoStream
      BY DEF Restart
<1>2. CASE stream' = Cleaned
  <2>1. \A s \in Stream : stream'[s].is \in {"none", "cancelled"}
        BY <1>2, CleanedIsOff
  <2> QED BY <1>1, <1>2, <2>1, CleanedType
          DEF Asked, StreamsOwned, PreviewFollowsPrefs
<1>3. ASSUME NEW s \in Stream, Wants(p),
             stream' = [Cleaned EXCEPT ![s] = [is |-> "asked", want |-> Constraint(p)]]
      PROVE  /\ Asked' /\ StreamsOwned' /\ PreviewFollowsPrefs'
             /\ stream' \in [Stream -> Requests]
  <2>1. [is |-> "asked", want |-> Constraint(p)] \in Requests
        BY ConstraintType DEF Requests
  <2>2. stream' \in [Stream -> Requests]
        BY <1>3, <2>1, CleanedType
  <2>3. stream'[s].is = "asked" /\ stream'[s].want = Constraint(p)
        BY <1>3, CleanedType
  <2>4. \A t \in Stream \ {s} : stream'[t].is \in {"none", "cancelled"}
        BY <1>3, CleanedType, CleanedIsOff
  <2>5. Asked'
        BY <1>1, <1>3, <2>3, <2>4 DEF Asked
  <2>6. StreamsOwned'
        BY <2>3, <2>4 DEF StreamsOwned
  <2> QED BY <1>1, <2>2, <2>5, <2>6 DEF PreviewFollowsPrefs
<1> QED BY <1>1, <1>2, <1>3 DEF Restart

\* A change of the hook's state, and the effect if it depends on it.
LEMMA SetStateIsOwned ==
    ASSUME PreviewInv, NEW p \in Prefs, NEW ready \in BOOLEAN,
           NEW listed \in SUBSET Device, SetState(p, ready, listed),
           shows' = shows, panel' = panel
    PROVE  /\ Asked' /\ StreamsOwned' /\ PreviewFollowsPrefs'
           /\ stream' \in [Stream -> Requests] /\ held' \in Stream \cup {NoStream}
           /\ hook' = [prefs |-> p, ready |-> ready, listed |-> listed]
           /\ hook' \in Hook /\ saved' = p /\ hook'.prefs = p
<1> USE DEF PreviewInv
<1>1. /\ hook' = [prefs |-> p, ready |-> ready, listed |-> listed]
      /\ hook' \in Hook /\ saved' = p /\ hook'.prefs = p
      BY DEF SetState, Hook
<1>2. CASE Previewing /\ Restart(p, ready)
      BY <1>1, <1>2, RestartIsOwned DEF Previewing
<1>3. CASE UNCHANGED previews /\ ~Previewing
      BY <1>1, <1>3
         DEF previews, Typed, Asked, StreamsOwned, PreviewFollowsPrefs, Previewing
<1>4. CASE UNCHANGED previews /\ Deps(p, ready) = Deps(hook.prefs, hook.ready)
  <2>1. p.mic = hook.prefs.mic /\ p.camera = hook.prefs.camera
        /\ p.device = hook.prefs.device
        BY <1>4 DEF Deps
  <2>2. hook.prefs \in Prefs
        BY DEF Typed, Hook
  <2>3. p = hook.prefs
        BY <2>1, <2>2 DEF Prefs
  <2>4. hook'.prefs = hook.prefs
        BY <1>1, <2>3
  <2> QED BY <1>1, <1>4, <2>4
          DEF previews, Typed, Asked, StreamsOwned, PreviewFollowsPrefs, Previewing
<1> QED BY <1>1, <1>2, <1>3, <1>4 DEF SetState

\* A change of the hook's state that agrees with what the user wishes.
LEMMA SetStateKeepsInv ==
    ASSUME PreviewInv, NEW p \in Prefs, NEW ready \in BOOLEAN,
           NEW listed \in SUBSET Device, SetState(p, ready, listed), Hooked,
           UNCHANGED <<page, plugged>>, available \/ ~ready,
           asking' \in Nat, listing' \in Nat, lists' \in Seq(SUBSET Device),
           available \/ (asking' = 0 /\ listing' = 0 /\ lists' = <<>>),
           wish' \in Prefs,
           p.mic = wish'.mic, p.camera = wish'.camera,
           wish'.device # NoDevice => p.device = wish'.device
    PROVE  PreviewInv'
<1>1. /\ Asked' /\ StreamsOwned' /\ PreviewFollowsPrefs'
      /\ stream' \in [Stream -> Requests] /\ held' \in Stream \cup {NoStream}
      /\ hook' \in Hook /\ saved' = p /\ hook'.prefs = p
      /\ hook'.ready = ready
      BY SetStateIsOwned DEF page
<1>2. Hooked' /\ available' = available
      BY DEF Hooked, Previewing, page
<1>3. Typed'
      BY <1>1 DEF PreviewInv, Typed
<1>4. Agreed'
      BY <1>1, <1>2 DEF Agreed
<1> QED BY <1>1, <1>3, <1>4 DEF PreviewInv

\* The user's own choices.
LEMMA UserKeepsInv ==
    ASSUME PreviewInv, User
    PROVE  PreviewInv'
<1>1. ASSUME NEW p \in Prefs, Hooked, Choose(p)
      PROVE  PreviewInv'
  <2>1. hook.ready \in BOOLEAN /\ hook.listed \in SUBSET Device
        BY DEF PreviewInv, Typed, Hook
  <2>2. /\ SetState(p, hook.ready, hook.listed) /\ wish' = p
        /\ UNCHANGED <<page, plugged, changed, refreshes>>
        BY <1>1 DEF Choose
  <2>3. /\ asking' \in Nat /\ listing' \in Nat /\ lists' \in Seq(SUBSET Device)
        /\ available \/ (asking' = 0 /\ listing' = 0 /\ lists' = <<>>)
        /\ available \/ ~hook.ready
        BY <2>2 DEF PreviewInv, Typed, Agreed, refreshes
  <2> QED BY <1>1, <2>1, <2>2, <2>3, SetStateKeepsInv
<1>2. hook.prefs \in Prefs /\ hook.listed \in SUBSET Device
      BY DEF PreviewInv, Typed, Hook
<1>3. CASE ToggleMic
  <2>1. [hook.prefs EXCEPT !.mic = ~@] \in Prefs
        BY <1>2 DEF Prefs
  <2> QED BY <1>1, <1>3, <2>1 DEF ToggleMic
<1>4. CASE ToggleCamera
  <2>1. [hook.prefs EXCEPT !.camera = ~@] \in Prefs
        BY <1>2 DEF Prefs
  <2> QED BY <1>1, <1>4, <2>1 DEF ToggleCamera
<1>5. ASSUME NEW d \in Device, ChooseDevice(d)
      PROVE  PreviewInv'
  <2>1. [hook.prefs EXCEPT !.device = d] \in Prefs
        BY <1>2 DEF Prefs
  <2> QED BY <1>1, <1>5, <2>1 DEF ChooseDevice
<1> QED BY <1>3, <1>4, <1>5 DEF User

\* A list of devices replaces a device only that cannot be seen in it.
LEMMA RefreshListKeepsInv ==
    ASSUME PreviewInv, NEW i \in DOMAIN lists, RefreshList(i)
    PROVE  PreviewInv'
<1> DEFINE visible == lists[i]
<1>0. /\ lists' = RemoveAt(lists, i)
      /\ \E d \in Fitting(hook.prefs.device, visible) :
             SetState([hook.prefs EXCEPT !.device = d], TRUE, visible)
      /\ wish' = [wish EXCEPT !.device =
             IF wish.device \in visible THEN wish.device ELSE NoDevice]
      /\ UNCHANGED <<page, plugged, changed, asking, listing>>
      BY DEF RefreshList
<1>1. PICK d \in Fitting(hook.prefs.device, visible) :
         SetState([hook.prefs EXCEPT !.device = d], TRUE, visible)
      BY <1>0
<1>2. /\ hook.prefs \in Prefs /\ wish \in Prefs /\ visible \in SUBSET Device
      /\ asking \in Nat /\ listing \in Nat /\ lists \in Seq(SUBSET Device)
      BY DEF PreviewInv, Typed, Hook
<1>3. lists # <<>>
      OBVIOUS
<1>4. Hooked /\ available /\ hook.prefs = saved
      BY <1>3 DEF PreviewInv, Agreed
<1> HIDE DEF visible
<1>5. d \in Device \cup {NoDevice}
      BY <1>2 DEF Fitting, Prefs
<1>6. /\ [hook.prefs EXCEPT !.device = d] \in Prefs
      /\ [hook.prefs EXCEPT !.device = d].mic = hook.prefs.mic
      /\ [hook.prefs EXCEPT !.device = d].camera = hook.prefs.camera
      /\ [hook.prefs EXCEPT !.device = d].device = d
      BY <1>2, <1>5 DEF Prefs
<1>7. /\ wish' \in Prefs /\ wish'.mic = wish.mic /\ wish'.camera = wish.camera
      /\ wish'.device = IF wish.device \in visible THEN wish.device ELSE NoDevice
      BY <1>0, <1>2 DEF Prefs
<1>8. wish'.device # NoDevice => d = wish'.device
  <2> SUFFICES ASSUME wish'.device # NoDevice PROVE d = wish'.device
      OBVIOUS
  <2>1. wish'.device = wish.device /\ wish.device \in visible
        BY <1>7
  <2>2. hook.prefs.device = wish.device
        BY <1>4, <1>7, <2>1 DEF PreviewInv, Agreed
  <2> QED BY <2>1, <2>2 DEF Fitting
<1>9. hook.prefs.mic = wish.mic /\ hook.prefs.camera = wish.camera
      BY <1>4 DEF PreviewInv, Agreed
<1>10. /\ asking' \in Nat /\ listing' \in Nat /\ lists' \in Seq(SUBSET Device)
       /\ UNCHANGED <<page, plugged>>
       BY <1>0, <1>2, RemoveProperties
<1> QED BY <1>1, <1>2, <1>4, <1>6, <1>7, <1>8, <1>9, <1>10, SetStateKeepsInv

\* The browser answers the preview, in time or too late.
LEMMA AnswersKeepsInv ==
    ASSUME PreviewInv, NEW s \in Stream, Answers(s)
    PROVE  PreviewInv'
<1> USE DEF PreviewInv
<1>1. UNCHANGED <<page, plugged, changed, hooks, wish>>
      BY DEF Answers, OnStream, OnRefused
<1>2. /\ hook' = hook /\ saved' = saved /\ wish' = wish
      /\ asking' = asking /\ listing' = listing /\ lists' = lists
      /\ Hooked' = Hooked /\ Previewing' = Previewing /\ available' = available
      BY <1>1 DEF hooks, refreshes, page, Hooked, Previewing
<1>3. Agreed'
      BY <1>2 DEF Agreed
<1>4. stream[s] \in Requests /\ Unused \in Requests /\ NoStream \notin Stream
      BY NoneIsNone DEF Typed, Requests, Unused, Nothing, Prefs
<1>5. CASE OnStream(s) /\ stream[s].is = "asked"
  <2>1. stream' = [stream EXCEPT ![s].is = "live"] /\ held' = s
        BY <1>5 DEF OnStream
  <2>2. /\ stream' \in [Stream -> Requests]
        /\ stream'[s].is = "live" /\ stream'[s].want = stream[s].want
        /\ \A t \in Stream \ {s} : stream'[t] = stream[t]
        BY <1>4, <2>1 DEF Typed, Requests
  <2>3. held = NoStream /\ Previewing
        /\ stream[s].want = Constraint(hook.prefs) /\ Wants(hook.prefs)
        BY <1>5 DEF Asked
  <2>4. \A t \in Stream \ {s} : stream'[t].is \notin {"asked", "live"}
        BY <1>4, <1>5, <2>2, <2>3 DEF Asked, StreamsOwned
  <2>5. Typed'
        BY <1>1, <1>2, <2>1, <2>2 DEF Typed
  <2>6. Asked'
        BY <1>4, <2>1, <2>2, <2>4 DEF Asked
  <2>7. StreamsOwned'
        BY <1>2, <2>1, <2>2, <2>3, <2>4 DEF StreamsOwned
  <2>8. PreviewFollowsPrefs'
        BY <1>2, <2>1, <2>2, <2>3 DEF PreviewFollowsPrefs
  <2> QED BY <1>3, <2>5, <2>6, <2>7, <2>8
<1>6. CASE stream' = [stream EXCEPT ![s] = Unused] /\ held' = held
           /\ stream[s].is \in {"asked", "cancelled"}
  <2>1. /\ stream' \in [Stream -> Requests] /\ stream'[s].is = "none"
        /\ \A t \in Stream \ {s} : stream'[t] = stream[t]
        BY <1>4, <1>6 DEF Typed, Unused
  <2>2. held # s
        BY <1>4, <1>6 DEF Asked
  <2>3. Typed'
        BY <1>1, <1>2, <1>6, <2>1 DEF Typed
  <2>4. Asked'
        BY <1>2, <1>6, <2>1, <2>2 DEF Asked, Typed
  <2>5. StreamsOwned'
        BY <1>2, <1>6, <2>1 DEF StreamsOwned
  <2>6. PreviewFollowsPrefs'
        BY <1>2, <1>6, <2>1, <2>2 DEF PreviewFollowsPrefs, Typed
  <2> QED BY <1>3, <2>3, <2>4, <2>5, <2>6
<1>7. CASE OnStream(s) /\ stream[s].is # "asked"
      BY <1>6, <1>7 DEF OnStream
<1>8. CASE OnRefused(s)
      BY <1>6, <1>8 DEF OnRefused
<1> QED BY <1>5, <1>7, <1>8 DEF Answers

\* One thing takes the place of another.
LEMMA ShowKeepsInv ==
    ASSUME PreviewInv, NEW view, NEW open, Show(view, open)
    PROVE  PreviewInv'
<1> USE DEF PreviewInv
<1>1. /\ stream' = Cleaned /\ held' = NoStream /\ listing' = 0 /\ lists' = <<>>
      /\ shows' = view /\ panel' = open /\ available' = available
      /\ plugged' = plugged /\ saved' = saved /\ wish' = wish
      BY DEF Show
<1>2. \A s \in Stream : stream'[s].is \in {"none", "cancelled"}
      BY <1>1, CleanedIsOff
<1>3. Mounted \in Hook /\ Mounted.prefs = saved /\ Unmounted \in Hook
      BY DEF Mounted, Unmounted, Hook, Typed, DefaultPrefs, Prefs
<1>4. /\ hook' \in Hook /\ asking' \in Nat /\ ~hook'.ready
      /\ Hooked' => hook'.prefs = saved
      /\ ~Hooked' \/ ~available => asking' = 0
  <2>1. Hooked' <=> view \in {"waiting", "prejoin"} \/ (view = "call" /\ open)
        BY <1>1 DEF Hooked, Previewing
  <2>2. CASE view \in {"waiting", "prejoin"} \/ (view = "call" /\ open)
    <3>1. hook' = Mounted /\ asking' = IF available THEN 1 ELSE 0
          BY <2>2 DEF Show, Mount
    <3> QED BY <1>3, <2>1, <2>2, <3>1 DEF Mounted
  <2>3. CASE ~(view \in {"waiting", "prejoin"} \/ (view = "call" /\ open))
    <3>1. hook' = Unmounted /\ asking' = 0
          BY <2>3 DEF Show, Mount
    <3> QED BY <1>3, <2>1, <2>3, <3>1 DEF Unmounted
  <2> QED BY <2>2, <2>3
<1>5. Typed'
      BY <1>1, <1>4, CleanedType, EmptySeq DEF Typed
<1>6. Agreed'
      BY <1>1, <1>4 DEF Agreed
<1>7. Asked' /\ StreamsOwned' /\ PreviewFollowsPrefs'
      BY <1>1, <1>2 DEF Asked, StreamsOwned, PreviewFollowsPrefs
<1> QED BY <1>5, <1>6, <1>7

\* What the page shows changes.
LEMMA TurnsKeepsInv ==
    ASSUME PreviewInv, Turns
    PROVE  PreviewInv'
<1>1. PICK view, open : Show(view, open)
      BY DEF Turns, Waits, Admitted, JoinNow, RecoverMedia, OpenSettings,
             CloseSettings, GoHome
<1> QED BY <1>1, ShowKeepsInv

\* What refreshes do before they apply a list, and devices and their events.
Background ==
    \/ RefreshMedia
    \/ ListDevices
    \/ ListRejected
    \/ \E d \in Removable : Replug(d)
    \/ OnDeviceChange

\* They leave the preview and the choices alone.
LEMMA BackgroundKeepsInv ==
    ASSUME PreviewInv, Background
    PROVE  PreviewInv'
<1> USE DEF PreviewInv
<1>1. UNCHANGED <<shows, panel, available, saved, hook, stream, held, wish>>
      BY DEF Background, RefreshMedia, ListDevices, ListRejected, Replug,
             OnDeviceChange, page, hooks, previews
<1>2. /\ plugged' \subseteq Device
      /\ asking' \in Nat /\ listing' \in Nat /\ lists' \in Seq(SUBSET Device)
      /\ ~Hooked \/ ~available => asking' = 0 /\ listing' = 0 /\ lists' = <<>>
  <2>0. /\ plugged \subseteq Device /\ asking \in Nat /\ listing \in Nat
        /\ lists \in Seq(SUBSET Device)
        /\ ~Hooked \/ ~available => asking = 0 /\ listing = 0 /\ lists = <<>>
        BY DEF Typed, Agreed
  <2>1. CASE RefreshMedia
        BY <2>0, <2>1 DEF RefreshMedia
  <2>2. CASE ListDevices
    <3>1. PICK visible \in {plugged, {}} : lists' = Append(lists, visible)
          BY <2>2 DEF ListDevices
    <3>2. lists' \in Seq(SUBSET Device)
          BY <2>0, <3>1
    <3> QED BY <2>0, <2>2, <3>2 DEF ListDevices
  <2>3. CASE ListRejected
        BY <2>0, <2>3 DEF ListRejected
  <2>4. ASSUME NEW d \in Removable, Replug(d)
        PROVE  /\ plugged' \subseteq Device
               /\ UNCHANGED <<asking, listing, lists>>
        BY <2>0, <2>4, SomeAreRemovable DEF Replug, hooks, refreshes
  <2>5. CASE OnDeviceChange
        BY <2>0, <2>5 DEF OnDeviceChange
  <2> QED BY <2>0, <2>1, <2>2, <2>3, <2>4, <2>5 DEF Background
<1>3. Hooked' = Hooked /\ Previewing' = Previewing
      BY <1>1 DEF Hooked, Previewing
<1>4. Typed'
      BY <1>1, <1>2 DEF Typed
<1>5. Agreed'
      BY <1>1, <1>2, <1>3 DEF Agreed
<1>6. Asked' /\ StreamsOwned' /\ PreviewFollowsPrefs'
      BY <1>1, <1>3 DEF Asked, StreamsOwned, PreviewFollowsPrefs
<1> QED BY <1>4, <1>5, <1>6

\* A step that changes nothing.
LEMMA StutterKeepsInv ==
    ASSUME PreviewInv, UNCHANGED vars
    PROVE  PreviewInv'
<1>1. UNCHANGED <<shows, panel, available, plugged, saved, hook, asking, listing,
                  lists, stream, held, wish>>
      BY DEF vars, page, hooks, refreshes, previews
<1>2. Hooked' = Hooked /\ Previewing' = Previewing
      BY <1>1 DEF Hooked, Previewing
<1>3. Typed' /\ Agreed'
      BY <1>1, <1>2 DEF PreviewInv, Typed, Agreed
<1>4. Asked' /\ StreamsOwned' /\ PreviewFollowsPrefs'
      BY <1>1, <1>2 DEF PreviewInv, Asked, StreamsOwned, PreviewFollowsPrefs
<1> QED BY <1>3, <1>4 DEF PreviewInv

\* Nothing is shown and nothing was chosen at first.
LEMMA InitPreviewInv == Init => PreviewInv
<1> SUFFICES ASSUME Init PROVE PreviewInv
    OBVIOUS
<1>1. DefaultPrefs \in Prefs /\ Unmounted \in Hook /\ Unused \in Requests
      BY DEF DefaultPrefs, Prefs, Unmounted, Hook, Unused, Nothing, Requests
<1>2. \A s \in Stream : stream[s].is = "none"
      BY DEF Init, Unused
<1>3. Typed
      BY <1>1, EmptySeq DEF Init, Typed
<1>4. ~Hooked
      BY DEF Init, Hooked, Previewing
<1>5. Agreed
      BY <1>4 DEF Init, Agreed, Unmounted
<1>6. Asked /\ StreamsOwned /\ PreviewFollowsPrefs
      BY <1>2 DEF Init, Asked, StreamsOwned, PreviewFollowsPrefs
<1> QED BY <1>3, <1>5, <1>6 DEF PreviewInv

----------------------------------------------------------------------------

\* The invariant is inductive for every set of devices and every number of
\* requests and refreshes under way (PreJoin.tsx's effect, useMediaDevices).
THEOREM PreviewInductive == Spec => []PreviewInv
<1>1. Init => PreviewInv
      BY InitPreviewInv
<1>2. PreviewInv /\ [Next]_vars => PreviewInv'
  <2> SUFFICES ASSUME PreviewInv, [Next]_vars PROVE PreviewInv'
      OBVIOUS
  <2>1. ASSUME NEW s \in Stream, Answers(s) PROVE PreviewInv'
        BY <2>1, AnswersKeepsInv
  <2>2. CASE User
        BY <2>2, UserKeepsInv
  <2>3. CASE Background
        BY <2>3, BackgroundKeepsInv
  <2>4. ASSUME NEW i \in DOMAIN lists, RefreshList(i) PROVE PreviewInv'
        BY <2>4, RefreshListKeepsInv
  <2>5. CASE Turns
        BY <2>5, TurnsKeepsInv
  <2>6. CASE UNCHANGED vars
        BY <2>6, StutterKeepsInv
  <2> QED BY <2>1, <2>2, <2>3, <2>4, <2>5, <2>6 DEF Next, Background
<1> QED BY <1>1, <1>2, PTL DEF Spec

\* No stream of a preview outlives the preview that asked for it, however late
\* getUserMedia answers (PreJoin.tsx's cancelled flag and cleanup), and none is of
\* what is switched off or not selected (the dependencies of its effect).
THEOREM OnlyTheChosenIsCaptured == Spec => []OnlyWhatIsChosen
<1>1. PreviewInv => OnlyWhatIsChosen
      BY DEF PreviewInv, OnlyWhatIsChosen
<1> QED BY <1>1, PreviewInductive, PTL

\* Choices outlive every remount and every refresh (loadMediaPrefs, saveMediaPrefs).
THEOREM ChoicesArePersistent == Spec => []ChoicesSurvive
<1>1. PreviewInv => ChoicesSurvive
      BY DEF PreviewInv, Agreed, ChoicesSurvive
<1> QED BY <1>1, PreviewInductive, PTL

----------------------------------------------------------------------------
(* An empty preview has a reason. *)

\* After the effect has run again there is a request, or nothing to ask for.
LEMMA RestartAsks ==
    ASSUME PreviewInv, NEW p \in Prefs, NEW ready, Restart(p, ready), ready, Wants(p)
    PROVE  \E s \in Stream : stream'[s].is = "asked"
<1>1. PICK s \in Stream :
          stream' = [Cleaned EXCEPT ![s] = [is |-> "asked", want |-> Constraint(p)]]
      BY DEF Restart
<1>2. stream'[s].is = "asked"
      BY <1>1, CleanedType DEF PreviewInv
<1> QED BY <1>2

\* A change of the hook's state that leaves a refresh to come, or is ready.
LEMMA SetStateKeepsOwned ==
    ASSUME PreviewInv, PreviewIsOwned, NEW p \in Prefs, NEW ready \in BOOLEAN,
           NEW listed \in SUBSET Device, SetState(p, ready, listed),
           shows' = shows, panel' = panel,
           available' = available, Hooked,
           ready \/ (~hook.ready /\ UNCHANGED refreshes)
    PROVE  PreviewIsOwned'
<1>1. /\ hook' = [prefs |-> p, ready |-> ready, listed |-> listed]
      /\ hook'.prefs = p /\ hook'.ready = ready
      BY DEF SetState
<1>2. Hooked' = Hooked /\ Previewing' = Previewing
      BY DEF Hooked, Previewing
<1>3. Hooked' /\ ~hook'.ready => UnderWay' > 0 \/ behind' \/ ~available'
      BY <1>1, <1>2 DEF PreviewIsOwned, UnderWay, refreshes
<1>4. ASSUME Previewing', hook'.ready, Wants(p)
      PROVE  held' # NoStream \/ refused' \/ \E s \in Stream : stream'[s].is = "asked"
  <2>1. CASE Restart(p, ready)
        BY <1>1, <1>4, <2>1, RestartAsks
  <2>2. CASE UNCHANGED previews /\ Deps(p, ready) = Deps(hook.prefs, hook.ready)
    <3>1. /\ ready = hook.ready /\ p.mic = hook.prefs.mic
          /\ p.camera = hook.prefs.camera
          BY <2>2 DEF Deps
    <3>2. Previewing /\ hook.ready /\ Wants(hook.prefs)
          BY <1>1, <1>2, <1>4, <3>1 DEF Wants
    <3> QED BY <2>2, <3>2 DEF PreviewIsOwned, previews
  <2> QED BY <1>2, <1>4, <2>1, <2>2 DEF SetState
<1> QED BY <1>1, <1>3, <1>4 DEF PreviewIsOwned

\* A step that leaves the hook, the preview and the page alone but for refreshes
\* that go on.
LEMMA OwnedFrame ==
    ASSUME PreviewIsOwned, UNCHANGED <<shows, panel, available, hook>>,
           UnderWay > 0 \/ behind => UnderWay' > 0 \/ behind',
           \/ UNCHANGED previews
           \/ held' # NoStream
           \/ refused'
           \/ \E s \in Stream : stream'[s].is = "asked"
    PROVE  PreviewIsOwned'
<1>1. Hooked' = Hooked /\ Previewing' = Previewing
      BY DEF Hooked, Previewing
<1> QED BY <1>1 DEF PreviewIsOwned, previews

LEMMA AnswersKeepOwned ==
    ASSUME PreviewInv, PreviewIsOwned, NEW s \in Stream, Answers(s)
    PROVE  PreviewIsOwned'
<1>1. /\ UNCHANGED <<shows, panel, available, hook, behind>>
      /\ UnderWay' = UnderWay
      BY DEF Answers, OnStream, OnRefused, page, hooks, refreshes, UnderWay
<1>2. Hooked' = Hooked /\ Previewing' = Previewing
      BY <1>1 DEF Hooked, Previewing
<1>3. CASE stream[s].is = "asked"
  <2>1. held' = s \/ refused'
        BY <1>3 DEF Answers, OnStream, OnRefused
  <2>2. held' # NoStream \/ refused'
        BY <2>1, NoneIsNone
  <2> QED BY <1>1, <1>2, <2>2 DEF PreviewIsOwned
<1>4. CASE stream[s].is # "asked"
  <2>1. /\ stream' = [stream EXCEPT ![s] = Unused]
        /\ held' = held /\ (refused => refused')
    <3>1. CASE OnStream(s)
          BY <1>4, <3>1 DEF OnStream
    <3>2. CASE OnRefused(s)
          BY <1>4, <3>2 DEF OnRefused
    <3> QED BY <3>1, <3>2 DEF Answers
  <2>2. \A t \in Stream : stream[t].is = "asked" => stream'[t].is = "asked"
        BY <1>4, <2>1 DEF PreviewInv, Typed
  <2> QED BY <1>1, <1>2, <2>1, <2>2 DEF PreviewIsOwned
<1> QED BY <1>3, <1>4

LEMMA UserKeepsOwned ==
    ASSUME PreviewInv, PreviewIsOwned, User
    PROVE  PreviewIsOwned'
<1>1. /\ hook.prefs \in Prefs /\ hook.ready \in BOOLEAN /\ hook.listed \in SUBSET Device
      BY DEF PreviewInv, Typed, Hook
<1>2. ASSUME NEW p \in Prefs, Hooked, Choose(p)
      PROVE  PreviewIsOwned'
  <2>1. /\ SetState(p, hook.ready, hook.listed)
        /\ UNCHANGED <<shows, panel, available, refreshes>>
        BY <1>2 DEF Choose, page
  <2> QED BY <1>1, <1>2, <2>1, SetStateKeepsOwned
<1>3. CASE ToggleMic
  <2>1. [hook.prefs EXCEPT !.mic = ~@] \in Prefs
        BY <1>1 DEF Prefs
  <2> QED BY <1>2, <1>3, <2>1 DEF ToggleMic
<1>4. CASE ToggleCamera
  <2>1. [hook.prefs EXCEPT !.camera = ~@] \in Prefs
        BY <1>1 DEF Prefs
  <2> QED BY <1>2, <1>4, <2>1 DEF ToggleCamera
<1>5. ASSUME NEW d \in Device, ChooseDevice(d)
      PROVE  PreviewIsOwned'
  <2>1. [hook.prefs EXCEPT !.device = d] \in Prefs
        BY <1>1 DEF Prefs
  <2> QED BY <1>2, <1>5, <2>1 DEF ChooseDevice
<1> QED BY <1>3, <1>4, <1>5 DEF User

LEMMA RefreshListKeepsOwned ==
    ASSUME PreviewInv, PreviewIsOwned, NEW i \in DOMAIN lists, RefreshList(i)
    PROVE  PreviewIsOwned'
<1>1. PICK d \in Fitting(hook.prefs.device, lists[i]) :
          SetState([hook.prefs EXCEPT !.device = d], TRUE, lists[i])
      BY DEF RefreshList
<1>2. hook.prefs \in Prefs /\ lists[i] \in SUBSET Device /\ lists # <<>>
      BY DEF PreviewInv, Typed, Hook
<1>3. d \in Device \cup {NoDevice}
      BY <1>1, <1>2 DEF Fitting, Prefs
<1>4. [hook.prefs EXCEPT !.device = d] \in Prefs
      BY <1>2, <1>3 DEF Prefs
<1>5. Hooked /\ UNCHANGED <<shows, panel, available>>
      BY <1>2 DEF RefreshList, PreviewInv, Agreed, page
<1> QED BY <1>1, <1>2, <1>4, <1>5, SetStateKeepsOwned

\* What is mounted begins with a refresh, and is not ready before it.
LEMMA ShowKeepsOwned ==
    ASSUME NEW view, NEW open, Show(view, open)
    PROVE  PreviewIsOwned'
<1>1. /\ shows' = view /\ panel' = open /\ available' = available
      /\ listing' = 0 /\ lists' = <<>>
      BY DEF Show
<1>2. Hooked' <=> view \in {"waiting", "prejoin"} \/ (view = "call" /\ open)
      BY <1>1 DEF Hooked, Previewing
<1>3. Hooked' => ~hook'.ready /\ asking' = IF available THEN 1 ELSE 0
      BY <1>2 DEF Show, Mount, Mounted
<1>4. Previewing' => Hooked'
      BY DEF Hooked
<1>5. Hooked' /\ available => UnderWay' > 0
      BY <1>1, <1>3, EmptySeq DEF UnderWay
<1> QED BY <1>1, <1>3, <1>4, <1>5 DEF PreviewIsOwned

LEMMA BackgroundKeepsOwned ==
    ASSUME PreviewInv, PreviewIsOwned, Background
    PROVE  PreviewIsOwned'
<1>1. UNCHANGED <<shows, panel, available, hook, previews>>
      BY DEF Background, RefreshMedia, ListDevices, ListRejected, Replug,
             OnDeviceChange, page, hooks
<1>2. asking \in Nat /\ listing \in Nat /\ lists \in Seq(SUBSET Device)
      BY DEF PreviewInv, Typed
<1>3. UnderWay > 0 \/ behind => UnderWay' > 0 \/ behind'
  <2>1. CASE RefreshMedia
        BY <1>2, <2>1 DEF RefreshMedia, UnderWay
  <2>2. CASE ListDevices
    <3>1. PICK visible : lists' = Append(lists, visible)
          BY <2>2 DEF ListDevices
    <3>2. Len(lists') = Len(lists) + 1
          BY <1>2, <3>1
    <3> QED BY <1>2, <2>2, <3>2 DEF ListDevices, UnderWay
  <2>3. CASE ListRejected
        BY <2>3 DEF ListRejected
  <2>4. CASE \E d \in Removable : Replug(d)
        BY <2>4 DEF Replug, hooks, refreshes, UnderWay
  <2>5. CASE OnDeviceChange
        BY <1>2, <2>5 DEF OnDeviceChange, UnderWay
  <2> QED BY <2>1, <2>2, <2>3, <2>4, <2>5 DEF Background
<1> QED BY <1>1, <1>3, OwnedFrame

\* Toggles, lists of devices and remounts never leave the preview of somebody who
\* wants one empty with nothing under way and nothing refused, but in a browser that
\* cannot list its devices (useMediaDevices.ts's early return, and its rejected
\* enumerateDevices): the safety half of PreviewAppears.
THEOREM EmptyPreviewIsOwned == Spec => []PreviewIsOwned
<1>1. Init => PreviewIsOwned
      BY DEF Init, PreviewIsOwned, Hooked, Previewing
<1>2. PreviewInv /\ PreviewIsOwned /\ [Next]_vars => PreviewIsOwned'
  <2> SUFFICES ASSUME PreviewInv, PreviewIsOwned, [Next]_vars PROVE PreviewIsOwned'
      OBVIOUS
  <2>1. CASE Turns
    <3>1. PICK view, open : Show(view, open)
          BY <2>1 DEF Turns, Waits, Admitted, JoinNow, RecoverMedia, OpenSettings,
                      CloseSettings, GoHome
    <3> QED BY <3>1, ShowKeepsOwned
  <2>2. CASE UNCHANGED vars
        BY <2>2 DEF vars, page, hooks, refreshes, previews, UnderWay, PreviewIsOwned,
                    Hooked, Previewing
  <2> QED BY <2>1, <2>2, AnswersKeepOwned, UserKeepsOwned, RefreshListKeepsOwned,
             BackgroundKeepsOwned DEF Next, Background
<1> QED BY <1>1, <1>2, PreviewInductive, PTL DEF Spec

\* The preview is what the user has chosen, and when it is not there it will be.
THEOREM ThePreviewIsRight == Spec => []PreviewIsRight
BY OnlyTheChosenIsCaptured, EmptyPreviewIsOwned, PTL DEF PreviewIsRight

----------------------------------------------------------------------------

\* A choice from the list shown keeps what is at rest current.
LEMMA ChoiceIsCurrent ==
    ASSUME PreviewInv, PageTyped, ListIsCurrent, NEW p \in Prefs, Hooked, Choose(p),
           p.device = hook.prefs.device \/ p.device \in hook.listed
    PROVE  PageTyped' /\ ListIsCurrent'
<1>1. /\ UNCHANGED <<shows, panel, available, plugged, changed>>
      /\ UNCHANGED <<asking, listing, lists, overtaken, behind>>
      /\ SetState(p, hook.ready, hook.listed)
      BY DEF Choose, page, refreshes
<1>2. /\ refused' \in BOOLEAN
      /\ hook'.prefs = p /\ hook'.ready = hook.ready /\ hook'.listed = hook.listed
      BY <1>1 DEF SetState, Restart, previews, PageTyped
<1>3. UnderWay' = UnderWay /\ Hooked' = Hooked
      BY <1>1 DEF UnderWay, Hooked, Previewing
<1>4. PageTyped'
      BY <1>1, <1>2, <1>3 DEF PageTyped
<1> QED BY <1>1, <1>2, <1>3, <1>4 DEF ListIsCurrent

LEMMA UserIsCurrent ==
    ASSUME PreviewInv, PageTyped, ListIsCurrent, User
    PROVE  PageTyped' /\ ListIsCurrent'
<1>1. hook.prefs \in Prefs /\ hook.listed \subseteq Device
      BY DEF PreviewInv, Typed, Hook
<1>2. CASE ToggleMic
  <2>1. LET p == [hook.prefs EXCEPT !.mic = ~@]
        IN  p \in Prefs /\ p.device = hook.prefs.device
        BY <1>1 DEF Prefs
  <2> QED BY <1>2, <2>1, ChoiceIsCurrent DEF ToggleMic
<1>3. CASE ToggleCamera
  <2>1. LET p == [hook.prefs EXCEPT !.camera = ~@]
        IN  p \in Prefs /\ p.device = hook.prefs.device
        BY <1>1 DEF Prefs
  <2> QED BY <1>3, <2>1, ChoiceIsCurrent DEF ToggleCamera
<1>4. ASSUME NEW d \in Device, ChooseDevice(d)
      PROVE  PageTyped' /\ ListIsCurrent'
  <2>1. LET p == [hook.prefs EXCEPT !.device = d]
        IN  p \in Prefs /\ p.device = d
        BY <1>1 DEF Prefs
  <2> QED BY <1>4, <2>1, ChoiceIsCurrent DEF ChooseDevice
<1> QED BY <1>2, <1>3, <1>4 DEF User

\* A list that is applied is current if it was the last to be taken, and otherwise the
\* last is still to come, or has been applied before and leaves it behind.
LEMMA AppliedIsCurrent ==
    ASSUME PreviewInv, PageTyped, ListIsCurrent, NEW i \in DOMAIN lists, RefreshList(i)
    PROVE  PageTyped' /\ ListIsCurrent'
<1>1. /\ UNCHANGED <<shows, panel, available, plugged, changed, asking, listing>>
      /\ lists' = RemoveAt(lists, i)
      /\ overtaken' = IF i > overtaken THEN i - 1 ELSE overtaken - 1
      /\ behind' = (i <= overtaken)
      BY DEF RefreshList, page
<1>2. /\ lists \in Seq(SUBSET Device) /\ Len(lists) \in Nat /\ i \in 1..Len(lists)
      /\ overtaken \in 0..Len(lists) /\ asking \in Nat /\ listing \in Nat
      BY DEF PreviewInv, Typed, PageTyped
<1>3. /\ Len(lists') = Len(lists) - 1
      /\ i < Len(lists) => lists'[Len(lists')] = lists[Len(lists)]
      BY <1>1, <1>2, RemoveProperties
<1>4. PICK d \in Fitting(hook.prefs.device, lists[i]) :
          SetState([hook.prefs EXCEPT !.device = d], TRUE, lists[i])
      BY DEF RefreshList
<1>5. lists[i] \in SUBSET Device /\ hook.prefs \in Prefs
      BY <1>2 DEF PreviewInv, Typed, Hook
<1>6. d \in lists[i] \cup {NoDevice}
      BY DEF Fitting
<1>7. LET p == [hook.prefs EXCEPT !.device = d]
      IN  p \in Prefs /\ p.device = d
      BY <1>5, <1>6 DEF Prefs
<1>8. /\ refused' \in BOOLEAN
      /\ hook'.prefs.device = d /\ hook'.listed = lists[i]
      BY <1>4, <1>7 DEF SetState, Restart, previews, PageTyped
<1>9. UnderWay' <= MaxRefresh
      BY <1>1, <1>2, <1>3, RefreshBound DEF UnderWay, PageTyped
<1>10. overtaken' \in 0..Len(lists') /\ behind' \in BOOLEAN
      BY <1>1, <1>2, <1>3
<1>11. PageTyped'
      BY <1>1, <1>8, <1>9, <1>10 DEF PageTyped
<1>12. ListIsCurrent'
  <2> SUFFICES ASSUME Hooked, ~changed, asking = 0, listing = 0
               PROVE  /\ Len(lists') > overtaken' => lists'[Len(lists')] \subseteq plugged
                      /\ Len(lists') = overtaken' /\ ~behind' =>
                          d \in plugged \cup {NoDevice} /\ lists[i] \subseteq plugged
      BY <1>1, <1>8 DEF ListIsCurrent, Hooked, Previewing
  <2>1. Len(lists) > overtaken => lists[Len(lists)] \subseteq plugged
        BY DEF ListIsCurrent
  <2>2. CASE i > overtaken
    <3>1. overtaken' = i - 1 /\ lists[Len(lists)] \subseteq plugged
          BY <1>1, <1>2, <2>1, <2>2
    <3>2. CASE i < Len(lists)
          BY <1>2, <1>3, <3>1, <3>2
    <3>3. CASE i = Len(lists)
          BY <1>2, <1>3, <1>6, <3>1, <3>3
    <3> QED BY <1>2, <3>2, <3>3
  <2>3. CASE i <= overtaken
    <3>0. (i <= overtaken) = TRUE
          BY <2>3
    <3>1. overtaken' = overtaken - 1
          BY <1>1, <1>2, <2>3
    <3>2. Len(lists') > overtaken' => Len(lists) > overtaken /\ i < Len(lists)
          BY <1>2, <1>3, <2>3, <3>1
    <3>3. behind' = TRUE
          BY <1>1, <3>0
    <3> QED BY <1>3, <2>1, <3>2, <3>3
  <2> QED BY <1>2, <2>2, <2>3
<1> QED BY <1>11, <1>12

\* The last list to be taken is that of the computer unless it changes afterwards.
LEMMA BackgroundIsCurrent ==
    ASSUME PreviewInv, PageTyped, ListIsCurrent, Background
    PROVE  PageTyped' /\ ListIsCurrent'
<1>1. /\ asking \in Nat /\ listing \in Nat /\ lists \in Seq(SUBSET Device)
      /\ Len(lists) \in Nat /\ overtaken \in 0..Len(lists)
      /\ UnderWay <= MaxRefresh /\ MaxRefresh \in Nat
      BY RefreshBound DEF PreviewInv, Typed, PageTyped
<1>2. UNCHANGED <<shows, panel, available, hook, refused>> /\ Hooked' = Hooked
      BY DEF Background, RefreshMedia, ListDevices, ListRejected, Replug,
             OnDeviceChange, page, hooks, previews, Hooked, Previewing
<1>3. CASE RefreshMedia
  <2>1. /\ listing' = listing + 1 /\ asking' = asking - 1 /\ asking > 0
        /\ UNCHANGED <<plugged, changed, lists, overtaken, behind>>
        BY <1>3 DEF RefreshMedia
  <2>2. listing' # 0 /\ UnderWay' <= MaxRefresh
        BY <1>1, <2>1 DEF UnderWay
  <2> QED BY <1>2, <2>1, <2>2 DEF PageTyped, ListIsCurrent
<1>4. CASE ListDevices
  <2>1. /\ listing' = listing - 1 /\ listing > 0
        /\ UNCHANGED <<plugged, changed, asking, overtaken, behind>>
        BY <1>4 DEF ListDevices
  <2>2. PICK visible \in {plugged, {}} : lists' = Append(lists, visible)
        BY <1>4 DEF ListDevices
  <2>3. Len(lists') = Len(lists) + 1 /\ lists'[Len(lists')] = visible
        BY <1>1, <2>2
  <2>4. visible \subseteq plugged
        BY <2>2
  <2>5. /\ UnderWay' <= MaxRefresh /\ overtaken' \in 0..Len(lists')
        /\ Len(lists') # overtaken'
        BY <1>1, <2>1, <2>3 DEF UnderWay
  <2> QED BY <1>2, <2>1, <2>3, <2>4, <2>5 DEF PageTyped, ListIsCurrent
<1>5. CASE ListRejected
  <2>1. /\ listing' = listing - 1 /\ listing > 0
        /\ overtaken' = Len(lists) /\ behind' = TRUE
        /\ UNCHANGED <<plugged, changed, asking, lists>>
        BY <1>5 DEF ListRejected
  <2>2. UnderWay' <= MaxRefresh /\ overtaken' \in 0..Len(lists') /\ behind' \in BOOLEAN
        BY <1>1, <2>1 DEF UnderWay
  <2>3. ~(Len(lists') > overtaken')
        BY <1>1, <2>1
  <2> QED BY <1>2, <2>1, <2>2, <2>3 DEF PageTyped, ListIsCurrent
<1>6. ASSUME NEW d \in Removable, Replug(d)
      PROVE  PageTyped' /\ ListIsCurrent'
  <2>1. changed' = TRUE /\ UNCHANGED <<asking, listing, lists, overtaken, behind>>
        BY <1>6 DEF Replug, hooks, refreshes
  <2>2. UnderWay' = UnderWay
        BY <2>1 DEF UnderWay
  <2> QED BY <1>2, <2>1, <2>2 DEF PageTyped, ListIsCurrent
<1>7. CASE OnDeviceChange
  <2>0. changed' = FALSE /\ UNCHANGED <<plugged, listing, lists, overtaken, behind>>
        BY <1>7 DEF OnDeviceChange
  <2>1. CASE Hooked /\ available
    <3>1. asking' = asking + 1 /\ UnderWay < MaxRefresh
          BY <1>7, <2>1 DEF OnDeviceChange
    <3>2. asking' # 0 /\ UnderWay' <= MaxRefresh
          BY <1>1, <2>0, <3>1 DEF UnderWay
    <3> QED BY <1>2, <2>0, <3>2 DEF PageTyped, ListIsCurrent
  <2>2. CASE ~(Hooked /\ available)
    <3>1. asking' = asking /\ lists = <<>> /\ (available \/ ~hook.ready)
          BY <1>7, <2>2 DEF OnDeviceChange, PreviewInv, Agreed
    <3>2. UnderWay' = UnderWay /\ Len(lists') = 0
          BY <2>0, <3>1, EmptySeq DEF UnderWay
    <3>3. ~(Len(lists') > overtaken')
          BY <1>1, <2>0, <3>1, <3>2
    <3> QED BY <1>2, <2>0, <2>2, <3>1, <3>2, <3>3 DEF PageTyped, ListIsCurrent
  <2> QED BY <2>1, <2>2
<1> QED BY <1>3, <1>4, <1>5, <1>6, <1>7 DEF Background

LEMMA AnswersAreCurrent ==
    ASSUME PageTyped, ListIsCurrent, NEW s \in Stream, Answers(s)
    PROVE  PageTyped' /\ ListIsCurrent'
<1>1. /\ UNCHANGED <<shows, panel, available, plugged, changed, hook>>
      /\ UNCHANGED <<asking, listing, lists, overtaken, behind>>
      BY DEF Answers, OnStream, OnRefused, page, hooks, refreshes
<1>2. refused' \in BOOLEAN
      BY DEF Answers, OnStream, OnRefused, PageTyped
<1>3. UnderWay' = UnderWay /\ Hooked' = Hooked
      BY <1>1 DEF UnderWay, Hooked, Previewing
<1> QED BY <1>1, <1>2, <1>3 DEF PageTyped, ListIsCurrent

LEMMA TurnsAreCurrent ==
    ASSUME PageTyped, ListIsCurrent, Turns
    PROVE  PageTyped' /\ ListIsCurrent'
<1>1. ASSUME NEW view \in {"away", "waiting", "prejoin", "call"},
             NEW open \in BOOLEAN, Show(view, open)
      PROVE  PageTyped' /\ ListIsCurrent'
  <2>1. /\ shows' = view /\ panel' = open /\ changed' = changed /\ refused' = FALSE
        /\ available' = available /\ overtaken' = 0 /\ behind' = FALSE
        /\ (asking' = 0 \/ asking' = 1) /\ listing' = 0 /\ lists' = <<>>
        BY <1>1 DEF Show, Mount
  <2>2. /\ Len(lists') = 0 /\ UnderWay' <= MaxRefresh
        /\ overtaken' \in 0..Len(lists') /\ ~(Len(lists') > overtaken')
        BY <2>1, RefreshBound, EmptySeq DEF UnderWay
  <2>3. hook' \in {Mounted, Unmounted}
        BY <1>1 DEF Show, Mount
  <2>4. ~hook'.ready
        BY <2>3 DEF Mounted, Unmounted
  <2> QED BY <2>1, <2>2, <2>4 DEF PageTyped, ListIsCurrent
<1>2. \/ Show("waiting", panel)
      \/ Show("prejoin", panel)
      \/ Show("call", panel)
      \/ Show("call", TRUE)
      \/ Show("call", FALSE)
      \/ Show("away", FALSE)
      BY DEF Turns, Waits, Admitted, JoinNow, RecoverMedia, OpenSettings,
         CloseSettings, GoHome
<1>3. panel \in BOOLEAN
      BY DEF PageTyped
<1> QED BY <1>1, <1>2, <1>3

LEMMA RestInductive == Spec => [](PageTyped /\ ListIsCurrent)
<1>1. Init => PageTyped /\ ListIsCurrent
  <2> SUFFICES ASSUME Init PROVE PageTyped /\ ListIsCurrent
      OBVIOUS
  <2>1. /\ Len(lists) = 0 /\ UnderWay <= MaxRefresh
        /\ overtaken \in 0..Len(lists)
        BY RefreshBound, EmptySeq DEF Init, UnderWay
  <2>2. PageTyped
        BY <2>1 DEF Init, PageTyped
  <2>3. ~Hooked
        BY DEF Init, Hooked, Previewing
  <2> QED BY <2>2, <2>3 DEF ListIsCurrent
<1>2. PageTyped /\ ListIsCurrent /\ UNCHANGED vars => PageTyped' /\ ListIsCurrent'
      BY DEF vars, page, hooks, refreshes, previews, UnderWay, PageTyped, ListIsCurrent,
             Hooked, Previewing
<1>3. PreviewInv /\ PageTyped /\ ListIsCurrent /\ [Next]_vars
          => PageTyped' /\ ListIsCurrent'
      BY <1>2, AnswersAreCurrent, UserIsCurrent, AppliedIsCurrent, BackgroundIsCurrent,
         TurnsAreCurrent DEF Next, Background
<1> QED BY <1>1, <1>3, PreviewInductive, PTL DEF Spec

\* Every variable of the page, the hook and the preview keeps its type.
THEOREM PreviewTypeCorrect == Spec => []TypeOK
<1>1. PreviewInv /\ PageTyped => TypeOK
      BY DEF PreviewInv, Typed, PageTyped, TypeOK, Hook, Requests
<1> QED BY <1>1, PreviewInductive, RestInductive, PTL

\* Whatever was plugged in or pulled out and however refreshes overlapped, the
\* device selected at rest exists unless an older list was applied last or the last
\* one failed (useMediaDevices.ts's refresh on devicechange, which tells no refresh
\* from another).
THEOREM TheChosenExists == Spec => []ChosenDeviceExists
<1>1. PreviewInv /\ PageTyped /\ ListIsCurrent => ChosenDeviceExists
  <2> SUFFICES ASSUME PreviewInv, PageTyped, ListIsCurrent, Hooked, hook.ready,
                      ~changed, UnderWay = 0, ~behind
               PROVE  hook.prefs.device \in plugged \cup {NoDevice}
      BY DEF ChosenDeviceExists
  <2>1. /\ asking \in Nat /\ listing \in Nat /\ Len(lists) \in Nat
        /\ overtaken \in 0..Len(lists)
        BY DEF PreviewInv, Typed, PageTyped
  <2>2. asking = 0 /\ listing = 0 /\ Len(lists) = overtaken
        BY <2>1 DEF UnderWay
  <2> QED BY <2>2 DEF ListIsCurrent
<1> QED BY <1>1, PreviewInductive, RestInductive, PTL
=============================================================================
