----------------------------- MODULE Admission -----------------------------
(***************************************************************************)
(* How a guest's page follows the guest's place in a meeting: MeetingPage   *)
(* (frontend/src/pages/MeetingPage.tsx) over its socket                     *)
(* (hooks/useMeetingSocket.ts), composed with the handlers of api.go and    *)
(* with the hub.  The page learns its place from the answers to its joins   *)
(* and from events; both travel on their own, and the socket comes and goes.*)
(*                                                                          *)
(* Here a handler is its Update and, as an item of `todo`, each step it     *)
(* still has to take; MeetingApi has the handlers in full, Hub the hub.     *)
(* Abstractions: one meeting, one page per guest; the host stays inside     *)
(* until it ends the meeting, so that no leave destroys it and the capacity *)
(* is not reached; of a snapshot only the guest's own place matters (lists  *)
(* and chat are left out); a page that was not told of its admission        *)
(* although it believed to be connected is put in `missed`, which no code   *)
(* reads.                                                                   *)
(***************************************************************************)
EXTENDS Integers, Sequences, FiniteSets

CONSTANTS
    Guest,      \* users other than the host
    Host,       \* the creator of the meeting
    Call,       \* bound: joins of one page that may be under way at once
    BufSize,    \* capacity of Client.send
    Overflows,  \* whether events about others may fill a channel
    MaxTodo     \* bound: handlers between their Update and their last step

ASSUME HostIsNoGuest == Host \notin Guest
ASSUME HostIsSomebody == Host # "nobody"
ASSUME GuestsAreFinite == IsFiniteSet(Guest)
ASSUME OverflowsOrNot == Overflows \in BOOLEAN
ASSUME BoundsAreNatural == {BufSize, MaxTodo} \subseteq Nat

VARIABLES
    meeting,    \* whether the store holds the meeting
    place,      \* place[g]: which of the meeting's maps holds g
    todo,       \* the steps handlers still have to take after their Update
    page,       \* page[g]: the state of g's MeetingPage
    call,       \* call[g][c]: a POST join of g's page
    leave,      \* leave[g]: the POST leave of g's page
    sock,       \* sock[g]: how far the server is with g's socket
    open,       \* open[g]: g's page has status "open"
    wire,       \* wire[g]: events on their way to g's page, in order
    missed      \* history: guests whose open page was not sent its admission

server  == <<meeting, place>>
network == <<sock, open, wire>>
vars == <<server, todo, page, call, leave, network, missed>>

Notice == [type : {"admitted", "rejected", "removed"}, to : Guest]
Ended  == [type |-> "ended", to |-> Host]
Event  == Notice \cup {Ended}

\* A handler about to Broadcast, or the one of end about to Delete.
Deletion == [type |-> "delete", to |-> Host]
Todo     == Event \cup {Deletion}

Page == [at : {"home", "meeting"}, status : {"none", "waiting", "admitted"},
         error : BOOLEAN]

Home == [at |-> "home", status |-> "none", error |-> FALSE]

\* "orphan": sent by a page that is gone, so its answer goes nowhere.
CallState  == {"idle", "sent", "orphan", "waiting", "admitted", "refused"}
LeaveState == {"no", "sent", "orphan"}
SockState  == {"none", "upgraded", "registered"}

----------------------------------------------------------------------------

Init ==
    /\ meeting = "none"
    /\ place = [g \in Guest |-> "outside"]
    /\ todo = {}
    /\ page = [g \in Guest |-> Home]
    /\ call = [g \in Guest |-> [c \in Call |-> "idle"]]
    /\ leave = [g \in Guest |-> "no"]
    /\ sock = [g \in Guest |-> "none"]
    /\ open = [g \in Guest |-> FALSE]
    /\ wire = [g \in Guest |-> <<>>]
    /\ missed = {}

(* The host, through the API. *)

Create ==
    /\ meeting = "none"
    /\ meeting' = "live"
    /\ UNCHANGED <<place, todo, page, call, leave, network, missed>>

\* A handler that has taken its Update has these steps left.  The guard bounds
\* the model: two handlers with the very same step left count as one.
Begins(steps) ==
    /\ todo' = todo \cup steps
    /\ Cardinality(todo') <= MaxTodo

Decide(g, type, to) ==
    /\ meeting = "live"
    /\ [type |-> type, to |-> g] \notin todo
    /\ Begins({[type |-> type, to |-> g]})
    /\ place' = [place EXCEPT ![g] = to]
    /\ UNCHANGED <<meeting, page, call, leave, network, missed>>

\* Mutant: the check for a waiting participant is dropped.
AdmitAnyone(g) == Decide(g, "admitted", "inside")

Admit(g)  == place[g] = "waiting" /\ Decide(g, "admitted", "inside")

Reject(g) == place[g] = "waiting" /\ Decide(g, "rejected", "outside")

\* remove takes its user out of the participants only.
Remove(g) ==
    Decide(g, "removed", IF place[g] = "inside" THEN "outside" ELSE place[g])

End ==
    /\ meeting = "live"
    /\ Begins({Ended})
    /\ UNCHANGED <<server, page, call, leave, network, missed>>

(* Broadcast and Delete, after the lock. *)

\* Mutant: the channel has no capacity.
FitsAlways(g) == sock[g] = "registered"

Fits(g) == sock[g] = "registered" /\ Len(wire[g]) < BufSize

Concerns(e, g) == e.to \in {g, Host}

\* An event reaches the registered connections it concerns whose channel is not
\* full: of events about their guest, which are modelled, or of others.
Broadcast(e) ==
    LET fitting == {g \in Guest : Fits(g) /\ Concerns(e, g)} IN
    \E reached \in IF Overflows THEN SUBSET fitting ELSE {fitting} :
        /\ wire' = [g \in Guest |->
                IF g \in reached THEN Append(wire[g], e) ELSE wire[g]]
        /\ missed' = missed \cup
                {g \in Guest \ reached : /\ e = [type |-> "admitted", to |-> g]
                                        /\ open[g] /\ sock[g] # "none"}

Tell(n) ==
    /\ n \in todo
    /\ Broadcast(n)
    /\ todo' = todo \ {n}
    /\ UNCHANGED <<server, page, call, leave, sock, open>>

Farewell ==
    /\ Ended \in todo
    /\ Broadcast(Ended)
    /\ todo' = (todo \ {Ended}) \cup {Deletion}
    /\ UNCHANGED <<server, page, call, leave, sock, open>>

Delete ==
    /\ Deletion \in todo
    /\ todo' = todo \ {Deletion}
    /\ meeting' = "gone"
    /\ place' = [g \in Guest |-> "outside"]
    /\ UNCHANGED <<page, call, leave, network, missed>>

----------------------------------------------------------------------------
(* The page and its joins. *)

Idle(g) == {c \in Call : call[g][c] = "idle"}

\* api.join is called; which idle name it goes by makes no difference.
Ask(g) ==
    /\ Idle(g) # {}
    /\ call' = [call EXCEPT ![g][CHOOSE c \in Idle(g) : TRUE] = "sent"]

\* refreshJoin, when the page is opened.
Visit(g) ==
    /\ meeting # "none"
    /\ page[g].at = "home"
    /\ page' = [page EXCEPT ![g].at = "meeting"]
    /\ Ask(g)
    /\ UNCHANGED <<server, todo, leave, network, missed>>

\* join at the server; the media token of a participant may fail.
Join(g, c) ==
    /\ call[g][c] \in {"sent", "orphan"}
    /\ place' = [place EXCEPT ![g] =
            IF meeting = "live" /\ @ = "outside" THEN "waiting" ELSE @]
    /\ \E answer \in CASE meeting # "live"      -> {"refused"}
                       [] place[g] = "inside"   -> {"admitted", "refused"}
                       [] OTHER                 -> {"waiting"} :
            call' = [call EXCEPT ![g][c] = IF @ = "sent" THEN answer ELSE "idle"]
    /\ UNCHANGED <<meeting, todo, page, leave, network, missed>>

\* Mutant: a page that falls back to waiting does not ask again.
AgainNever(g, status) == "idle"

\* The reconcile effect runs when wsStatus or join.status has changed and they
\* are "open" and "waiting": here after an answer changed the latter.
Again(g, status) ==
    IF status = "waiting" /\ page[g].status # "waiting" /\ open[g]
    THEN "sent" ELSE "idle"

Answer(g, c) ==
    /\ call[g][c] \in {"waiting", "admitted"}
    /\ page' = [page EXCEPT ![g].status = call[g][c]]
    /\ call' = [call EXCEPT ![g][c] = Again(g, call[g][c])]
    /\ UNCHANGED <<server, todo, leave, network, missed>>

\* setError: the page shows nothing else from now on, but its socket lives on.
Refusal(g, c) ==
    /\ call[g][c] = "refused"
    /\ page' = [page EXCEPT ![g].error = TRUE]
    /\ call' = [call EXCEPT ![g][c] = "idle"]
    /\ UNCHANGED <<server, todo, leave, network, missed>>

\* The page is unmounted: its socket is closed and its answers are ignored, but
\* requests it has sent are still handled.
Unmount(g) ==
    /\ page' = [page EXCEPT ![g] = Home]
    /\ call' = [call EXCEPT ![g] = [c \in Call |->
            IF call[g][c] \in {"sent", "orphan"} THEN "orphan" ELSE "idle"]]
    /\ sock' = [sock EXCEPT ![g] = "none"]
    /\ open' = [open EXCEPT ![g] = FALSE]
    /\ wire' = [wire EXCEPT ![g] = <<>>]
    /\ missed' = missed \ {g}

GoHome(g) ==
    /\ Unmount(g)
    /\ leave' = [leave EXCEPT ![g] = IF @ = "no" THEN @ ELSE "orphan"]

\* The tab is closed or reloaded, or the error page's button is used.
CloseTab(g) ==
    /\ page[g].at = "meeting"
    /\ GoHome(g)
    /\ UNCHANGED <<server, todo>>

ClickLeave(g) ==
    /\ page[g].status # "none"
    /\ ~page[g].error
    /\ leave[g] = "no"
    /\ leave' = [leave EXCEPT ![g] = "sent"]
    /\ UNCHANGED <<server, todo, page, call, network, missed>>

\* leave at the server, whatever g was, and its answer, which sends a page that
\* is still there home.
Leave(g) ==
    /\ leave[g] # "no"
    /\ place' = [place EXCEPT ![g] = "outside"]
    /\ IF leave[g] = "sent"
       THEN Unmount(g)
       ELSE UNCHANGED <<page, call, network, missed>>
    /\ leave' = [leave EXCEPT ![g] = "no"]
    /\ UNCHANGED <<meeting, todo>>

----------------------------------------------------------------------------
(* The socket. *)

\* useMeetingSocket is given the meeting once a join was answered, and dials
\* again, after a delay, whenever it has no socket.  ServeHTTP lets members pass
\* to the upgrade; 404 and 403 leave the page without a socket, to dial again.
Dial(g) ==
    /\ page[g].status # "none"
    /\ sock[g] = "none"
    /\ ~open[g]
    /\ meeting = "live"
    /\ place[g] # "outside"
    /\ sock' = [sock EXCEPT ![g] = "upgraded"]
    /\ UNCHANGED <<server, todo, page, call, leave, open, wire, missed>>

Register(g) ==
    /\ sock[g] = "upgraded"
    /\ sock' = [sock EXCEPT ![g] = "registered"]
    /\ UNCHANGED <<server, todo, page, call, leave, open, wire, missed>>

\* Mutant: no reconcile effect.
OnOpenQuiet(g) ==
    /\ sock[g] \in {"upgraded", "registered"}
    /\ ~open[g]
    /\ open' = [open EXCEPT ![g] = TRUE]
    /\ UNCHANGED <<server, todo, page, call, leave, sock, wire, missed>>

\* onopen, and the reconcile effect if the page is waiting.
OnOpen(g) ==
    /\ sock[g] \in {"upgraded", "registered"}
    /\ ~open[g]
    /\ open' = [open EXCEPT ![g] = TRUE]
    /\ IF page[g].status = "waiting"
       THEN Ask(g)
       ELSE UNCHANGED call
    /\ UNCHANGED <<server, todo, page, leave, sock, wire, missed>>

Arriving(g) == Head(wire[g])

\* onSocket, on an event that concerns g (others only refresh its lists).
OnEnded(g) ==
    /\ Arriving(g) = Ended \/ Arriving(g) = [type |-> "removed", to |-> g]
    /\ GoHome(g)

OnAdmitted(g) ==
    /\ Arriving(g) = [type |-> "admitted", to |-> g]
    /\ Ask(g)
    /\ wire' = [wire EXCEPT ![g] = Tail(@)]
    /\ UNCHANGED <<page, leave, sock, open, missed>>

OnRejected(g) ==
    /\ Arriving(g) = [type |-> "rejected", to |-> g]
    /\ page' = [page EXCEPT ![g].error = TRUE]
    /\ wire' = [wire EXCEPT ![g] = Tail(@)]
    /\ UNCHANGED <<call, leave, sock, open, missed>>

OnSocket(g) ==
    /\ open[g]
    /\ wire[g] # <<>>
    /\ OnEnded(g) \/ OnAdmitted(g) \/ OnRejected(g)
    /\ UNCHANGED <<server, todo>>

\* The connection is lost, with what is on it; the page notices later.
Drop(g) ==
    /\ sock[g] # "none"
    /\ sock' = [sock EXCEPT ![g] = "none"]
    /\ wire' = [wire EXCEPT ![g] = <<>>]
    /\ UNCHANGED <<server, todo, page, call, leave, open, missed>>

\* onclose: status "reconnecting", and a timer for the next Dial.
OnClose(g) ==
    /\ open[g]
    /\ sock[g] = "none"
    /\ open' = [open EXCEPT ![g] = FALSE]
    /\ UNCHANGED <<server, todo, page, call, leave, sock, wire, missed>>

----------------------------------------------------------------------------

\* What the server does once asked.
Serve ==
    \/ \E n \in Notice : Tell(n)
    \/ Farewell
    \/ Delete

\* What the page, the server and the network between them do for one guest
\* without being asked again.
Follow(g) ==
    \/ \E c \in Call :
        \/ Join(g, c)
        \/ Answer(g, c)
        \/ Refusal(g, c)
    \/ Leave(g)
    \/ Dial(g)
    \/ Register(g)
    \/ OnOpen(g)
    \/ OnSocket(g)
    \/ OnClose(g)

Next ==
    \/ Create
    \/ End
    \/ Serve
    \/ \E g \in Guest :
        \/ Admit(g)
        \/ Reject(g)
        \/ Remove(g)
        \/ Visit(g)
        \/ CloseTab(g)
        \/ ClickLeave(g)
        \/ Drop(g)
        \/ Follow(g)

Spec == Init /\ [][Next]_vars

\* Handlers go on, requests and answers arrive, the socket hook redials while it
\* has no socket, a page that gets connections again and again opens one of
\* them, and callbacks run; a page notices in the end that its connection is
\* gone.  People need not do anything.
FairSpec ==
    /\ Spec
    /\ WF_vars(Serve)
    /\ \A g \in Guest :
        /\ \A c \in Call : WF_vars(Join(g, c) \/ Answer(g, c) \/ Refusal(g, c))
        /\ WF_vars(Leave(g))
        /\ WF_vars(Dial(g) \/ Register(g) \/ OnSocket(g) \/ OnClose(g))
        /\ SF_vars(OnOpen(g))

----------------------------------------------------------------------------

\* Type invariant of the server, the pages and the network between them.
TypeOK ==
    /\ meeting \in {"none", "live", "gone"}
    /\ place \in [Guest -> {"outside", "waiting", "inside"}]
    /\ todo \in SUBSET Todo
    /\ page \in [Guest -> Page]
    /\ call \in [Guest -> [Call -> CallState]]
    /\ leave \in [Guest -> LeaveState]
    /\ sock \in [Guest -> SockState]
    /\ open \in [Guest -> BOOLEAN]
    /\ wire \in [Guest -> Seq(Event)]
    /\ \A g \in Guest : Len(wire[g]) <= BufSize
    /\ missed \in SUBSET Guest

\* The page shows the meeting (or its waiting room), not an error.
Shows(g, status) ==
    page[g].at = "meeting" /\ page[g].status = status /\ ~page[g].error

\* A join is under way whose answer this page will see.
Asking(g) ==
    \E c \in Call : call[g][c] \in {"sent", "waiting", "admitted", "refused"}

\* n will be broadcast, or is on its way to the page of g.
Coming(g, n) ==
    \/ n \in todo
    \/ \E i \in DOMAIN wire[g] : wire[g][i] = n

\* A page that shows the waiting room to a guest who is inside is about to find
\* out: it is asking, the notice is coming, or it has no open socket and asks
\* when the next one opens.  The only notices it can miss for good are those
\* sent between its onopen and the server's register, or to a full channel.
WaitingPageCatchesUp ==
    \A g \in Guest :
        /\ Shows(g, "waiting")
        /\ place[g] = "inside"
        /\ g \notin missed
        => \/ Asking(g)
           \/ Coming(g, [type |-> "admitted", to |-> g])
           \/ ~open[g] \/ sock[g] = "none"

\* The server's half, with the host as the owner, keeps the admission contract
\* however late a page's requests arrive.
Contract == INSTANCE Lobby WITH
    User     <- Guest \cup {Host},
    Id       <- {"meeting"},
    Capacity <- Cardinality(Guest) + 1,
    NoUser   <- "nobody",
    owner    <- [id \in {"meeting"} |-> IF meeting = "live" THEN Host ELSE "nobody"],
    place    <- [id \in {"meeting"} |-> [u \in Guest \cup {Host} |->
                    IF u = Host THEN "outside" ELSE place[u]]],
    used     <- IF meeting = "none" THEN {} ELSE {"meeting"}

ImplementsLobby == Contract!Spec

\* An admitted guest whose page still waits is let in by its page, whatever
\* connections were lost, unless a notice fell in the gap or on a full channel.
AdmissionIsShown ==
    \A g \in Guest :
        (Shows(g, "waiting") /\ place[g] = "inside")
            ~> (\/ ~Shows(g, "waiting")
                \/ place[g] # "inside"
                \/ g \in missed)

----------------------------------------------------------------------------
(* What a comment of the source says and the page does not do.              *)

\* MeetingPage.tsx: "Reconcile waiting-room state once the socket is ready.
\* Admission can happen between the initial join response and WebSocket
\* registration."  The page reconciles at onopen, which the upgrade causes
\* before register: admitted in between, its guest waits for ever.
AdmissionReachesThePage ==
    \A g \in Guest :
        (Shows(g, "waiting") /\ place[g] = "inside")
            ~> (~Shows(g, "waiting") \/ place[g] # "inside")
=============================================================================
