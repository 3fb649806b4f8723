------------------------------ MODULE ChatSync ------------------------------
(***************************************************************************)
(* The chat of one meeting, from the chat handler of api.go to the list a   *)
(* page shows (onSocket and refreshJoin of MeetingPage.tsx).  A message      *)
(* reaches a page in three ways: as an event of its own, inside the meeting *)
(* snapshot every other handler broadcasts, and in the answer to a join.    *)
(* The three travel on their own and the page merges them.                  *)
(*                                                                          *)
(* A handler is its Update and, later, its broadcast; Hub has what happens  *)
(* in between, Admission when exactly a page joins again.  Abstractions: a  *)
(* message is its id, and its author and addressee are fixed with it; of a  *)
(* snapshot only the chat is kept; of a list only what is in it, and how     *)
(* often where that may be more than once: nothing is said of the order,    *)
(* which is that of SentAt or of arrival; a page has one join under way;     *)
(* `lost` records what a page was not sent or no longer shows, and no code  *)
(* reads it.                                                                *)
(***************************************************************************)
EXTENDS Integers, Sequences, FiniteSets

CONSTANTS
    User,       \* users who join the meeting
    Online,     \* bound: those whose pages and connections are followed
    Message,    \* chat requests, each sent at most once
    Author,     \* ChatMessage.UserID
    To,         \* ChatMessage.RecipientID
    Everyone,   \* the addressee of a public message
    Nobody,     \* most snapshots are about nobody
    BufSize,    \* capacity of Client.send
    MaxTodo     \* bound: handlers between their Update and their broadcast

ASSUME OnlineUsers == Online \subseteq User
ASSUME NamesAreNoUsers == {Everyone, Nobody} \cap User = {}
ASSUME AuthorType == Author \in [Message -> User]
ASSUME ToType == To \in [Message -> User \cup {Everyone}]
ASSUME BoundsAreNatural == {BufSize, MaxTodo} \subseteq Nat

VARIABLES
    place,      \* place[u]: which of the meeting's maps holds u
    chat,       \* Meeting.Chat
    stage,      \* stage[n]: how far the handler of message n is
    todo,       \* snapshots still to be broadcast
    page,       \* page[u]: join.status and join.meeting.chat of u's page
    call,       \* call[u]: the POST join of u's page
    sock,       \* sock[u]: how far the server is with u's socket
    wire,       \* wire[u]: events on their way to u's page
    lost        \* history: lost[u], messages u's page will not show by itself

server == <<place, chat, stage>>
client == <<page, call, sock>>
vars == <<server, todo, client, wire, lost>>

Elements(s) == {s[i] : i \in DOMAIN s}

Public(n)  == To[n] = Everyone
Parties(n) == IF Public(n) THEN User ELSE {Author[n], To[n]}

\* An event: chat.message with its message, or any other with a snapshot; three of
\* these mean something of their own to the page of the user they are about.
Decision == {"admitted", "rejected", "removed"}
Event    == [is : {"message", "updated"} \cup Decision, chat : SUBSET Message,
             about : User \cup {Nobody}]

MessageEvent(n)          == [is |-> "message", chat |-> {n}, about |-> Nobody]
Snapshot(type, c, about) == [is |-> type, chat |-> c, about |-> about]

\* How often a page's list has each message.
List == [Message -> Nat]

Once(c)   == [n \in Message |-> IF n \in c THEN 1 ELSE 0]
Listed(l) == {n \in Message : l[n] > 0}

\* Before its first answer a page shows no meeting.
Page == [status : {"none", "waiting", "admitted"}, list : List]

NoPage == [status |-> "none", list |-> Once({})]

\* "taken": the Update is done, the snapshot is to be broadcast, then the answer
\* is written.  `heard`: the page that asked is still there.
CallState == [at : {"idle", "sent", "taken", "answered"}, heard : BOOLEAN,
              status : {"none", "waiting", "admitted"}, chat : SUBSET Message]

NoCall == [at |-> "idle", heard |-> FALSE, status |-> "none", chat |-> {}]

Stage == {"idle", "stamped", "stored", "echoed", "over"}

----------------------------------------------------------------------------

\* The other users are in the meeting already, with a page that is admitted and
\* has no connection: pages share nothing, so one page at a time will do.
Init ==
    /\ place = [u \in User |-> IF u \in Online THEN "outside" ELSE "inside"]
    /\ chat = {}
    /\ stage = [n \in Message |-> "idle"]
    /\ todo = {}
    /\ page = [u \in User |->
            IF u \in Online THEN NoPage ELSE [NoPage EXCEPT !.status = "admitted"]]
    /\ call = [u \in User |-> NoCall]
    /\ sock = [u \in User |-> "none"]
    /\ wire = [u \in User |-> <<>>]
    /\ lost = [u \in User |-> {}]

\* Mutant: snapshots carry the whole chat.
PublicChatWhole(c) == c

\* publicChatOnly.
PublicChat(c) == {n \in c : Public(n)}

\* visibleChat: a participant also gets the messages from and to them.
VisibleChat(c, u, status) ==
    IF status = "admitted"
    THEN {n \in c : u \in Parties(n)}
    ELSE PublicChat(c)

(* Broadcast and SendTo. *)

\* Mutant: the channel has no capacity.
FitsAlways(u) == sock[u] = "registered"

Fits(u) == sock[u] = "registered" /\ Len(wire[u]) < BufSize

\* Event e is offered to the connections of `to`.
Send(e, to) ==
    wire' = [u \in User |->
        IF u \in to /\ Fits(u) THEN Append(wire[u], e) ELSE wire[u]]

SendMessage(n, to) ==
    /\ Send(MessageEvent(n), to)
    /\ lost' = [u \in User |->
            IF u \in to /\ ~Fits(u) THEN lost[u] \cup {n} ELSE lost[u]]

----------------------------------------------------------------------------
(* POST chat. *)

\* The request is stamped before the store's lock.  Only the page of a participant
\* has a form to send with.
Stamp(n) ==
    /\ stage[n] = "idle"
    /\ page[Author[n]].status = "admitted"
    /\ stage' = [stage EXCEPT ![n] = "stamped"]
    /\ UNCHANGED <<place, chat, todo, client, wire, lost>>

Accepted(n) ==
    /\ place[Author[n]] = "inside"
    /\ Public(n) \/ (To[n] # Author[n] /\ place[To[n]] = "inside")

Store(n) ==
    /\ stage[n] = "stamped"
    /\ IF Accepted(n)
       THEN /\ chat' = chat \cup {n}
            /\ stage' = [stage EXCEPT ![n] = "stored"]
       ELSE /\ stage' = [stage EXCEPT ![n] = "over"]
            /\ UNCHANGED chat
    /\ UNCHANGED <<place, todo, client, wire, lost>>

Publish(n) ==
    /\ stage[n] = "stored"
    /\ Public(n)
    /\ SendMessage(n, User)
    /\ stage' = [stage EXCEPT ![n] = "over"]
    /\ UNCHANGED <<place, chat, todo, client>>

\* SendTo the author, then SendTo the addressee.
Echo(n) ==
    /\ stage[n] = "stored"
    /\ ~Public(n)
    /\ SendMessage(n, {Author[n]})
    /\ stage' = [stage EXCEPT ![n] = "echoed"]
    /\ UNCHANGED <<place, chat, todo, client>>

Deliver(n) ==
    /\ stage[n] = "echoed"
    /\ SendMessage(n, {To[n]})
    /\ stage' = [stage EXCEPT ![n] = "over"]
    /\ UNCHANGED <<place, chat, todo, client>>

----------------------------------------------------------------------------
(* The other handlers, as far as the chat goes. *)

\* The Update of a handler is done and its clone will be broadcast.
Announce(type, who) ==
    /\ todo' = todo \cup {Snapshot(type, PublicChat(chat), who)}
    /\ Cardinality(todo') <= MaxTodo

\* The host admits a waiting user, rejects one, or removes a participant: the socket
\* of who is outside from now on stays as registered as it is.
Decide(u, from, type, to) ==
    /\ place[u] = from
    /\ place' = [place EXCEPT ![u] = to]
    /\ Announce(type, u)
    /\ UNCHANGED <<chat, stage, client, wire, lost>>

Admit(u)  == Decide(u, "waiting", "admitted", "inside")
Reject(u) == Decide(u, "waiting", "rejected", "outside")
Remove(u) == Decide(u, "inside", "removed", "outside")

\* The Update of media and of mute, which change nobody's place.
Update ==
    /\ Announce("updated", Nobody)
    /\ UNCHANGED <<server, client, wire, lost>>

Broadcast(s) ==
    /\ s \in todo
    /\ Send(s, User)
    /\ todo' = todo \ {s}
    /\ UNCHANGED <<server, client, lost>>

\* The Update of join, and its clone.
Join(u) ==
    /\ call[u].at = "sent"
    /\ place' = [place EXCEPT ![u] = IF @ = "outside" THEN "waiting" ELSE @]
    /\ call' = [call EXCEPT ![u].at = "taken",
                            ![u].chat = chat,
                            ![u].status = IF place[u] = "inside"
                                          THEN "admitted" ELSE "waiting"]
    /\ UNCHANGED <<chat, stage, todo, page, sock, wire, lost>>

AnswerTo(u, c) ==
    [c EXCEPT !.at = "answered", !.chat = VisibleChat(c.chat, u, c.status)]

\* Its broadcast and its answer, for which somebody may wait.
Reply(u) ==
    /\ call[u].at = "taken"
    /\ Send(Snapshot("updated", PublicChat(call[u].chat), Nobody), User)
    /\ call' = [call EXCEPT ![u] =
            IF @.heard THEN AnswerTo(u, @) ELSE NoCall]
    /\ UNCHANGED <<server, todo, page, sock, lost>>

----------------------------------------------------------------------------
(* The page. *)

Ask(u) ==
    /\ call[u].at = "idle"
    /\ call' = [call EXCEPT ![u] = [NoCall EXCEPT !.at = "sent", !.heard = TRUE]]

\* refreshJoin when the page is opened, and the reconcile of a waiting page:
\* once each time its socket opens, here as often as it likes.
Refresh(u) ==
    /\ \/ page[u].status = "none"
       \/ page[u].status = "waiting" /\ sock[u] # "none"
    /\ Ask(u)
    /\ UNCHANGED <<server, todo, page, sock, wire, lost>>

\* setJoin(await api.join(id)): the answer replaces what the page had.
Answer(u) ==
    /\ call[u].at = "answered"
    /\ page' = [page EXCEPT ![u] =
            [status |-> call[u].status, list |-> Once(call[u].chat)]]
    /\ lost' = [lost EXCEPT ![u] =
            (@ \cup Listed(page[u].list)) \ call[u].chat]
    /\ call' = [call EXCEPT ![u] = NoCall]
    /\ UNCHANGED <<server, todo, sock, wire>>

Arriving(u) == Head(wire[u])

\* The event is taken off the wire, and the page shows list l from now on.
Shows(u, l) ==
    /\ page' = [page EXCEPT ![u].list = l]
    /\ lost' = [lost EXCEPT ![u] = @ \ Listed(l)]
    /\ wire' = [wire EXCEPT ![u] = Tail(@)]

\* Mutant: no look for a message that is there already.
WithMessageAgain(l, n) == [l EXCEPT ![n] = @ + 1]

\* onSocket, chat.message.
WithMessage(l, n) == IF l[n] > 0 THEN l ELSE [l EXCEPT ![n] = 1]

\* Mutant: the chat of the snapshot replaces that of the page.
WithSnapshotOnly(l, c) == Once(c)

\* onSocket, a snapshot: both lists without repetition.
WithSnapshot(l, c) == Once(Listed(l) \cup c)

OnMessage(u) ==
    /\ Arriving(u).is = "message"
    /\ \E n \in Arriving(u).chat : Shows(u, WithMessage(page[u].list, n))
    /\ UNCHANGED <<call, sock>>

OnSnapshot(u) ==
    /\ Arriving(u).is # "message"
    /\ Arriving(u).about # u
    /\ Shows(u, WithSnapshot(page[u].list, Arriving(u).chat))
    /\ UNCHANGED <<call, sock>>

Told(u, type) == Arriving(u).is = type /\ Arriving(u).about = u

\* participant.admitted for this page's user: it joins again, and the snapshot
\* in the event is not looked at.
OnAdmitted(u) ==
    /\ Told(u, "admitted")
    /\ Ask(u)
    /\ wire' = [wire EXCEPT ![u] = Tail(@)]
    /\ UNCHANGED <<page, sock, lost>>

\* participant.rejected: an error is shown, behind which the page goes on.
OnRejected(u) ==
    /\ Told(u, "rejected")
    /\ wire' = [wire EXCEPT ![u] = Tail(@)]
    /\ UNCHANGED <<client, lost>>

\* The tab is closed or reloaded, or leave was answered; a request that was sent
\* is still handled.
Unmount(u) ==
    /\ page[u].status # "none" \/ call[u].heard
    /\ page' = [page EXCEPT ![u] = NoPage]
    /\ call' = [call EXCEPT ![u] =
            IF @.at = "answered" THEN NoCall ELSE [@ EXCEPT !.heard = FALSE]]
    /\ sock' = [sock EXCEPT ![u] = "none"]
    /\ wire' = [wire EXCEPT ![u] = <<>>]
    /\ lost' = [lost EXCEPT ![u] = {}]

\* participant.removed: the page is left.
OnRemoved(u) ==
    /\ Told(u, "removed")
    /\ Unmount(u)

OnSocket(u) ==
    /\ wire[u] # <<>>
    /\ page[u].status # "none"
    /\ \/ OnMessage(u)
       \/ OnSnapshot(u)
       \/ OnAdmitted(u)
       \/ OnRejected(u)
       \/ OnRemoved(u)
    /\ UNCHANGED <<server, todo>>

CloseTab(u) ==
    /\ Unmount(u)
    /\ UNCHANGED <<server, todo>>

\* leave, its snapshot and its answer.
Leave(u) ==
    /\ page[u].status # "none"
    /\ place' = [place EXCEPT ![u] = "outside"]
    /\ Announce("updated", Nobody)
    /\ Unmount(u)
    /\ UNCHANGED <<chat, stage>>

(* The socket. *)

Dial(u) ==
    /\ page[u].status # "none"
    /\ sock[u] = "none"
    /\ place[u] # "outside"
    /\ sock' = [sock EXCEPT ![u] = "upgraded"]
    /\ UNCHANGED <<server, todo, page, call, wire, lost>>

Register(u) ==
    /\ sock[u] = "upgraded"
    /\ sock' = [sock EXCEPT ![u] = "registered"]
    /\ UNCHANGED <<server, todo, page, call, wire, lost>>

\* The connection is lost with what is on it.
Drop(u) ==
    /\ sock[u] # "none"
    /\ sock' = [sock EXCEPT ![u] = "none"]
    /\ wire' = [wire EXCEPT ![u] = <<>>]
    /\ lost' = [lost EXCEPT ![u] = @ \cup
            ({n \in Message : MessageEvent(n) \in Elements(wire[u])}
                \ Listed(page[u].list))]
    /\ UNCHANGED <<server, todo, page, call>>

----------------------------------------------------------------------------

Next ==
    \/ \E n \in Message :
        \/ Stamp(n)
        \/ Store(n)
        \/ Publish(n)
        \/ Echo(n)
        \/ Deliver(n)
    \/ Update
    \/ \E s \in todo : Broadcast(s)
    \/ \E u \in Online :
        \/ Admit(u)
        \/ Reject(u)
        \/ Remove(u)
        \/ Join(u)
        \/ Reply(u)
        \/ Refresh(u)
        \/ Answer(u)
        \/ OnSocket(u)
        \/ CloseTab(u)
        \/ Leave(u)
        \/ Dial(u)
        \/ Register(u)
        \/ Drop(u)

Spec == Init /\ [][Next]_vars

----------------------------------------------------------------------------

\* Type invariant of the chat, its handlers, the pages and what is between them.
TypeOK ==
    /\ place \in [User -> {"outside", "waiting", "inside"}]
    /\ chat \in SUBSET Message
    /\ stage \in [Message -> Stage]
    /\ todo \in SUBSET Event
    /\ page \in [User -> Page]
    /\ call \in [User -> CallState]
    /\ sock \in [User -> {"none", "upgraded", "registered"}]
    /\ wire \in [User -> Seq(Event)]
    /\ \A u \in User : Len(wire[u]) <= BufSize
    /\ lost \in [User -> SUBSET Message]

\* The messages u's browser has been given: shown, on the wire or in an answer.
Given(u) ==
    Listed(page[u].list)
    \cup (IF call[u].at = "answered" THEN call[u].chat ELSE {})
    \cup UNION {e.chat : e \in Elements(wire[u])}

\* README.md: "Private messages are delivered only to their sender and recipient
\* and are filtered from every other participant's history and meeting updates".
PrivateStaysPrivate ==
    \A u \in User : \A n \in Given(u) : u \in Parties(n)

\* Whichever of the three ways a message comes, and however often, a page lists
\* it once.
ListedOnce ==
    \A u \in User : \A n \in Message : page[u].list[n] <= 1

\* The message is about to be sent to u, or on u's wire.
Coming(n, u) ==
    \/ stage[n] = "stored"
    \/ stage[n] = "echoed" /\ u = To[n]
    \/ MessageEvent(n) \in Elements(wire[u])

\* A page misses a message of its user only if it was not sent it, or was sent it
\* while a join was under way whose answer does not have it.  In particular no
\* snapshot, however old, takes a message away.
MissingIsExplained ==
    \A u \in User : \A n \in chat :
        /\ page[u].status # "none"
        /\ Public(n) \/ (page[u].status = "admitted" /\ u \in Parties(n))
        => \/ n \in Listed(page[u].list)
           \/ Coming(n, u)
           \/ n \in lost[u]

\* A page's list is right but for what is explained: nothing twice, nothing missed.
ListIsRight == ListedOnce /\ MissingIsExplained

\* While a page is there, nothing but the answer to a join takes a message off
\* its list: no event, no snapshot however old, no lost connection.
OnlyAnswersForget ==
    [][\A u \in User :
            \/ Listed(page[u].list) \subseteq Listed(page'[u].list)
            \/ page'[u] = NoPage
            \/ Answer(u)]_vars

----------------------------------------------------------------------------
(* What a comment of the source says and the page does not do.              *)

\* MeetingPage.tsx: "Chat is append-only for the meeting lifetime ... keep every
\* message we already know".  The answer to a join replaces the page's chat,
\* with a list that may be older than it.
KnownMessagesStay ==
    [][\A u \in User :
            (page[u].status # "none" /\ page'[u].status # "none")
            => Listed(page[u].list) \subseteq Listed(page'[u].list)]_vars
=============================================================================
