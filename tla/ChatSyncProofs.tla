--------------------------- MODULE ChatSyncProofs ---------------------------
(***************************************************************************)
(* What the chat guarantees for every set of users and messages, however    *)
(* long the channels and however many handlers are at work: privacy, lists  *)
(* without repetition, and a reason for every message a page misses.        *)
(***************************************************************************)
EXTENDS ChatSync, TLAPS

\* What u's browser has or is about to get is for u.
Private(u) ==
    /\ call[u].at = "answered" => \A n \in call[u].chat : u \in Parties(n)
    /\ \A e \in Elements(wire[u]) : \A n \in e.chat : u \in Parties(n)
    /\ \A n \in Listed(page[u].list) : u \in Parties(n)

\* n is for a user whose page or answer has this status.
Concerns(n, u, status) == Public(n) \/ (status = "admitted" /\ u \in Parties(n))

\* Why u's page need not show n now.
Explained(n, u) == n \in Listed(page[u].list) \/ Coming(n, u) \/ n \in lost[u]

\* The page misses nothing else, nor will it after the answer it waits for.
Complete(u) ==
    \A n \in chat :
        /\ page[u].status # "none" /\ Concerns(n, u, page[u].status) => Explained(n, u)
        /\ (/\ call[u].heard
            /\ call[u].at \in {"taken", "answered"}
            /\ Concerns(n, u, call[u].status))
           => n \in call[u].chat \/ Explained(n, u)

PageInv(u) ==
    /\ \A n \in Message : page[u].list[n] <= 1
    /\ call[u].at = "answered" => call[u].heard
    /\ Private(u)
    /\ Complete(u)

SnapshotsArePublic == \A s \in todo : \A n \in s.chat : Public(n)

ChatInv == TypeOK /\ SnapshotsArePublic /\ \A u \in User : PageInv(u)

----------------------------------------------------------------------------
(* Sequences and lists. *)

LEMMA ElementsOfAppend ==
    ASSUME NEW S, NEW s \in Seq(S), NEW e \in S
    PROVE  Elements(Append(s, e)) = Elements(s) \cup {e}
<1>1. /\ DOMAIN Append(s, e) = 1..(Len(s) + 1) /\ DOMAIN s = 1..Len(s)
      /\ \A i \in 1..Len(s) : Append(s, e)[i] = s[i]
      /\ Append(s, e)[Len(s) + 1] = e
      OBVIOUS
<1>2. Len(s) \in Nat /\ 1..(Len(s) + 1) = (1..Len(s)) \cup {Len(s) + 1}
      OBVIOUS
<1> QED BY <1>1, <1>2 DEF Elements

LEMMA ElementsOfTail ==
    ASSUME NEW S, NEW s \in Seq(S), s # <<>>
    PROVE  Elements(s) = Elements(Tail(s)) \cup {Head(s)}
<1>1. Elements(Tail(s)) \subseteq Elements(s) /\ Head(s) \in Elements(s)
      BY DEF Elements
<1>2. ASSUME NEW i \in DOMAIN s
      PROVE  s[i] \in Elements(Tail(s)) \cup {Head(s)}
  <2>1. CASE i = 1
        BY <2>1
  <2>2. CASE i # 1
    <3>1. i - 1 \in DOMAIN Tail(s) /\ Tail(s)[i - 1] = s[i]
          BY <2>2
    <3> QED BY <3>1 DEF Elements
  <2> QED BY <2>1, <2>2
<1> QED BY <1>1, <1>2 DEF Elements

LEMMA ElementsOfEmpty == Elements(<<>>) = {}
BY DEF Elements

LEMMA OnceIsList ==
    ASSUME NEW c \in SUBSET Message
    PROVE  /\ Once(c) \in List
           /\ Listed(Once(c)) = c
           /\ \A n \in Message : Once(c)[n] <= 1
BY DEF Once, List, Listed

LEMMA WithMessageIsList ==
    ASSUME NEW l \in List, NEW n \in Message, \A m \in Message : l[m] <= 1
    PROVE  /\ WithMessage(l, n) \in List
           /\ Listed(WithMessage(l, n)) = Listed(l) \cup {n}
           /\ \A m \in Message : WithMessage(l, n)[m] <= 1
BY DEF WithMessage, List, Listed

LEMMA MessageEventType ==
    \A n \in Message : MessageEvent(n) \in Event
BY DEF MessageEvent, Event

LEMMA SnapshotType ==
    \A type \in {"updated"} \cup Decision :
        \A c \in SUBSET Message : \A about \in User \cup {Nobody} :
            Snapshot(type, c, about) \in Event
BY DEF Snapshot, Event

LEMMA PublicIsForAll ==
    \A n \in Message : \A u \in User : Public(n) => u \in Parties(n)
BY DEF Parties

LEMMA NoPageType == NoPage \in Page /\ NoPage.status = "none" /\ Listed(NoPage.list) = {}
                    /\ (\A n \in Message : NoPage.list[n] <= 1)
BY OnceIsList DEF NoPage, Page

LEMMA NoCallType == NoCall \in CallState /\ NoCall.at = "idle" /\ ~NoCall.heard
BY DEF NoCall, CallState

----------------------------------------------------------------------------
(* What a step leaves alone. *)

\* Lists and answers stay, events reach only the right wires, and no reason for
\* a missing message goes.
LEMMA ServerKeeps ==
    ASSUME ChatInv, UNCHANGED <<page, call>>, TypeOK', SnapshotsArePublic',
           \A u \in User : \A e \in Elements(wire'[u]) :
               e \in Elements(wire[u]) \/ \A n \in e.chat : u \in Parties(n),
           \A u \in User : \A n \in chat' :
               /\ n \notin chat \/ Coming(n, u) =>
                      Coming(n, u)' \/ n \in lost'[u] \/ (~Public(n) /\ u \notin Parties(n))
               /\ n \in lost[u] => n \in lost'[u]
    PROVE  ChatInv'
<1> SUFFICES ASSUME NEW u \in User
             PROVE  PageInv(u)'
    BY DEF ChatInv
<1>1. PageInv(u)
      BY DEF ChatInv
<1>2. Private(u)'
      BY <1>1 DEF PageInv, Private
<1>3. ASSUME NEW n \in chat', Public(n) \/ u \in Parties(n), n \notin chat \/ Explained(n, u)
      PROVE  Explained(n, u)'
      BY <1>3 DEF Explained
<1>4. Complete(u)'
      BY <1>1, <1>3 DEF PageInv, Complete, Concerns
<1> QED BY <1>1, <1>2, <1>4 DEF PageInv

\* What one page does is no matter of the others.
LEMMA PageKeeps ==
    ASSUME ChatInv, TypeOK', UNCHANGED <<chat, stage>>, SnapshotsArePublic',
           NEW u \in User, PageInv(u)',
           \A v \in User \ {u} : /\ page'[v] = page[v] /\ call'[v] = call[v]
                                 /\ wire'[v] = wire[v] /\ lost'[v] = lost[v]
    PROVE  ChatInv'
<1> SUFFICES ASSUME NEW v \in User \ {u}
             PROVE  PageInv(v)'
    BY DEF ChatInv
<1>1. PageInv(v)
      BY DEF ChatInv
<1>2. UNCHANGED <<page[v], call[v], wire[v], lost[v]>>
      OBVIOUS
<1>3. Private(v)'
      BY <1>1, <1>2 DEF PageInv, Private
<1>4. \A n \in Message : Explained(n, v) => Explained(n, v)'
      BY <1>2 DEF Explained, Coming
<1>5. chat \subseteq Message
      BY DEF ChatInv, TypeOK
<1>6. Complete(v)'
      BY <1>1, <1>2, <1>4, <1>5 DEF PageInv, Complete
<1> QED BY <1>1, <1>2, <1>3, <1>6 DEF PageInv

----------------------------------------------------------------------------
(* Sending. *)

\* A send keeps what is on the wires and adds its event where there is room.
LEMMA SendAdds ==
    ASSUME TypeOK, NEW e \in Event, NEW to, Send(e, to)
    PROVE  /\ wire' \in [User -> Seq(Event)]
           /\ \A u \in User :
                  /\ Len(wire'[u]) <= BufSize
                  /\ Elements(wire[u]) \subseteq Elements(wire'[u])
                  /\ Elements(wire'[u]) \subseteq Elements(wire[u]) \cup {e}
                  /\ u \notin to => wire'[u] = wire[u]
                  /\ u \in to /\ Fits(u) => e \in Elements(wire'[u])
<1>1. \A u \in User : wire[u] \in Seq(Event) /\ Len(wire[u]) <= BufSize
      BY DEF TypeOK
<1>2. ASSUME NEW u \in User
      PROVE  /\ wire'[u] \in Seq(Event)
             /\ Len(wire'[u]) <= BufSize
             /\ Elements(wire[u]) \subseteq Elements(wire'[u])
             /\ Elements(wire'[u]) \subseteq Elements(wire[u]) \cup {e}
             /\ u \notin to => wire'[u] = wire[u]
             /\ u \in to /\ Fits(u) => e \in Elements(wire'[u])
  <2>1. CASE u \in to /\ Fits(u)
    <3>1. wire'[u] = Append(wire[u], e)
          BY <2>1 DEF Send
    <3>2. wire'[u] \in Seq(Event) /\ Len(wire'[u]) = Len(wire[u]) + 1
          BY <1>1, <3>1
    <3>3. Len(wire[u]) < BufSize /\ Len(wire[u]) \in Nat /\ BufSize \in Nat
          BY <1>1, <2>1, BoundsAreNatural DEF Fits
    <3>4. Elements(wire'[u]) = Elements(wire[u]) \cup {e}
          BY <1>1, <3>1, ElementsOfAppend
    <3> QED BY <2>1, <3>2, <3>3, <3>4
  <2>2. CASE ~(u \in to /\ Fits(u))
    <3>1. wire'[u] = wire[u]
          BY <2>2 DEF Send
    <3> QED BY <1>1, <2>2, <3>1
  <2> QED BY <2>1, <2>2
<1>3. wire' \in [User -> Seq(Event)]
  <2>1. wire' = [u \in User |-> wire'[u]]
        BY DEF Send
  <2> QED BY <1>2, <2>1
<1> QED BY <1>2, <1>3

\* A message goes to some of its parties; who is not sent it now has another reason.
LEMMA SendMessageKeeps ==
    ASSUME ChatInv, NEW n \in Message, NEW to, SendMessage(n, to),
           UNCHANGED <<place, chat, todo, client>>, stage' \in [Message -> Stage],
           \A m \in Message : m # n => stage'[m] = stage[m],
           \A u \in User : u \in to => u \in Parties(n),
           \A u \in User :
               (Public(n) \/ u \in Parties(n))
               /\ (stage[n] = "stored" \/ (stage[n] = "echoed" /\ u = To[n]))
               => u \in to \/ (stage'[n] = "echoed" /\ u = To[n])
    PROVE  ChatInv'
<1>1. TypeOK /\ MessageEvent(n) \in Event /\ Send(MessageEvent(n), to)
      BY MessageEventType DEF ChatInv, SendMessage
<1>2. /\ wire' \in [User -> Seq(Event)]
      /\ \A u \in User :
             /\ Len(wire'[u]) <= BufSize
             /\ Elements(wire[u]) \subseteq Elements(wire'[u])
             /\ Elements(wire'[u]) \subseteq Elements(wire[u]) \cup {MessageEvent(n)}
             /\ u \notin to => wire'[u] = wire[u]
             /\ u \in to /\ Fits(u) => MessageEvent(n) \in Elements(wire'[u])
      BY <1>1, SendAdds
<1>3. \A u \in User : lost'[u] = IF u \in to /\ ~Fits(u) THEN lost[u] \cup {n} ELSE lost[u]
      BY DEF SendMessage
<1>4. lost' \in [User -> SUBSET Message]
      BY <1>1 DEF SendMessage, TypeOK
<1>5. TypeOK'
      BY <1>1, <1>2, <1>4 DEF TypeOK, client
<1>6. \A u \in User : \A e \in Elements(wire'[u]) :
          e \in Elements(wire[u]) \/ \A m \in e.chat : u \in Parties(m)
      BY <1>2 DEF MessageEvent
<1>7. ASSUME NEW u \in User, NEW m \in chat', m \notin chat \/ Coming(m, u)
      PROVE  Coming(m, u)' \/ m \in lost'[u] \/ (~Public(m) /\ u \notin Parties(m))
  <2>1. m \in Message /\ Coming(m, u)
        BY <1>1, <1>7 DEF TypeOK
  <2>2. CASE MessageEvent(m) \in Elements(wire[u])
        BY <1>2, <2>2 DEF Coming
  <2>3. CASE m # n
        BY <1>2, <2>1, <2>3 DEF Coming
  <2>4. CASE m = n /\ (stage[n] = "stored" \/ (stage[n] = "echoed" /\ u = To[n]))
    <3>1. CASE u \in to
          BY <1>2, <1>3, <2>4, <3>1 DEF Coming
    <3>2. CASE u \notin to
          BY <2>4, <3>2 DEF Coming
    <3> QED BY <3>1, <3>2
  <2> QED BY <2>1, <2>2, <2>3, <2>4 DEF Coming
<1>8. \A u \in User : lost[u] \subseteq lost'[u]
      BY <1>3
<1>9. SnapshotsArePublic'
      BY DEF ChatInv, SnapshotsArePublic
<1>10. UNCHANGED <<page, call>>
      BY DEF client
<1> QED BY <1>5, <1>6, <1>7, <1>8, <1>9, <1>10, ServerKeeps

\* A handler's snapshot is sent, with what the caller of the lemma does beside it.
LEMMA SnapshotAdds ==
    ASSUME ChatInv, NEW c \in SUBSET Message, \A n \in c : Public(n),
           NEW about \in User \cup {Nobody}, Send(Snapshot("updated", c, about), User)
    PROVE  /\ wire' \in [User -> Seq(Event)]
           /\ \A u \in User :
                  /\ Len(wire'[u]) <= BufSize
                  /\ Elements(wire[u]) \subseteq Elements(wire'[u])
                  /\ \A e \in Elements(wire'[u]) :
                         e \in Elements(wire[u]) \/ \A n \in e.chat : u \in Parties(n)
<1>1. Snapshot("updated", c, about) \in Event /\ TypeOK
      BY SnapshotType DEF ChatInv
<1>2. \A n \in Snapshot("updated", c, about).chat : \A u \in User : u \in Parties(n)
      BY PublicIsForAll DEF Snapshot
<1> QED BY <1>1, <1>2, SendAdds

----------------------------------------------------------------------------
(* The chat handler. *)

\* A handler that sends nothing: no message gets a new reason to be missed.
LEMMA QuietKeeps ==
    ASSUME ChatInv, TypeOK', UNCHANGED <<page, call, wire, lost>>,
           SnapshotsArePublic',
           \A u \in User : \A n \in chat' :
               n \notin chat \/ Coming(n, u) => Coming(n, u)'
    PROVE  ChatInv'
<1>1. \A u \in User : \A e \in Elements(wire'[u]) : e \in Elements(wire[u])
      OBVIOUS
<1> QED BY <1>1, ServerKeeps

LEMMA StampKeeps ==
    ASSUME ChatInv, NEW n \in Message, Stamp(n)
    PROVE  ChatInv'
<1>1. TypeOK'
      BY DEF ChatInv, TypeOK, Stamp, Stage, client
<1>2. UNCHANGED <<page, call, wire, lost, chat, todo>>
      BY DEF Stamp, client
<1>3. SnapshotsArePublic'
      BY <1>2 DEF ChatInv, SnapshotsArePublic
<1>4. \A m \in Message : stage[m] \in {"stored", "echoed"} => stage'[m] = stage[m]
      BY DEF ChatInv, TypeOK, Stamp
<1>5. chat \subseteq Message
      BY DEF ChatInv, TypeOK
<1>6. \A u \in User : \A m \in chat' : Coming(m, u) => Coming(m, u)'
      BY <1>2, <1>4, <1>5 DEF Coming
<1> QED BY <1>1, <1>2, <1>3, <1>6, QuietKeeps

LEMMA StoreKeeps ==
    ASSUME ChatInv, NEW n \in Message, Store(n)
    PROVE  ChatInv'
<1>1. TypeOK'
      BY DEF ChatInv, TypeOK, Store, Stage, client
<1>2. UNCHANGED <<page, call, wire, lost, todo>>
      BY DEF Store, client
<1>3. SnapshotsArePublic'
      BY <1>2 DEF ChatInv, SnapshotsArePublic
<1>4. /\ chat' \subseteq chat \cup {n}
      /\ n \in chat' => n \in chat \/ stage'[n] = "stored"
      /\ \A m \in Message : stage[m] \in {"stored", "echoed"} => stage'[m] = stage[m]
      BY DEF ChatInv, TypeOK, Store
<1>5. chat' \subseteq Message
      BY <1>1 DEF TypeOK
<1>6. \A u \in User : \A m \in chat' : m \notin chat \/ Coming(m, u) => Coming(m, u)'
      BY <1>2, <1>4, <1>5 DEF Coming
<1> QED BY <1>1, <1>2, <1>3, <1>6, QuietKeeps

LEMMA PublishKeeps ==
    ASSUME ChatInv, NEW n \in Message, Publish(n)
    PROVE  ChatInv'
<1>1. /\ SendMessage(n, User)
      /\ UNCHANGED <<place, chat, todo, client>>
      /\ stage' \in [Message -> Stage]
      /\ \A m \in Message : m # n => stage'[m] = stage[m]
      BY DEF ChatInv, TypeOK, Publish, Stage
<1>2. \A u \in User : u \in Parties(n)
      BY PublicIsForAll DEF Publish
<1> QED BY <1>1, <1>2, SendMessageKeeps

LEMMA EchoKeeps ==
    ASSUME ChatInv, NEW n \in Message, Echo(n)
    PROVE  ChatInv'
<1>1. /\ SendMessage(n, {Author[n]})
      /\ UNCHANGED <<place, chat, todo, client>>
      /\ stage' \in [Message -> Stage]
      /\ \A m \in Message : m # n => stage'[m] = stage[m]
      /\ stage[n] = "stored" /\ stage'[n] = "echoed"
      BY DEF ChatInv, TypeOK, Echo, Stage
<1>2. ~Public(n) /\ Parties(n) = {Author[n], To[n]}
      BY DEF Echo, Parties
<1> QED BY <1>1, <1>2, SendMessageKeeps

LEMMA DeliverKeeps ==
    ASSUME ChatInv, NEW n \in Message, Deliver(n)
    PROVE  ChatInv'
<1>1. /\ SendMessage(n, {To[n]})
      /\ UNCHANGED <<place, chat, todo, client>>
      /\ stage' \in [Message -> Stage]
      /\ \A m \in Message : m # n => stage'[m] = stage[m]
      /\ stage[n] = "echoed"
      BY DEF ChatInv, TypeOK, Deliver, Stage
<1>2. \A u \in User : u \in {To[n]} => u \in Parties(n)
      BY DEF Parties
<1> QED BY <1>1, <1>2, SendMessageKeeps

----------------------------------------------------------------------------
(* The other handlers. *)

LEMMA AnnounceType ==
    ASSUME ChatInv, NEW type \in {"updated"} \cup Decision,
           NEW who \in User \cup {Nobody}, Announce(type, who)
    PROVE  todo' \in SUBSET Event /\ SnapshotsArePublic'
<1>1. PublicChat(chat) \in SUBSET Message /\ \A n \in PublicChat(chat) : Public(n)
      BY DEF ChatInv, TypeOK, PublicChat
<1>2. Snapshot(type, PublicChat(chat), who) \in Event
      BY <1>1, SnapshotType
<1>3. \A n \in Snapshot(type, PublicChat(chat), who).chat : Public(n)
      BY <1>1 DEF Snapshot
<1> QED BY <1>2, <1>3 DEF ChatInv, TypeOK, SnapshotsArePublic, Announce

LEMMA DecideKeeps ==
    ASSUME ChatInv, NEW u \in Online, Admit(u) \/ Reject(u) \/ Remove(u)
    PROVE  ChatInv'
<1> PICK from \in {"waiting", "inside"}, type \in Decision, to \in {"inside", "outside"} :
        Decide(u, from, type, to)
    BY DEF Admit, Reject, Remove, Decision
<1>1. u \in User /\ Announce(type, u)
      BY OnlineUsers DEF Decide
<1>2. todo' \in SUBSET Event /\ SnapshotsArePublic'
      BY <1>1, AnnounceType
<1>3. UNCHANGED <<chat, stage, page, call, wire, lost>>
      BY DEF Decide, client
<1>4. TypeOK'
      BY <1>2 DEF ChatInv, TypeOK, Decide, client
<1>5. \A v \in User : \A n \in chat' : Coming(n, v) => Coming(n, v)'
      BY <1>3 DEF Coming
<1> QED BY <1>2, <1>3, <1>4, <1>5, QuietKeeps

LEMMA UpdateKeeps ==
    ASSUME ChatInv, Update
    PROVE  ChatInv'
<1>1. todo' \in SUBSET Event /\ SnapshotsArePublic'
      BY AnnounceType DEF Update
<1>2. UNCHANGED <<chat, stage, page, call, wire, lost>>
      BY DEF Update, client, server
<1>3. TypeOK'
      BY <1>1 DEF ChatInv, TypeOK, Update, client, server
<1>4. \A v \in User : \A n \in chat' : Coming(n, v) => Coming(n, v)'
      BY <1>2 DEF Coming
<1> QED BY <1>1, <1>2, <1>3, <1>4, QuietKeeps

\* A broadcast takes nothing off a wire.
LEMMA BroadcastKeeps ==
    ASSUME ChatInv, NEW s \in todo, Broadcast(s)
    PROVE  ChatInv'
<1>1. s \in Event /\ Send(s, User) /\ TypeOK
      BY DEF ChatInv, TypeOK, Broadcast
<1>2. /\ wire' \in [User -> Seq(Event)]
      /\ \A u \in User : /\ Len(wire'[u]) <= BufSize
                         /\ Elements(wire[u]) \subseteq Elements(wire'[u])
                         /\ Elements(wire'[u]) \subseteq Elements(wire[u]) \cup {s}
      BY <1>1, SendAdds
<1>3. UNCHANGED <<place, chat, stage, page, call, sock, lost>> /\ todo' = todo \ {s}
      BY DEF Broadcast, client, server
<1>4. TypeOK'
      BY <1>1, <1>2, <1>3 DEF TypeOK
<1>5. SnapshotsArePublic' /\ \A n \in s.chat : Public(n)
      BY <1>3 DEF ChatInv, SnapshotsArePublic
<1>6. s.chat \subseteq Message
      BY <1>1 DEF Event
<1>7. \A u \in User : \A e \in Elements(wire'[u]) :
          e \in Elements(wire[u]) \/ \A n \in e.chat : u \in Parties(n)
      BY <1>2, <1>5, <1>6, PublicIsForAll
<1>8. \A u \in User : \A n \in chat' : Coming(n, u) => Coming(n, u)'
      BY <1>2, <1>3 DEF Coming
<1> QED BY <1>3, <1>4, <1>5, <1>7, <1>8, ServerKeeps

\* The answer of a join will hold all that is in the chat now.
LEMMA JoinKeeps ==
    ASSUME ChatInv, NEW u \in Online, Join(u)
    PROVE  ChatInv'
<1>1. u \in User /\ TypeOK /\ PageInv(u)
      BY OnlineUsers DEF ChatInv
<1>2. /\ UNCHANGED <<chat, stage, todo, page, sock, wire, lost>>
      /\ call' = [call EXCEPT ![u] = [call[u] EXCEPT !.at = "taken", !.chat = chat,
                      !.status = IF place[u] = "inside" THEN "admitted" ELSE "waiting"]]
      BY DEF Join
<1>3. /\ call'[u].at = "taken" /\ call'[u].chat = chat
      /\ call'[u] \in CallState
      BY <1>1, <1>2 DEF TypeOK, CallState
<1>4. TypeOK'
      BY <1>1, <1>2, <1>3 DEF TypeOK, Join
<1>5. SnapshotsArePublic'
      BY <1>2 DEF ChatInv, SnapshotsArePublic
<1>6. Private(u)'
      BY <1>1, <1>2, <1>3 DEF PageInv, Private
<1>7. Complete(u)'
      BY <1>1, <1>2, <1>3 DEF PageInv, Complete, Explained, Coming
<1>8. PageInv(u)'
      BY <1>1, <1>2, <1>3, <1>6, <1>7 DEF PageInv
<1>9. \A v \in User \ {u} : call'[v] = call[v]
      BY <1>1, <1>2 DEF TypeOK
<1> QED BY <1>1, <1>2, <1>4, <1>5, <1>8, <1>9, PageKeeps

\* The answer keeps of the chat what is for u.
LEMMA VisibleChatType ==
    ASSUME NEW c \in SUBSET Message, NEW u \in User, NEW status
    PROVE  /\ VisibleChat(c, u, status) \subseteq c
           /\ \A n \in c : n \in VisibleChat(c, u, status) <=> Concerns(n, u, status)
           /\ \A n \in VisibleChat(c, u, status) : u \in Parties(n)
BY PublicIsForAll DEF VisibleChat, PublicChat, Concerns

LEMMA ReplyKeeps ==
    ASSUME ChatInv, NEW u \in Online, Reply(u)
    PROVE  ChatInv'
<1> DEFINE c == PublicChat(call[u].chat)
           answer == AnswerTo(u, call[u])
<1>1. u \in User /\ TypeOK /\ PageInv(u) /\ call[u] \in CallState
      BY OnlineUsers DEF ChatInv, TypeOK
<1>2. /\ UNCHANGED <<place, chat, stage, todo, page, sock, lost>>
      /\ call[u].at = "taken" /\ Send(Snapshot("updated", c, Nobody), User)
      BY DEF Reply, server
<1>3. call[u].chat \in SUBSET Message /\ c \in SUBSET Message /\ \A n \in c : Public(n)
      BY <1>1 DEF CallState, PublicChat
<1>4. /\ wire' \in [User -> Seq(Event)]
      /\ \A v \in User :
             /\ Len(wire'[v]) <= BufSize
             /\ Elements(wire[v]) \subseteq Elements(wire'[v])
             /\ \A e \in Elements(wire'[v]) :
                    e \in Elements(wire[v]) \/ \A n \in e.chat : v \in Parties(n)
      BY <1>2, <1>3, SnapshotAdds
<1>5. call' = [call EXCEPT ![u] = IF call[u].heard THEN answer ELSE NoCall]
      BY DEF Reply
<1>6. /\ VisibleChat(call[u].chat, u, call[u].status) \subseteq call[u].chat
      /\ \A n \in call[u].chat :
             n \in VisibleChat(call[u].chat, u, call[u].status)
             <=> Concerns(n, u, call[u].status)
      /\ \A n \in VisibleChat(call[u].chat, u, call[u].status) : u \in Parties(n)
      BY <1>1, <1>3, VisibleChatType
<1>7. answer \in CallState /\ answer.at = "answered" /\ answer.heard = call[u].heard
      /\ answer.status = call[u].status
      /\ answer.chat = VisibleChat(call[u].chat, u, call[u].status)
      BY <1>1, <1>3, <1>6 DEF CallState, AnswerTo
<1>8. call'[u] = (IF call[u].heard THEN answer ELSE NoCall) /\ call'[u] \in CallState
      BY <1>1, <1>5, <1>7, NoCallType DEF TypeOK
<1>9. call' \in [User -> CallState] /\ \A v \in User \ {u} : call'[v] = call[v]
      BY <1>1, <1>5, <1>7, NoCallType DEF TypeOK
<1>10. TypeOK'
      BY <1>1, <1>2, <1>4, <1>9 DEF TypeOK
<1>11. SnapshotsArePublic'
      BY <1>2 DEF ChatInv, SnapshotsArePublic
<1>12. \A v \in User : \A n \in Message : Explained(n, v) => Explained(n, v)'
      BY <1>2, <1>4 DEF Explained, Coming
<1>13. chat \subseteq Message
      BY <1>1 DEF TypeOK
<1>14. ASSUME NEW v \in User
       PROVE  PageInv(v)'
  <2>1. PageInv(v)
        BY DEF ChatInv
  <2>2. CASE v # u
    <3>1. UNCHANGED <<page, chat, call[v]>>
          BY <1>2, <1>9, <2>2
    <3>2. Private(v)'
          BY <1>4, <2>1, <3>1 DEF PageInv, Private
    <3>3. Complete(v)'
          BY <1>12, <1>13, <2>1, <3>1 DEF PageInv, Complete
    <3> QED BY <2>1, <3>1, <3>2, <3>3 DEF PageInv
  <2>3. CASE v = u /\ call[u].heard
    <3>1. Private(u)'
          BY <1>1, <1>2, <1>4, <1>6, <1>7, <1>8, <2>3 DEF PageInv, Private
    <3>2. ASSUME NEW n \in chat', Concerns(n, u, call[u].status)
          PROVE  n \in call'[u].chat \/ Explained(n, u)'
      <4>1. n \in call[u].chat \/ Explained(n, u)
            BY <1>1, <1>2, <2>3, <3>2 DEF PageInv, Complete
      <4> QED BY <1>2, <1>6, <1>7, <1>8, <1>12, <1>13, <2>3, <3>2, <4>1
    <3>3. Complete(u)'
          BY <1>1, <1>2, <1>7, <1>8, <1>12, <1>13, <2>3, <3>2 DEF PageInv, Complete
    <3> QED BY <1>1, <1>2, <1>7, <1>8, <2>3, <3>1, <3>3 DEF PageInv
  <2>4. CASE v = u /\ ~call[u].heard
    <3>1. call'[u].at = "idle" /\ ~call'[u].heard
          BY <1>8, <2>4, NoCallType
    <3>2. Private(u)'
          BY <1>1, <1>2, <1>4, <3>1 DEF PageInv, Private
    <3>3. Complete(u)'
          BY <1>1, <1>2, <1>12, <1>13, <3>1 DEF PageInv, Complete
    <3> QED BY <1>1, <1>2, <2>4, <3>1, <3>2, <3>3 DEF PageInv
  <2> QED BY <2>2, <2>3, <2>4
<1> QED BY <1>10, <1>11, <1>14 DEF ChatInv

----------------------------------------------------------------------------
(* The page. *)

\* A request that is only sent promises nothing yet.
LEMMA AskType ==
    ASSUME ChatInv, NEW u \in User, Ask(u)
    PROVE  /\ call' \in [User -> CallState]
           /\ call'[u].at = "sent"
           /\ \A v \in User \ {u} : call'[v] = call[v]
<1>1. [NoCall EXCEPT !.at = "sent", !.heard = TRUE] \in CallState
      BY NoCallType DEF CallState
<1>2. [NoCall EXCEPT !.at = "sent", !.heard = TRUE].at = "sent"
      BY NoCallType DEF CallState
<1> QED BY <1>1, <1>2 DEF ChatInv, TypeOK, Ask

LEMMA RefreshKeeps ==
    ASSUME ChatInv, NEW u \in Online, Refresh(u)
    PROVE  ChatInv'
<1>1. u \in User /\ TypeOK /\ PageInv(u) /\ Ask(u)
      BY OnlineUsers DEF ChatInv, Refresh
<1>2. UNCHANGED <<place, chat, stage, todo, page, sock, wire, lost>>
      BY DEF Refresh, server
<1>3. /\ call' \in [User -> CallState]
      /\ call'[u].at = "sent"
      /\ \A v \in User \ {u} : call'[v] = call[v]
      BY <1>1, AskType
<1>4. TypeOK'
      BY <1>1, <1>2, <1>3 DEF TypeOK
<1>5. SnapshotsArePublic'
      BY <1>2 DEF ChatInv, SnapshotsArePublic
<1>6. Private(u)'
      BY <1>1, <1>2, <1>3 DEF PageInv, Private
<1>7. Complete(u)'
      BY <1>1, <1>2, <1>3 DEF PageInv, Complete, Explained, Coming
<1>8. PageInv(u)'
      BY <1>1, <1>2, <1>3, <1>6, <1>7 DEF PageInv
<1> QED BY <1>1, <1>2, <1>3, <1>4, <1>5, <1>8, PageKeeps

\* What the answer does not have and the page had is counted as lost.
LEMMA AnswerKeeps ==
    ASSUME ChatInv, NEW u \in Online, Answer(u)
    PROVE  ChatInv'
<1>1. u \in User /\ TypeOK /\ PageInv(u) /\ call[u] \in CallState
      BY OnlineUsers DEF ChatInv, TypeOK
<1>2. /\ UNCHANGED <<place, chat, stage, todo, sock, wire>>
      /\ call[u].at = "answered"
      BY DEF Answer, server
<1>3. call[u].chat \in SUBSET Message /\ call[u].status \in {"none", "waiting", "admitted"}
      BY <1>1 DEF CallState
<1>4. /\ Once(call[u].chat) \in List
      /\ Listed(Once(call[u].chat)) = call[u].chat
      /\ \A n \in Message : Once(call[u].chat)[n] <= 1
      BY <1>3, OnceIsList
<1>5. page' = [page EXCEPT ![u] = [status |-> call[u].status, list |-> Once(call[u].chat)]]
      BY DEF Answer
<1>6. page' \in [User -> Page] /\ \A v \in User \ {u} : page'[v] = page[v]
      BY <1>1, <1>3, <1>4, <1>5 DEF TypeOK, Page
<1>7. page'[u].status = call[u].status /\ page'[u].list = Once(call[u].chat)
      BY <1>1, <1>5 DEF TypeOK
<1>8. Listed(page[u].list) \subseteq Message
      BY DEF Listed
<1>9. /\ lost' \in [User -> SUBSET Message]
      /\ lost'[u] = (lost[u] \cup Listed(page[u].list)) \ call[u].chat
      /\ \A v \in User \ {u} : lost'[v] = lost[v]
      BY <1>1, <1>8 DEF TypeOK, Answer
<1>10. /\ call' \in [User -> CallState]
       /\ call'[u] = NoCall
       /\ \A v \in User \ {u} : call'[v] = call[v]
      BY <1>1, NoCallType DEF TypeOK, Answer
<1>11. TypeOK'
      BY <1>1, <1>2, <1>6, <1>9, <1>10 DEF TypeOK
<1>12. SnapshotsArePublic'
      BY <1>2 DEF ChatInv, SnapshotsArePublic
<1>13. Private(u)'
      BY <1>1, <1>2, <1>4, <1>7, <1>10, NoCallType DEF PageInv, Private
<1>14. ASSUME NEW n \in chat', Concerns(n, u, page'[u].status)
       PROVE  Explained(n, u)'
  <2>1. n \in call[u].chat \/ Explained(n, u)
        BY <1>1, <1>2, <1>7, <1>14 DEF PageInv, Complete
  <2> QED BY <1>2, <1>4, <1>7, <1>9, <2>1 DEF Explained, Coming
<1>15. Complete(u)'
      BY <1>10, <1>14, NoCallType DEF Complete
<1>16. PageInv(u)'
      BY <1>4, <1>7, <1>10, <1>13, <1>15, NoCallType DEF PageInv
<1> QED BY <1>1, <1>2, <1>6, <1>9, <1>10, <1>11, <1>12, <1>16, PageKeeps

\* What is on a wire was put there for u, and its tail is what still comes.
LEMMA ArrivingType ==
    ASSUME ChatInv, NEW u \in User, wire[u] # <<>>
    PROVE  /\ Arriving(u) \in Event
           /\ Arriving(u) \in Elements(wire[u])
           /\ [wire EXCEPT ![u] = Tail(wire[u])] \in [User -> Seq(Event)]
           /\ Len(Tail(wire[u])) <= BufSize
           /\ Elements(wire[u]) = Elements(Tail(wire[u])) \cup {Arriving(u)}
<1>1. wire[u] \in Seq(Event) /\ Len(wire[u]) <= BufSize /\ wire \in [User -> Seq(Event)]
      BY DEF ChatInv, TypeOK
<1>2. Arriving(u) \in Event /\ Tail(wire[u]) \in Seq(Event)
      BY <1>1 DEF Arriving
<1>3. Elements(wire[u]) = Elements(Tail(wire[u])) \cup {Arriving(u)}
      BY <1>1, ElementsOfTail DEF Arriving
<1>4. Len(Tail(wire[u])) = Len(wire[u]) - 1 /\ Len(wire[u]) \in Nat
      BY <1>1
<1>5. Len(Tail(wire[u])) <= BufSize
      BY <1>1, <1>4, BoundsAreNatural
<1> QED BY <1>1, <1>2, <1>3, <1>5

\* A list that has all it had, and the message that arrives, explains the rest.
LEMMA ShowsKeeps ==
    ASSUME ChatInv, NEW u \in User, NEW l \in List, Shows(u, l), wire[u] # <<>>,
           UNCHANGED <<server, todo, sock, call>>,
           \A n \in Message : l[n] <= 1,
           \A n \in Listed(l) : u \in Parties(n),
           Listed(page[u].list) \subseteq Listed(l),
           \A n \in Message : Arriving(u) = MessageEvent(n) => n \in Listed(l)
    PROVE  ChatInv'
<1>1. TypeOK /\ PageInv(u) /\ page[u] \in Page
      BY DEF ChatInv, TypeOK
<1>2. UNCHANGED <<place, chat, stage, todo, sock, call>>
      BY DEF server
<1>3. /\ [wire EXCEPT ![u] = Tail(wire[u])] \in [User -> Seq(Event)]
      /\ Len(Tail(wire[u])) <= BufSize
      /\ Elements(wire[u]) = Elements(Tail(wire[u])) \cup {Arriving(u)}
      BY ArrivingType
<1>4. /\ wire' \in [User -> Seq(Event)]
      /\ wire'[u] = Tail(wire[u])
      /\ \A v \in User \ {u} : wire'[v] = wire[v]
      BY <1>1, <1>3 DEF Shows, TypeOK
<1>5. [page[u] EXCEPT !.list = l] \in Page
      /\ [page[u] EXCEPT !.list = l].status = page[u].status
      /\ [page[u] EXCEPT !.list = l].list = l
      BY <1>1 DEF Page
<1>6. page' = [page EXCEPT ![u] = [page[u] EXCEPT !.list = l]]
      BY DEF Shows
<1>7. /\ page' \in [User -> Page]
      /\ page'[u].status = page[u].status
      /\ page'[u].list = l
      /\ \A v \in User \ {u} : page'[v] = page[v]
      BY <1>1, <1>5, <1>6 DEF TypeOK
<1>8. /\ lost' \in [User -> SUBSET Message]
      /\ lost'[u] = lost[u] \ Listed(l)
      /\ \A v \in User \ {u} : lost'[v] = lost[v]
      BY <1>1 DEF Shows, TypeOK
<1>9. \A v \in User : Len(wire'[v]) <= BufSize
      BY <1>1, <1>3, <1>4 DEF TypeOK
<1>10. TypeOK'
      BY <1>1, <1>2, <1>4, <1>7, <1>8, <1>9 DEF TypeOK
<1>11. SnapshotsArePublic'
      BY <1>2 DEF ChatInv, SnapshotsArePublic
<1>12. Private(u)'
      BY <1>1, <1>2, <1>3, <1>4, <1>7 DEF PageInv, Private
<1>13. ASSUME NEW n \in Message, Explained(n, u)
       PROVE  Explained(n, u)'
  <2>1. CASE n \in Listed(page[u].list) \/ n \in lost[u]
        BY <1>7, <1>8, <2>1 DEF Explained
  <2>2. CASE stage[n] = "stored" \/ (stage[n] = "echoed" /\ u = To[n])
        BY <1>2, <2>2 DEF Explained, Coming
  <2>3. CASE MessageEvent(n) \in Elements(wire[u])
    <3>1. CASE MessageEvent(n) = Arriving(u)
          BY <1>7, <3>1 DEF Explained
    <3>2. CASE MessageEvent(n) \in Elements(Tail(wire[u]))
          BY <1>4, <3>2 DEF Explained, Coming
    <3> QED BY <1>3, <2>3, <3>1, <3>2
  <2> QED BY <1>13, <2>1, <2>2, <2>3 DEF Explained, Coming
<1>14. chat \subseteq Message
      BY <1>1 DEF TypeOK
<1>15. Complete(u)'
      BY <1>1, <1>2, <1>7, <1>13, <1>14 DEF PageInv, Complete
<1>16. PageInv(u)'
      BY <1>1, <1>2, <1>7, <1>12, <1>15 DEF PageInv
<1> QED BY <1>2, <1>4, <1>7, <1>8, <1>10, <1>11, <1>16, PageKeeps

LEMMA ListIsList ==
    ASSUME ChatInv, NEW u \in User
    PROVE  /\ page[u].list \in List
           /\ Listed(page[u].list) \subseteq Message
           /\ \A n \in Message : page[u].list[n] <= 1
           /\ \A n \in Listed(page[u].list) : u \in Parties(n)
BY DEF ChatInv, TypeOK, Page, PageInv, Private, Listed

LEMMA OnMessageKeeps ==
    ASSUME ChatInv, NEW u \in Online, OnSocket(u), OnMessage(u)
    PROVE  ChatInv'
<1>1. u \in User /\ wire[u] # <<>> /\ UNCHANGED <<server, todo, sock, call>>
      BY OnlineUsers DEF OnSocket, OnMessage
<1>2. PICK n \in Arriving(u).chat : Shows(u, WithMessage(page[u].list, n))
      BY DEF OnMessage
<1>3. Arriving(u) \in Event /\ Arriving(u) \in Elements(wire[u])
      BY <1>1, ArrivingType
<1>4. n \in Message /\ u \in Parties(n)
      BY <1>1, <1>3 DEF ChatInv, PageInv, Private, Event
<1>5. /\ page[u].list \in List
      /\ \A m \in Message : page[u].list[m] <= 1
      /\ \A m \in Listed(page[u].list) : u \in Parties(m)
      BY <1>1, ListIsList
<1>6. /\ WithMessage(page[u].list, n) \in List
      /\ Listed(WithMessage(page[u].list, n)) = Listed(page[u].list) \cup {n}
      /\ \A m \in Message : WithMessage(page[u].list, n)[m] <= 1
      BY <1>4, <1>5, WithMessageIsList
<1>7. \A m \in Message : Arriving(u) = MessageEvent(m) => m = n
      BY <1>2 DEF MessageEvent
<1> QED BY <1>1, <1>2, <1>4, <1>5, <1>6, <1>7, ShowsKeeps

LEMMA OnSnapshotKeeps ==
    ASSUME ChatInv, NEW u \in Online, OnSocket(u), OnSnapshot(u)
    PROVE  ChatInv'
<1> DEFINE l == WithSnapshot(page[u].list, Arriving(u).chat)
<1>1. u \in User /\ wire[u] # <<>> /\ UNCHANGED <<server, todo, sock, call>>
      BY OnlineUsers DEF OnSocket, OnSnapshot
<1>2. Shows(u, l) /\ Arriving(u).is # "message"
      BY DEF OnSnapshot
<1>3. Arriving(u) \in Event /\ Arriving(u) \in Elements(wire[u])
      BY <1>1, ArrivingType
<1>4. Arriving(u).chat \in SUBSET Message /\ \A n \in Arriving(u).chat : u \in Parties(n)
      BY <1>1, <1>3 DEF ChatInv, PageInv, Private, Event
<1>5. /\ Listed(page[u].list) \subseteq Message
      /\ \A m \in Listed(page[u].list) : u \in Parties(m)
      BY <1>1, ListIsList
<1>6. /\ l \in List
      /\ Listed(l) = Listed(page[u].list) \cup Arriving(u).chat
      /\ \A m \in Message : l[m] <= 1
      BY <1>4, <1>5, OnceIsList DEF WithSnapshot
<1>7. \A m \in Message : Arriving(u) # MessageEvent(m)
      BY <1>2 DEF MessageEvent
<1> HIDE DEF l
<1> QED BY <1>1, <1>2, <1>4, <1>5, <1>6, <1>7, ShowsKeeps

\* What the host has decided about u brings no message.
LEMMA OnDecisionKeeps ==
    ASSUME ChatInv, NEW u \in Online, OnSocket(u), OnAdmitted(u) \/ OnRejected(u)
    PROVE  ChatInv'
<1>1. /\ u \in User /\ wire[u] # <<>> /\ TypeOK /\ PageInv(u)
      /\ Ask(u) \/ call' = call
      /\ wire' = [wire EXCEPT ![u] = Tail(wire[u])]
      /\ Arriving(u).is # "message"
      /\ UNCHANGED <<place, chat, stage, todo, sock, page, lost>>
      BY OnlineUsers
      DEF OnSocket, OnAdmitted, OnRejected, Told, ChatInv, server, client
<1>2. /\ call' \in [User -> CallState]
      /\ call'[u] = call[u] \/ call'[u].at = "sent"
      /\ \A v \in User \ {u} : call'[v] = call[v]
  <2>1. CASE Ask(u)
        BY <1>1, <2>1, AskType
  <2>2. CASE call' = call
        BY <1>1, <2>2 DEF TypeOK
  <2> QED BY <1>1, <2>1, <2>2
<1>3. /\ [wire EXCEPT ![u] = Tail(wire[u])] \in [User -> Seq(Event)]
      /\ Len(Tail(wire[u])) <= BufSize
      /\ Elements(wire[u]) = Elements(Tail(wire[u])) \cup {Arriving(u)}
      BY <1>1, ArrivingType
<1>4. /\ wire' \in [User -> Seq(Event)]
      /\ wire'[u] = Tail(wire[u])
      /\ \A v \in User \ {u} : wire'[v] = wire[v]
      BY <1>1, <1>3 DEF TypeOK
<1>5. \A v \in User : Len(wire'[v]) <= BufSize
      BY <1>1, <1>3, <1>4 DEF TypeOK
<1>6. TypeOK'
      BY <1>1, <1>2, <1>4, <1>5 DEF TypeOK
<1>7. SnapshotsArePublic'
      BY <1>1 DEF ChatInv, SnapshotsArePublic
<1>8. Private(u)'
      BY <1>1, <1>2, <1>3, <1>4 DEF PageInv, Private
<1>9. \A n \in Message : Arriving(u) # MessageEvent(n)
      BY <1>1 DEF MessageEvent
<1>10. chat \subseteq Message
      BY <1>1 DEF TypeOK
<1>11. \A n \in Message : Explained(n, u) => Explained(n, u)'
      BY <1>1, <1>3, <1>4, <1>9 DEF Explained, Coming
<1>12. Complete(u)'
      BY <1>1, <1>2, <1>10, <1>11 DEF PageInv, Complete
<1>13. PageInv(u)'
      BY <1>1, <1>2, <1>8, <1>12 DEF PageInv
<1> QED BY <1>1, <1>2, <1>4, <1>6, <1>7, <1>13, PageKeeps

\* A page that is gone misses nothing.
LEMMA UnmountKeeps ==
    ASSUME ChatInv, NEW u \in Online, Unmount(u), UNCHANGED <<chat, stage>>,
           place' \in [User -> {"outside", "waiting", "inside"}],
           todo' \in SUBSET Event, SnapshotsArePublic'
    PROVE  ChatInv'
<1>1. u \in User /\ TypeOK /\ PageInv(u) /\ call[u] \in CallState
      BY OnlineUsers DEF ChatInv, TypeOK
<1>2. page' \in [User -> Page] /\ page'[u] = NoPage /\ \A v \in User \ {u} : page'[v] = page[v]
      BY <1>1, NoPageType DEF Unmount, TypeOK
<1>3. /\ call' \in [User -> CallState]
      /\ call'[u].at # "answered" /\ ~call'[u].heard
      /\ \A v \in User \ {u} : call'[v] = call[v]
  <2>1. CASE call[u].at = "answered"
    <3>1. call' = [call EXCEPT ![u] = NoCall]
          BY <2>1 DEF Unmount
    <3> QED BY <1>1, <3>1, NoCallType DEF TypeOK
  <2>2. CASE call[u].at # "answered"
    <3>1. call' = [call EXCEPT ![u] = [call[u] EXCEPT !.heard = FALSE]]
          BY <2>2 DEF Unmount
    <3>2. LET c == [call[u] EXCEPT !.heard = FALSE]
          IN  c \in CallState /\ c.at = call[u].at /\ ~c.heard
          BY <1>1 DEF CallState
    <3> QED BY <1>1, <2>2, <3>1, <3>2 DEF TypeOK
  <2> QED BY <2>1, <2>2
<1>4. /\ wire' \in [User -> Seq(Event)] /\ wire'[u] = <<>>
      /\ \A v \in User \ {u} : wire'[v] = wire[v]
      /\ \A v \in User : Len(wire'[v]) <= BufSize
      BY <1>1, BoundsAreNatural DEF Unmount, TypeOK
<1>5. /\ sock' \in [User -> {"none", "upgraded", "registered"}]
      /\ lost' \in [User -> SUBSET Message]
      /\ \A v \in User \ {u} : lost'[v] = lost[v]
      BY <1>1 DEF Unmount, TypeOK
<1>6. TypeOK'
      BY <1>1, <1>2, <1>3, <1>4, <1>5 DEF TypeOK
<1>7. PageInv(u)'
      BY <1>2, <1>3, <1>4, NoPageType, ElementsOfEmpty DEF PageInv, Private, Complete
<1> QED BY <1>1, <1>2, <1>3, <1>4, <1>5, <1>6, <1>7, PageKeeps

----------------------------------------------------------------------------
(* The socket. *)

\* Only the state of the socket changes.
LEMMA SockKeeps ==
    ASSUME ChatInv, UNCHANGED <<place, chat, stage, todo, page, call, wire, lost>>,
           sock' \in [User -> {"none", "upgraded", "registered"}]
    PROVE  ChatInv'
<1>1. TypeOK'
      BY DEF ChatInv, TypeOK
<1>2. SnapshotsArePublic'
      BY DEF ChatInv, SnapshotsArePublic
<1>3. \A u \in User : \A n \in chat' : Coming(n, u) => Coming(n, u)'
      BY DEF Coming
<1> QED BY <1>1, <1>2, <1>3, QuietKeeps

\* What was on the wire and not shown is counted as lost.
LEMMA DropKeeps ==
    ASSUME ChatInv, NEW u \in Online, Drop(u)
    PROVE  ChatInv'
<1>1. u \in User /\ TypeOK /\ PageInv(u)
      BY OnlineUsers DEF ChatInv
<1>2. UNCHANGED <<place, chat, stage, todo, page, call>>
      BY DEF Drop, server
<1>3. /\ wire' \in [User -> Seq(Event)] /\ wire'[u] = <<>>
      /\ \A v \in User \ {u} : wire'[v] = wire[v]
      /\ \A v \in User : Len(wire'[v]) <= BufSize
      BY <1>1, BoundsAreNatural DEF Drop, TypeOK
<1>4. sock' \in [User -> {"none", "upgraded", "registered"}]
      BY <1>1 DEF Drop, TypeOK
<1>5. /\ lost' \in [User -> SUBSET Message]
      /\ lost'[u] = lost[u] \cup ({n \in Message : MessageEvent(n) \in Elements(wire[u])}
                                     \ Listed(page[u].list))
      /\ \A v \in User \ {u} : lost'[v] = lost[v]
      BY <1>1 DEF Drop, TypeOK
<1>6. TypeOK'
      BY <1>1, <1>2, <1>3, <1>4, <1>5 DEF TypeOK
<1>7. SnapshotsArePublic'
      BY <1>2 DEF ChatInv, SnapshotsArePublic
<1>8. Private(u)'
      BY <1>1, <1>2, <1>3, ElementsOfEmpty DEF PageInv, Private
<1>9. \A n \in Message : Explained(n, u) => Explained(n, u)'
      BY <1>2, <1>5 DEF Explained, Coming
<1>10. chat \subseteq Message
      BY <1>1 DEF TypeOK
<1>11. Complete(u)'
      BY <1>1, <1>2, <1>9, <1>10 DEF PageInv, Complete
<1>12. PageInv(u)'
      BY <1>1, <1>2, <1>8, <1>11 DEF PageInv
<1> QED BY <1>1, <1>2, <1>3, <1>5, <1>6, <1>7, <1>12, PageKeeps

----------------------------------------------------------------------------
(* The theorems. *)

LEMMA InitChatInv == Init => ChatInv
<1> SUFFICES ASSUME Init
             PROVE  ChatInv
    OBVIOUS
<1>1. \A u \in User : /\ page[u] \in Page
                      /\ Listed(page[u].list) = {}
                      /\ \A n \in Message : page[u].list[n] <= 1
  <2>1. ASSUME NEW s \in {"none", "waiting", "admitted"}
        PROVE  LET p == [NoPage EXCEPT !.status = s]
               IN  p \in Page /\ p.list = NoPage.list
        BY NoPageType DEF Page
  <2> QED BY <2>1, NoPageType DEF Init
<1>2. \A u \in User : wire[u] = <<>> /\ call[u] = NoCall
      BY DEF Init
<1>3. /\ page \in [User -> Page] /\ call \in [User -> CallState]
      /\ wire \in [User -> Seq(Event)]
      /\ \A u \in User : Len(wire[u]) <= BufSize
  <2>1. \A u \in User : Len(wire[u]) <= BufSize
        BY <1>2, BoundsAreNatural
  <2> QED BY <1>1, <2>1, NoCallType DEF Init
<1>4. TypeOK
      BY <1>3 DEF Init, TypeOK, Stage
<1>5. \A u \in User : PageInv(u)
      BY <1>1, <1>2, NoCallType, ElementsOfEmpty DEF PageInv, Private, Complete, Init
<1> QED BY <1>4, <1>5 DEF ChatInv, SnapshotsArePublic, Init

LEMMA NextKeepsChatInv == ChatInv /\ [Next]_vars => ChatInv'
<1> SUFFICES ASSUME ChatInv, [Next]_vars
             PROVE  ChatInv'
    OBVIOUS
<1>1. ASSUME NEW n \in Message, Stamp(n) \/ Store(n) \/ Publish(n) \/ Echo(n) \/ Deliver(n)
      PROVE  ChatInv'
      BY <1>1, StampKeeps, StoreKeeps, PublishKeeps, EchoKeeps, DeliverKeeps
<1>2. CASE Update \/ \E s \in todo : Broadcast(s)
      BY <1>2, UpdateKeeps, BroadcastKeeps
<1>3. ASSUME NEW u \in Online,
             \/ Admit(u) \/ Reject(u) \/ Remove(u)
             \/ Join(u) \/ Reply(u) \/ Refresh(u) \/ Answer(u)
      PROVE  ChatInv'
      BY <1>3, DecideKeeps, JoinKeeps, ReplyKeeps, RefreshKeeps, AnswerKeeps
<1>4. ASSUME NEW u \in Online, OnSocket(u)
      PROVE  ChatInv'
  <2>1. CASE OnRemoved(u)
    <3>1. UNCHANGED <<place, chat, stage, todo>> /\ Unmount(u)
          BY <1>4, <2>1 DEF OnSocket, OnRemoved, server
    <3>2. SnapshotsArePublic'
          BY <3>1 DEF ChatInv, SnapshotsArePublic
    <3> QED BY <3>1, <3>2, UnmountKeeps DEF ChatInv, TypeOK
  <2> QED BY <1>4, <2>1, OnMessageKeeps, OnSnapshotKeeps, OnDecisionKeeps DEF OnSocket
<1>5. ASSUME NEW u \in Online, CloseTab(u)
      PROVE  ChatInv'
  <2>1. UNCHANGED <<place, chat, stage, todo>>
        BY <1>5 DEF CloseTab, server
  <2>2. SnapshotsArePublic'
        BY <2>1 DEF ChatInv, SnapshotsArePublic
  <2> QED BY <1>5, <2>1, <2>2, UnmountKeeps DEF CloseTab, ChatInv, TypeOK
<1>6. ASSUME NEW u \in Online, Leave(u)
      PROVE  ChatInv'
  <2>1. todo' \in SUBSET Event /\ SnapshotsArePublic'
        BY <1>6, AnnounceType DEF Leave
  <2>2. place' \in [User -> {"outside", "waiting", "inside"}]
        BY <1>6 DEF Leave, ChatInv, TypeOK
  <2> QED BY <1>6, <2>1, <2>2, UnmountKeeps DEF Leave
<1>7. ASSUME NEW u \in Online, Dial(u) \/ Register(u)
      PROVE  ChatInv'
  <2>1. sock' \in [User -> {"none", "upgraded", "registered"}]
        BY <1>7 DEF ChatInv, TypeOK, Dial, Register
  <2>2. UNCHANGED <<place, chat, stage, todo, page, call, wire, lost>>
        BY <1>7 DEF Dial, Register, server
  <2> QED BY <2>1, <2>2, SockKeeps
<1>8. CASE \E u \in Online : Drop(u)
      BY <1>8, DropKeeps
<1>9. CASE UNCHANGED vars
  <2>1. UNCHANGED <<place, chat, stage, todo, page, call, sock, wire, lost>>
        BY <1>9 DEF vars, server, client
  <2> QED BY <2>1, SockKeeps DEF ChatInv, TypeOK
<1> QED BY <1>1, <1>2, <1>3, <1>4, <1>5, <1>6, <1>7, <1>8, <1>9 DEF Next

\* Messages are added to chat, events and lists in such a way that these four
\* facts always hold together.
THEOREM ChatInductive == Spec => []ChatInv
<1> QED BY InitChatInv, NextKeepsChatInv, PTL DEF Spec

\* The types of the chat, the pages and what is between them; no channel of hub.go
\* ever holds more than its capacity.
THEOREM ChatTypeCorrect == Spec => []TypeOK
<1>1. ChatInv => TypeOK
      BY DEF ChatInv
<1> QED BY <1>1, ChatInductive, PTL

\* publicChatOnly, visibleChat and SendTo together keep a private message from
\* every browser but those of its author and its addressee.
THEOREM PrivacyHolds == Spec => []PrivateStaysPrivate
<1>1. ChatInv => PrivateStaysPrivate
      BY DEF ChatInv, PageInv, Private, PrivateStaysPrivate, Given
<1> QED BY <1>1, ChatInductive, PTL

\* The page's merge of events, snapshots and answers lists no message twice.
THEOREM ListsOnce == Spec => []ListedOnce
<1>1. ChatInv => ListedOnce
      BY DEF ChatInv, PageInv, ListedOnce
<1> QED BY <1>1, ChatInductive, PTL

\* A page that does not show a message of its user was not sent it, or was sent
\* it while it waited for an answer without it: nothing else takes one away.
THEOREM MissesExplained == Spec => []MissingIsExplained
<1>1. ChatInv => MissingIsExplained
      BY DEF ChatInv, PageInv, Complete, Concerns, Explained, MissingIsExplained
<1> QED BY <1>1, ChatInductive, PTL

\* Both together: what a page lists is right but for what is explained.
THEOREM ListsAreRight == Spec => []ListIsRight
BY ListsOnce, MissesExplained, PTL DEF ListIsRight

----------------------------------------------------------------------------
(* What takes a message off a list. *)

\* Nothing that arrives takes anything off a list, unless it ends the page.
LEMMA EventsAddToLists ==
    ASSUME ChatInv, NEW u \in User, OnSocket(u), ~OnRemoved(u)
    PROVE  /\ Listed(page[u].list) \subseteq Listed(page'[u].list)
           /\ \A v \in User \ {u} : page'[v] = page[v]
<1>1. page \in [User -> Page] /\ page[u] \in Page /\ wire[u] # <<>>
      BY DEF ChatInv, TypeOK, OnSocket
<1>2. /\ page[u].list \in List /\ \A n \in Message : page[u].list[n] <= 1
      /\ Arriving(u) \in Event
      BY <1>1, ListIsList, ArrivingType
<1>3. ASSUME NEW l, Shows(u, l), Listed(page[u].list) \subseteq Listed(l)
      PROVE  /\ Listed(page[u].list) \subseteq Listed(page'[u].list)
             /\ \A v \in User \ {u} : page'[v] = page[v]
  <2>1. page' = [page EXCEPT ![u] = [page[u] EXCEPT !.list = l]]
        BY <1>3 DEF Shows
  <2>2. [page[u] EXCEPT !.list = l].list = l
        BY <1>1 DEF Page
  <2> QED BY <1>1, <1>3, <2>1, <2>2
<1>4. CASE OnMessage(u)
  <2>1. PICK n \in Arriving(u).chat : Shows(u, WithMessage(page[u].list, n))
        BY <1>4 DEF OnMessage
  <2>2. n \in Message
        BY <1>2 DEF Event
  <2> QED BY <1>2, <1>3, <2>1, <2>2, WithMessageIsList
<1>5. CASE OnSnapshot(u)
  <2>1. Shows(u, WithSnapshot(page[u].list, Arriving(u).chat))
        BY <1>5 DEF OnSnapshot
  <2>2. Listed(page[u].list) \cup Arriving(u).chat \in SUBSET Message
        BY <1>2 DEF Event, Listed
  <2>3. Listed(WithSnapshot(page[u].list, Arriving(u).chat))
            = Listed(page[u].list) \cup Arriving(u).chat
        BY <2>2, OnceIsList DEF WithSnapshot
  <2> QED BY <1>3, <2>1, <2>3
<1>6. CASE OnAdmitted(u) \/ OnRejected(u)
      BY <1>6 DEF OnAdmitted, OnRejected, client
<1> QED BY <1>4, <1>5, <1>6 DEF OnSocket

\* However old a snapshot, however often a message comes, whatever is lost: only a
\* join's answer makes a page forget, and only while it is not closed.
THEOREM OnlyJoinsForget == Spec => OnlyAnswersForget
<1> DEFINE Step == \A u \in User :
                \/ Listed(page[u].list) \subseteq Listed(page'[u].list)
                \/ page'[u] = NoPage
                \/ Answer(u)
<1>1. ASSUME ChatInv, [Next]_vars
      PROVE  Step
  <2> SUFFICES ASSUME NEW v \in User
               PROVE  \/ Listed(page[v].list) \subseteq Listed(page'[v].list)
                      \/ page'[v] = NoPage
                      \/ Answer(v)
      OBVIOUS
  <2>1. CASE page' = page
        BY <2>1
  <2>2. ASSUME NEW u \in User, Answer(u)
        PROVE  Answer(v) \/ page'[v] = page[v]
    <3>1. u # v => page'[v] = page[v]
          BY <1>1, <2>2 DEF Answer, ChatInv, TypeOK
    <3> QED BY <2>2, <3>1
  <2>3. ASSUME NEW u \in User, Unmount(u)
        PROVE  page'[v] = NoPage \/ page'[v] = page[v]
        BY <1>1, <2>3 DEF Unmount, ChatInv, TypeOK
  <2>4. ASSUME NEW u \in User, OnSocket(u), ~OnRemoved(u)
        PROVE  Listed(page[v].list) \subseteq Listed(page'[v].list)
        BY <1>1, <2>4, EventsAddToLists
  <2>5. CASE \/ UNCHANGED vars \/ Update
             \/ \E s \in todo : Broadcast(s)
             \/ \E n \in Message : Stamp(n) \/ Store(n) \/ Publish(n) \/ Echo(n) \/ Deliver(n)
    <3>1. page' = page
          BY <2>5 DEF vars, client, Update, Broadcast, Stamp, Store, Publish, Echo, Deliver
    <3> QED BY <2>1, <3>1
  <2>6. ASSUME NEW u \in Online,
               \/ Admit(u) \/ Reject(u) \/ Remove(u)
               \/ Join(u) \/ Reply(u) \/ Refresh(u)
               \/ Dial(u) \/ Register(u) \/ Drop(u)
        PROVE  page' = page
        BY <2>6 DEF client, Admit, Reject, Remove, Decide, Join, Reply, Refresh,
                     Dial, Register, Drop
  <2>7. ASSUME NEW u \in Online, Answer(u) \/ OnSocket(u) \/ CloseTab(u) \/ Leave(u)
        PROVE  \/ Listed(page[v].list) \subseteq Listed(page'[v].list)
               \/ page'[v] = NoPage
               \/ Answer(v)
    <3>1. u \in User
          BY OnlineUsers
    <3> QED BY <2>2, <2>3, <2>4, <2>7, <3>1 DEF CloseTab, Leave, OnRemoved
  <2> QED BY <1>1, <2>1, <2>5, <2>6, <2>7 DEF Next
<1>2. Step => [Step]_vars
      OBVIOUS
<1> HIDE DEF Step
<1>3. Spec => [][Step]_vars
      BY <1>1, <1>2, ChatInductive, PTL DEF Spec
<1> QED BY <1>3 DEF OnlyAnswersForget, Step
=============================================================================
