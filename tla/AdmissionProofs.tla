-------------------------- MODULE AdmissionProofs --------------------------
(***************************************************************************)
(* What a guest's page can rely on, for every set of guests, any number of  *)
(* joins under way and channels of any size: the waiting room is left, and  *)
(* the server keeps the contract of Lobby towards pages that come and go.   *)
(***************************************************************************)
EXTENDS Admission, FiniteSetTheorems, TLAPS

EmptyUnlessLive == meeting # "live" => \A g \in Guest : place[g] = "outside"

\* A join is under way whose answer cannot be "waiting" for who is inside now.
Fresh(g) == \E c \in Call : call[g][c] \in {"sent", "admitted", "refused"}

Admitted(g) == [type |-> "admitted", to |-> g]

\* A page without an answer has no socket, so its first answer finds none open.
SocketAfterAnswer(g) == page[g].status = "none" => ~open[g] /\ sock[g] = "none"

CatchesUp(g) ==
    (Shows(g, "waiting") /\ place[g] = "inside" /\ g \notin missed)
    => Fresh(g) \/ Coming(g, Admitted(g)) \/ ~open[g] \/ sock[g] = "none"

PageInv(g) == SocketAfterAnswer(g) /\ CatchesUp(g)

AdmissionInv == TypeOK /\ EmptyUnlessLive /\ \A g \in Guest : PageInv(g)

----------------------------------------------------------------------------
(* What a step about one guest leaves alone. *)

LEMMA OthersKeep ==
    ASSUME AdmissionInv, TypeOK', EmptyUnlessLive', NEW g \in Guest, PageInv(g)',
           todo \subseteq todo',
           \A h \in Guest \ {g} :
               /\ place'[h] = place[h] /\ page'[h] = page[h] /\ call'[h] = call[h]
               /\ sock'[h] = sock[h] /\ open'[h] = open[h] /\ wire'[h] = wire[h]
               /\ h \in missed => h \in missed'
    PROVE  AdmissionInv'
<1> SUFFICES ASSUME NEW h \in Guest \ {g}
             PROVE  PageInv(h)'
    BY DEF AdmissionInv
<1>1. /\ UNCHANGED <<place[h], page[h], call[h], sock[h], open[h], wire[h]>>
      /\ h \in missed => h \in missed'
      OBVIOUS
<1>2. PageInv(h)
      BY DEF AdmissionInv
<1>3. Coming(h, Admitted(h)) => Coming(h, Admitted(h))'
      BY <1>1 DEF Coming, Admitted
<1>4. Fresh(h) => Fresh(h)'
      BY <1>1 DEF Fresh
<1>5. Shows(h, "waiting")' => Shows(h, "waiting")
      BY <1>1 DEF Shows
<1> QED BY <1>1, <1>2, <1>3, <1>4, <1>5 DEF PageInv, SocketAfterAnswer, CatchesUp

\* The same, for a step that leaves the store alone.
LEMMA PageKeeps ==
    ASSUME AdmissionInv, NEW g \in Guest, PageInv(g)', UNCHANGED <<meeting, place, todo>>,
           page' \in [Guest -> Page], call' \in [Guest -> [Call -> CallState]],
           leave' \in [Guest -> LeaveState], sock' \in [Guest -> SockState],
           open' \in [Guest -> BOOLEAN], wire' \in [Guest -> Seq(Event)],
           Len(wire'[g]) <= BufSize, missed' \in SUBSET Guest,
           \A h \in Guest \ {g} :
               /\ page'[h] = page[h] /\ call'[h] = call[h] /\ sock'[h] = sock[h]
               /\ open'[h] = open[h] /\ wire'[h] = wire[h]
               /\ h \in missed => h \in missed'
    PROVE  AdmissionInv'
<1>1. \A h \in Guest : Len(wire'[h]) <= BufSize
      BY DEF AdmissionInv, TypeOK
<1>2. TypeOK'
      BY <1>1 DEF AdmissionInv, TypeOK
<1>3. EmptyUnlessLive'
      BY DEF AdmissionInv, EmptyUnlessLive
<1> QED BY <1>2, <1>3, OthersKeep

\* A step that changes nothing the page can tell.
LEMMA QuietKeeps ==
    ASSUME AdmissionInv, TypeOK', EmptyUnlessLive', todo \subseteq todo',
           UNCHANGED <<page, call, sock, open, wire, missed>>,
           \A g \in Guest : place'[g] = "inside" => place[g] = "inside"
    PROVE  AdmissionInv'
<1> SUFFICES ASSUME NEW g \in Guest
             PROVE  PageInv(g)'
    BY DEF AdmissionInv
<1>1. PageInv(g)
      BY DEF AdmissionInv
<1>2. Coming(g, Admitted(g)) => Coming(g, Admitted(g))'
      BY DEF Coming, Admitted
<1>3. (Fresh(g) => Fresh(g)') /\ (Shows(g, "waiting")' => Shows(g, "waiting"))
      BY DEF Fresh, Shows
<1> QED BY <1>1, <1>2, <1>3 DEF PageInv, SocketAfterAnswer, CatchesUp

LEMMA HomeType == Home \in Page /\ Home.at = "home" /\ Home.status = "none"
BY DEF Home, Page

LEMMA AdmittedIsNotice == \A g \in Guest : Admitted(g) \in Notice /\ Admitted(g) \in Event
BY DEF Admitted, Notice, Event

----------------------------------------------------------------------------
(* The host. *)

LEMMA CreateKeeps ==
    ASSUME AdmissionInv, Create
    PROVE  AdmissionInv'
<1>1. TypeOK' /\ EmptyUnlessLive'
      BY DEF AdmissionInv, TypeOK, EmptyUnlessLive, Create, network
<1>2. UNCHANGED <<place, todo, page, call, sock, open, wire, missed>>
      BY DEF Create, network
<1> QED BY <1>1, <1>2, QuietKeeps

\* An admission is announced by its handler: the notice is in todo.
LEMMA DecideKeeps ==
    ASSUME AdmissionInv, NEW g \in Guest, NEW type \in {"admitted", "rejected", "removed"},
           NEW to \in {"outside", "waiting", "inside"}, Decide(g, type, to),
           type = "admitted" \/ to # "inside"
    PROVE  AdmissionInv'
<1>1. /\ meeting = "live" /\ todo' = todo \cup {[type |-> type, to |-> g]}
      /\ place' = [place EXCEPT ![g] = to]
      /\ UNCHANGED <<meeting, page, call, leave, sock, open, wire, missed>>
      BY DEF Decide, Begins, network
<1>2. [type |-> type, to |-> g] \in Todo
      BY DEF Todo, Event, Notice
<1>3. TypeOK' /\ EmptyUnlessLive'
      BY <1>1, <1>2 DEF AdmissionInv, TypeOK, EmptyUnlessLive
<1>4. /\ place'[g] = to
      /\ \A h \in Guest \ {g} : place'[h] = place[h]
      BY <1>1 DEF AdmissionInv, TypeOK
<1>5. PageInv(g)
      BY DEF AdmissionInv
<1>6. to = "inside" => Coming(g, Admitted(g))'
      BY <1>1 DEF Coming, Admitted
<1>7. PageInv(g)'
      BY <1>1, <1>4, <1>5, <1>6 DEF PageInv, SocketAfterAnswer, CatchesUp
<1> QED BY <1>1, <1>3, <1>4, <1>7, OthersKeep

LEMMA RemoveKeeps ==
    ASSUME AdmissionInv, NEW g \in Guest, Remove(g)
    PROVE  AdmissionInv'
<1>1. (IF place[g] = "inside" THEN "outside" ELSE place[g]) \in {"outside", "waiting"}
      BY DEF AdmissionInv, TypeOK
<1> QED BY <1>1, DecideKeeps DEF Remove

LEMMA EndKeeps ==
    ASSUME AdmissionInv, End
    PROVE  AdmissionInv'
<1>1. /\ todo' = todo \cup {Ended} /\ Ended \in Todo
      /\ UNCHANGED <<meeting, place, page, call, leave, sock, open, wire, missed>>
      BY DEF End, Begins, server, network, Todo, Event
<1>2. TypeOK' /\ EmptyUnlessLive'
      BY <1>1 DEF AdmissionInv, TypeOK, EmptyUnlessLive
<1> QED BY <1>1, <1>2, QuietKeeps

----------------------------------------------------------------------------
(* Broadcasts. *)

\* Who is not reached by its admission, with a page that has a socket, is missed.
LEMMA BroadcastReaches ==
    ASSUME AdmissionInv, NEW e \in Event, Broadcast(e)
    PROVE  /\ wire' \in [Guest -> Seq(Event)]
           /\ missed' \in SUBSET Guest /\ missed \subseteq missed'
           /\ \A g \in Guest :
                  /\ Len(wire'[g]) <= BufSize
                  /\ \A n : (\E i \in DOMAIN wire[g] : wire[g][i] = n)
                            => \E i \in DOMAIN wire'[g] : wire'[g][i] = n
                  /\ e = Admitted(g) =>
                         \/ \E i \in DOMAIN wire'[g] : wire'[g][i] = e
                         \/ g \in missed' \/ ~open[g] \/ sock[g] = "none"
<1>1. PICK reached \in SUBSET Guest :
          /\ \A g \in reached : Fits(g)
          /\ wire' = [g \in Guest |->
                  IF g \in reached THEN Append(wire[g], e) ELSE wire[g]]
          /\ missed' = missed \cup
                  {g \in Guest \ reached : /\ e = [type |-> "admitted", to |-> g]
                                           /\ open[g] /\ sock[g] # "none"}
  <2> DEFINE fitting == {g \in Guest : Fits(g) /\ Concerns(e, g)}
  <2>1. PICK reached \in IF Overflows THEN SUBSET fitting ELSE {fitting} :
            /\ wire' = [g \in Guest |->
                    IF g \in reached THEN Append(wire[g], e) ELSE wire[g]]
            /\ missed' = missed \cup
                    {g \in Guest \ reached : /\ e = [type |-> "admitted", to |-> g]
                                             /\ open[g] /\ sock[g] # "none"}
        BY DEF Broadcast
  <2>2. reached \subseteq fitting
        BY <2>1
  <2> QED BY <2>1, <2>2
<1>2. wire \in [Guest -> Seq(Event)] /\ missed \in SUBSET Guest
      /\ \A g \in Guest : Len(wire[g]) <= BufSize
      BY DEF AdmissionInv, TypeOK
<1>3. ASSUME NEW g \in Guest
      PROVE  /\ wire'[g] \in Seq(Event)
             /\ Len(wire'[g]) <= BufSize
             /\ \A n : (\E i \in DOMAIN wire[g] : wire[g][i] = n)
                       => \E i \in DOMAIN wire'[g] : wire'[g][i] = n
             /\ g \in reached => \E i \in DOMAIN wire'[g] : wire'[g][i] = e
  <2>1. wire[g] \in Seq(Event) /\ Len(wire[g]) \in Nat /\ Len(wire[g]) <= BufSize
        BY <1>2
  <2>2. CASE g \in reached
    <3>1. wire'[g] = Append(wire[g], e)
          BY <1>1, <2>2
    <3>2. /\ wire'[g] \in Seq(Event) /\ Len(wire'[g]) = Len(wire[g]) + 1
          /\ \A i \in 1..Len(wire[g]) : wire'[g][i] = wire[g][i]
          /\ wire'[g][Len(wire[g]) + 1] = e
          BY <2>1, <3>1
    <3>3. Len(wire[g]) < BufSize /\ BufSize \in Nat
          BY <1>1, <2>2, BoundsAreNatural DEF Fits
    <3>4. DOMAIN wire[g] = 1..Len(wire[g]) /\ DOMAIN wire'[g] = 1..(Len(wire[g]) + 1)
          BY <2>1, <3>2
    <3>5. DOMAIN wire[g] \subseteq DOMAIN wire'[g] /\ Len(wire[g]) + 1 \in DOMAIN wire'[g]
          BY <2>1, <3>4
    <3>6. Len(wire'[g]) <= BufSize
          BY <2>1, <3>2, <3>3
    <3> QED BY <3>2, <3>4, <3>5, <3>6
  <2>3. CASE g \notin reached
    <3>1. wire'[g] = wire[g]
          BY <1>1, <2>3
    <3> QED BY <2>1, <2>3, <3>1
  <2> QED BY <2>2, <2>3
<1>4. wire' \in [Guest -> Seq(Event)]
  <2>1. wire' = [g \in Guest |-> wire'[g]]
        BY <1>1
  <2> QED BY <1>3, <2>1
<1>5. ASSUME NEW g \in Guest, e = Admitted(g), g \notin reached, open[g], sock[g] # "none"
      PROVE  g \in missed'
      BY <1>1, <1>5 DEF Admitted
<1>6. missed' \in SUBSET Guest /\ missed \subseteq missed'
      BY <1>1, <1>2
<1> QED BY <1>3, <1>4, <1>5, <1>6

\* A step whose events go out this way loses no notice that matters.
LEMMA SendingKeeps ==
    ASSUME AdmissionInv, NEW e \in Event, Broadcast(e), todo' \in SUBSET Todo,
           todo \ {e} \subseteq todo',
           UNCHANGED <<meeting, place, page, call, leave, sock, open>>
    PROVE  AdmissionInv'
<1>1. /\ wire' \in [Guest -> Seq(Event)]
      /\ missed' \in SUBSET Guest /\ missed \subseteq missed'
      /\ \A g \in Guest :
             /\ Len(wire'[g]) <= BufSize
             /\ \A n : (\E i \in DOMAIN wire[g] : wire[g][i] = n)
                       => \E i \in DOMAIN wire'[g] : wire'[g][i] = n
             /\ e = Admitted(g) =>
                    \/ \E i \in DOMAIN wire'[g] : wire'[g][i] = e
                    \/ g \in missed' \/ ~open[g] \/ sock[g] = "none"
      BY BroadcastReaches
<1>2. TypeOK' /\ EmptyUnlessLive'
      BY <1>1 DEF AdmissionInv, TypeOK, EmptyUnlessLive
<1>3. ASSUME NEW g \in Guest
      PROVE  PageInv(g)'
  <2>1. PageInv(g)
        BY DEF AdmissionInv
  <2>2. (Fresh(g) => Fresh(g)') /\ (Shows(g, "waiting")' => Shows(g, "waiting"))
        BY DEF Fresh, Shows
  <2>3. Coming(g, Admitted(g)) =>
            Coming(g, Admitted(g))' \/ g \in missed' \/ ~open[g] \/ sock[g] = "none"
    <3>1. CASE \E i \in DOMAIN wire[g] : wire[g][i] = Admitted(g)
          BY <1>1, <3>1 DEF Coming, Admitted
    <3>2. CASE Admitted(g) \in todo
          BY <1>1, <3>2 DEF Coming, Admitted
    <3> QED BY <3>1, <3>2 DEF Coming
  <2> QED BY <1>1, <2>1, <2>2, <2>3 DEF PageInv, SocketAfterAnswer, CatchesUp
<1> QED BY <1>2, <1>3 DEF AdmissionInv

LEMMA TellKeeps ==
    ASSUME AdmissionInv, NEW n \in Notice, Tell(n)
    PROVE  AdmissionInv'
<1>1. /\ n \in Event /\ Broadcast(n) /\ todo' = todo \ {n}
      /\ UNCHANGED <<meeting, place, page, call, leave, sock, open>>
      BY DEF Tell, Event, server
<1>2. todo' \in SUBSET Todo
      BY <1>1 DEF AdmissionInv, TypeOK
<1> QED BY <1>1, <1>2, SendingKeeps

LEMMA FarewellKeeps ==
    ASSUME AdmissionInv, Farewell
    PROVE  AdmissionInv'
<1>1. /\ Ended \in Event /\ Broadcast(Ended)
      /\ todo' = (todo \ {Ended}) \cup {Deletion}
      /\ UNCHANGED <<meeting, place, page, call, leave, sock, open>>
      BY DEF Farewell, Event, server
<1>2. todo' \in SUBSET Todo
      BY <1>1 DEF AdmissionInv, TypeOK, Todo
<1> QED BY <1>1, <1>2, SendingKeeps

\* Nobody is inside a meeting that is gone.
LEMMA DeleteKeeps ==
    ASSUME AdmissionInv, Delete
    PROVE  AdmissionInv'
<1>1. /\ todo' = todo \ {Deletion} /\ meeting' = "gone"
      /\ place' = [g \in Guest |-> "outside"]
      /\ UNCHANGED <<page, call, leave, sock, open, wire, missed>>
      BY DEF Delete, network
<1>2. TypeOK' /\ EmptyUnlessLive'
      BY <1>1 DEF AdmissionInv, TypeOK, EmptyUnlessLive
<1>3. \A g \in Guest : PageInv(g)'
      BY <1>1 DEF AdmissionInv, PageInv, SocketAfterAnswer, CatchesUp
<1> QED BY <1>2, <1>3 DEF AdmissionInv

----------------------------------------------------------------------------
(* The page and its joins. *)

\* A call that changes keeps the type of all of them.
LEMMA CallType ==
    ASSUME AdmissionInv, NEW g \in Guest, NEW c \in Call, NEW s \in CallState,
           call' = [call EXCEPT ![g][c] = s]
    PROVE  /\ call' \in [Guest -> [Call -> CallState]]
           /\ call'[g][c] = s
           /\ \A d \in Call \ {c} : call'[g][d] = call[g][d]
           /\ \A h \in Guest \ {g} : call'[h] = call[h]
<1>1. call \in [Guest -> [Call -> CallState]]
      BY DEF AdmissionInv, TypeOK
<1>2. call' = [call EXCEPT ![g] = [call[g] EXCEPT ![c] = s]]
      OBVIOUS
<1>3. call[g] \in [Call -> CallState]
      BY <1>1
<1>4. [call[g] EXCEPT ![c] = s] \in [Call -> CallState]
      BY <1>3
<1>5. call'[g] = [call[g] EXCEPT ![c] = s]
      BY <1>1, <1>2
<1> QED BY <1>1, <1>2, <1>3, <1>4, <1>5

\* Who asks has a fresh join under way.
LEMMA AskIsFresh ==
    ASSUME AdmissionInv, NEW g \in Guest, Ask(g)
    PROVE  /\ call' \in [Guest -> [Call -> CallState]]
           /\ Fresh(g)'
           /\ \A h \in Guest \ {g} : call'[h] = call[h]
<1> DEFINE c == CHOOSE c \in Idle(g) : TRUE
<1>1. c \in Idle(g) /\ call' = [call EXCEPT ![g][c] = "sent"]
      BY DEF Ask
<1>2. c \in Call /\ "sent" \in CallState
      BY <1>1 DEF Idle, CallState
<1> HIDE DEF c
<1>3. /\ call' \in [Guest -> [Call -> CallState]]
      /\ call'[g][c] = "sent"
      /\ \A h \in Guest \ {g} : call'[h] = call[h]
      BY <1>1, <1>2, CallType
<1> QED BY <1>2, <1>3 DEF Fresh

LEMMA VisitKeeps ==
    ASSUME AdmissionInv, NEW g \in Guest, Visit(g)
    PROVE  AdmissionInv'
<1>1. /\ Ask(g) /\ page' = [page EXCEPT ![g] = [page[g] EXCEPT !.at = "meeting"]]
      /\ UNCHANGED <<meeting, place, todo, leave, sock, open, wire, missed>>
      BY DEF Visit, server, network
<1>2. TypeOK /\ PageInv(g) /\ page[g] \in Page
      BY DEF AdmissionInv, TypeOK
<1>3. LET p == [page[g] EXCEPT !.at = "meeting"]
      IN  p \in Page /\ p.status = page[g].status
      BY <1>2 DEF Page
<1>4. /\ page' \in [Guest -> Page] /\ page'[g].status = page[g].status
      /\ \A h \in Guest \ {g} : page'[h] = page[h]
      BY <1>1, <1>2, <1>3 DEF TypeOK
<1>5. /\ call' \in [Guest -> [Call -> CallState]]
      /\ Fresh(g)'
      /\ \A h \in Guest \ {g} : call'[h] = call[h]
      BY <1>1, AskIsFresh
<1>6. PageInv(g)'
      BY <1>1, <1>2, <1>4, <1>5 DEF PageInv, SocketAfterAnswer, CatchesUp
<1> QED BY <1>1, <1>2, <1>4, <1>5, <1>6, PageKeeps DEF TypeOK

\* A fresh join of who is inside is answered with something else than "waiting".
LEMMA JoinKeeps ==
    ASSUME AdmissionInv, NEW g \in Guest, NEW c \in Call, Join(g, c)
    PROVE  AdmissionInv'
<1>1. TypeOK /\ EmptyUnlessLive /\ PageInv(g)
      BY DEF AdmissionInv
<1>2. PICK answer \in CASE meeting # "live"    -> {"refused"}
                        [] place[g] = "inside" -> {"admitted", "refused"}
                        [] OTHER               -> {"waiting"} :
          call' = [call EXCEPT ![g][c] = IF call[g][c] = "sent" THEN answer ELSE "idle"]
      BY DEF Join
<1>3. /\ answer \in {"waiting", "admitted", "refused"}
      /\ place[g] = "inside" => answer \in {"admitted", "refused"}
      BY <1>1, <1>2 DEF EmptyUnlessLive
<1> DEFINE s == IF call[g][c] = "sent" THEN answer ELSE "idle"
<1>4. s \in CallState
      BY <1>3 DEF CallState
<1>5. /\ call' \in [Guest -> [Call -> CallState]]
      /\ call'[g][c] = s
      /\ \A d \in Call \ {c} : call'[g][d] = call[g][d]
      /\ \A h \in Guest \ {g} : call'[h] = call[h]
      BY <1>2, <1>4, CallType
<1>6. /\ UNCHANGED <<meeting, todo, page, leave, sock, open, wire, missed>>
      /\ place' = [place EXCEPT ![g] =
              IF meeting = "live" /\ place[g] = "outside" THEN "waiting" ELSE place[g]]
      BY DEF Join, network
<1>7. TypeOK' /\ EmptyUnlessLive'
      BY <1>1, <1>5, <1>6 DEF TypeOK, EmptyUnlessLive
<1>8. /\ place'[g] = "inside" => place[g] = "inside"
      /\ \A h \in Guest \ {g} : place'[h] = place[h]
      BY <1>1, <1>6 DEF TypeOK
<1>9. place[g] = "inside" /\ Fresh(g) => Fresh(g)'
  <2> SUFFICES ASSUME place[g] = "inside", NEW d \in Call,
                      call[g][d] \in {"sent", "admitted", "refused"}
               PROVE  Fresh(g)'
      BY DEF Fresh
  <2>1. CASE d # c
        BY <1>5, <2>1 DEF Fresh
  <2>2. CASE d = c
    <3>1. call[g][c] = "sent"
          BY <2>2 DEF Join
    <3>2. call'[g][c] \in {"admitted", "refused"}
          BY <1>3, <1>5, <3>1
    <3> QED BY <3>2 DEF Fresh
  <2> QED BY <2>1, <2>2
<1>10. /\ Coming(g, Admitted(g)) => Coming(g, Admitted(g))'
       /\ Shows(g, "waiting")' => Shows(g, "waiting")
      BY <1>6 DEF Coming, Admitted, Shows
<1>11. PageInv(g)'
      BY <1>1, <1>6, <1>8, <1>9, <1>10 DEF PageInv, SocketAfterAnswer, CatchesUp
<1> QED BY <1>5, <1>6, <1>7, <1>8, <1>11, OthersKeep

\* An old "waiting" either finds a page that knew better, which asks again, or
\* leaves what the page relies on as it was.
LEMMA AnswerKeeps ==
    ASSUME AdmissionInv, NEW g \in Guest, NEW c \in Call, Answer(g, c)
    PROVE  AdmissionInv'
<1>1. TypeOK /\ PageInv(g) /\ page[g] \in Page
      BY DEF AdmissionInv, TypeOK
<1>2. /\ call[g][c] \in {"waiting", "admitted"}
      /\ page' = [page EXCEPT ![g] = [page[g] EXCEPT !.status = call[g][c]]]
      /\ call' = [call EXCEPT ![g][c] = Again(g, call[g][c])]
      /\ UNCHANGED <<meeting, place, todo, leave, sock, open, wire, missed>>
      BY DEF Answer, server, network
<1>3. LET p == [page[g] EXCEPT !.status = call[g][c]]
      IN  p \in Page /\ p.status = call[g][c] /\ p.at = page[g].at /\ p.error = page[g].error
      BY <1>1, <1>2 DEF Page
<1>4. /\ page' \in [Guest -> Page] /\ page'[g].status = call[g][c]
      /\ page'[g].at = page[g].at /\ page'[g].error = page[g].error
      /\ \A h \in Guest \ {g} : page'[h] = page[h]
      BY <1>1, <1>2, <1>3 DEF TypeOK
<1>5. Again(g, call[g][c]) \in CallState
      BY DEF Again, CallState
<1>6. /\ call' \in [Guest -> [Call -> CallState]]
      /\ call'[g][c] = Again(g, call[g][c])
      /\ \A d \in Call \ {c} : call'[g][d] = call[g][d]
      /\ \A h \in Guest \ {g} : call'[h] = call[h]
      BY <1>2, <1>5, CallType
<1>7. Coming(g, Admitted(g)) => Coming(g, Admitted(g))'
      BY <1>2 DEF Coming, Admitted
<1>8. SocketAfterAnswer(g)'
      BY <1>2, <1>4 DEF SocketAfterAnswer
<1>9. ASSUME Shows(g, "waiting")', place[g] = "inside", g \notin missed, open[g],
             sock[g] # "none"
      PROVE  Fresh(g)' \/ Coming(g, Admitted(g))
  <2>1. call[g][c] = "waiting"
        BY <1>4, <1>9 DEF Shows
  <2>2. CASE page[g].status # "waiting"
    <3>1. call'[g][c] = "sent"
          BY <1>6, <1>9, <2>1, <2>2 DEF Again
    <3> QED BY <3>1 DEF Fresh
  <2>3. CASE page[g].status = "waiting"
    <3>1. Shows(g, "waiting")
          BY <1>4, <1>9, <2>3 DEF Shows
    <3>2. Fresh(g) \/ Coming(g, Admitted(g))
          BY <1>1, <1>9, <3>1 DEF PageInv, CatchesUp
    <3>3. Fresh(g) => Fresh(g)'
          BY <1>6, <2>1 DEF Fresh
    <3> QED BY <3>2, <3>3
  <2> QED BY <2>2, <2>3
<1>10. PageInv(g)'
      BY <1>2, <1>7, <1>8, <1>9 DEF PageInv, CatchesUp
<1> QED BY <1>1, <1>2, <1>4, <1>6, <1>10, PageKeeps DEF TypeOK

LEMMA RefusalKeeps ==
    ASSUME AdmissionInv, NEW g \in Guest, NEW c \in Call, Refusal(g, c)
    PROVE  AdmissionInv'
<1>1. TypeOK /\ PageInv(g) /\ page[g] \in Page
      BY DEF AdmissionInv, TypeOK
<1>2. /\ page' = [page EXCEPT ![g] = [page[g] EXCEPT !.error = TRUE]]
      /\ call' = [call EXCEPT ![g][c] = "idle"]
      /\ UNCHANGED <<meeting, place, todo, leave, sock, open, wire, missed>>
      BY DEF Refusal, server, network
<1>3. LET p == [page[g] EXCEPT !.error = TRUE]
      IN  p \in Page /\ p.status = page[g].status /\ p.error
      BY <1>1 DEF Page
<1>4. /\ page' \in [Guest -> Page] /\ page'[g].status = page[g].status
      /\ page'[g].error
      /\ \A h \in Guest \ {g} : page'[h] = page[h]
      BY <1>1, <1>2, <1>3 DEF TypeOK
<1>5. /\ call' \in [Guest -> [Call -> CallState]]
      /\ \A h \in Guest \ {g} : call'[h] = call[h]
      BY <1>2, CallType DEF CallState
<1>6. PageInv(g)'
      BY <1>1, <1>2, <1>4 DEF PageInv, SocketAfterAnswer, CatchesUp, Shows
<1> QED BY <1>1, <1>2, <1>4, <1>5, <1>6, PageKeeps DEF TypeOK

\* A page that is gone shows no waiting room.
LEMMA UnmountType ==
    ASSUME AdmissionInv, NEW g \in Guest, Unmount(g)
    PROVE  /\ page' \in [Guest -> Page] /\ call' \in [Guest -> [Call -> CallState]]
           /\ sock' \in [Guest -> SockState] /\ open' \in [Guest -> BOOLEAN]
           /\ wire' \in [Guest -> Seq(Event)] /\ Len(wire'[g]) <= BufSize
           /\ missed' \in SUBSET Guest
           /\ PageInv(g)'
           /\ \A h \in Guest \ {g} :
                  /\ page'[h] = page[h] /\ call'[h] = call[h] /\ sock'[h] = sock[h]
                  /\ open'[h] = open[h] /\ wire'[h] = wire[h]
                  /\ h \in missed => h \in missed'
<1>1. TypeOK
      BY DEF AdmissionInv
<1>2. /\ page' \in [Guest -> Page] /\ page'[g] = Home
      /\ \A h \in Guest \ {g} : page'[h] = page[h]
      BY <1>1, HomeType DEF Unmount, TypeOK
<1>3. [c \in Call |-> IF call[g][c] \in {"sent", "orphan"} THEN "orphan" ELSE "idle"]
          \in [Call -> CallState]
      BY DEF CallState
<1>4. /\ call' \in [Guest -> [Call -> CallState]]
      /\ \A h \in Guest \ {g} : call'[h] = call[h]
      BY <1>1, <1>3 DEF Unmount, TypeOK
<1>5. /\ sock' \in [Guest -> SockState] /\ sock'[g] = "none"
      /\ \A h \in Guest \ {g} : sock'[h] = sock[h]
      BY <1>1 DEF Unmount, TypeOK, SockState
<1>6. /\ open' \in [Guest -> BOOLEAN] /\ open'[g] = FALSE
      /\ \A h \in Guest \ {g} : open'[h] = open[h]
      BY <1>1 DEF Unmount, TypeOK
<1>7. /\ wire' \in [Guest -> Seq(Event)] /\ Len(wire'[g]) <= BufSize
      /\ \A h \in Guest \ {g} : wire'[h] = wire[h]
      BY <1>1, BoundsAreNatural DEF Unmount, TypeOK
<1>8. /\ missed' \in SUBSET Guest
      /\ \A h \in Guest \ {g} : h \in missed => h \in missed'
      BY <1>1 DEF Unmount, TypeOK
<1>9. PageInv(g)'
      BY <1>5, <1>6 DEF PageInv, SocketAfterAnswer, CatchesUp
<1> QED BY <1>2, <1>4, <1>5, <1>6, <1>7, <1>8, <1>9

LEMMA GoHomeKeeps ==
    ASSUME AdmissionInv, NEW g \in Guest, GoHome(g), UNCHANGED <<server, todo>>
    PROVE  AdmissionInv'
<1>1. leave' \in [Guest -> LeaveState] /\ UNCHANGED <<meeting, place, todo>> /\ Unmount(g)
      BY DEF AdmissionInv, TypeOK, GoHome, LeaveState, server
<1> QED BY <1>1, UnmountType, PageKeeps

LEMMA ClickLeaveKeeps ==
    ASSUME AdmissionInv, NEW g \in Guest, ClickLeave(g)
    PROVE  AdmissionInv'
<1>1. TypeOK' /\ EmptyUnlessLive'
      BY DEF AdmissionInv, TypeOK, EmptyUnlessLive, ClickLeave, LeaveState, server, network
<1>2. UNCHANGED <<place, todo, page, call, sock, open, wire, missed>>
      BY DEF ClickLeave, server, network
<1> QED BY <1>1, <1>2, QuietKeeps

LEMMA LeaveKeeps ==
    ASSUME AdmissionInv, NEW g \in Guest, Leave(g)
    PROVE  AdmissionInv'
<1>1. TypeOK /\ EmptyUnlessLive
      BY DEF AdmissionInv
<1>2. /\ place' = [place EXCEPT ![g] = "outside"]
      /\ leave' \in [Guest -> LeaveState]
      /\ UNCHANGED <<meeting, todo>>
      BY <1>1 DEF Leave, TypeOK, LeaveState
<1>3. /\ place' \in [Guest -> {"outside", "waiting", "inside"}]
      /\ place'[g] = "outside"
      /\ \A h \in Guest \ {g} : place'[h] = place[h]
      BY <1>1, <1>2 DEF TypeOK
<1>4. EmptyUnlessLive'
      BY <1>1, <1>2, <1>3 DEF EmptyUnlessLive
<1>5. CASE Unmount(g)
  <2>1. /\ page' \in [Guest -> Page] /\ call' \in [Guest -> [Call -> CallState]]
        /\ sock' \in [Guest -> SockState] /\ open' \in [Guest -> BOOLEAN]
        /\ wire' \in [Guest -> Seq(Event)] /\ Len(wire'[g]) <= BufSize
        /\ missed' \in SUBSET Guest
        /\ PageInv(g)'
        /\ \A h \in Guest \ {g} :
               /\ page'[h] = page[h] /\ call'[h] = call[h] /\ sock'[h] = sock[h]
               /\ open'[h] = open[h] /\ wire'[h] = wire[h]
               /\ h \in missed => h \in missed'
        BY <1>5, UnmountType
  <2>2. \A h \in Guest : Len(wire'[h]) <= BufSize
        BY <1>1, <2>1 DEF TypeOK
  <2>3. TypeOK'
        BY <1>1, <1>2, <1>3, <2>1, <2>2 DEF TypeOK
  <2> QED BY <1>2, <1>3, <1>4, <2>1, <2>3, OthersKeep
<1>6. CASE UNCHANGED <<page, call, network, missed>>
  <2>1. UNCHANGED <<page, call, sock, open, wire, missed>>
        BY <1>6 DEF network
  <2>2. TypeOK'
        BY <1>1, <1>2, <1>3, <2>1 DEF TypeOK
  <2> QED BY <1>2, <1>3, <1>4, <2>1, <2>2, QuietKeeps
<1> QED BY <1>5, <1>6 DEF Leave

----------------------------------------------------------------------------
(* The socket. *)

LEMMA DialKeeps ==
    ASSUME AdmissionInv, NEW g \in Guest, Dial(g)
    PROVE  AdmissionInv'
<1>1. TypeOK /\ PageInv(g)
      BY DEF AdmissionInv
<1>2. /\ page[g].status # "none" /\ ~open[g]
      /\ sock' = [sock EXCEPT ![g] = "upgraded"]
      /\ UNCHANGED <<meeting, place, todo, page, call, leave, open, wire, missed>>
      BY DEF Dial, server
<1>3. sock' \in [Guest -> SockState] /\ \A h \in Guest \ {g} : sock'[h] = sock[h]
      BY <1>1, <1>2 DEF TypeOK, SockState
<1>4. PageInv(g)'
      BY <1>2 DEF PageInv, SocketAfterAnswer, CatchesUp
<1> QED BY <1>1, <1>2, <1>3, <1>4, PageKeeps DEF TypeOK

LEMMA RegisterKeeps ==
    ASSUME AdmissionInv, NEW g \in Guest, Register(g)
    PROVE  AdmissionInv'
<1>1. TypeOK /\ PageInv(g)
      BY DEF AdmissionInv
<1>2. /\ sock[g] = "upgraded" /\ sock' = [sock EXCEPT ![g] = "registered"]
      /\ UNCHANGED <<meeting, place, todo, page, call, leave, open, wire, missed>>
      BY DEF Register, server
<1>3. sock' \in [Guest -> SockState] /\ \A h \in Guest \ {g} : sock'[h] = sock[h]
      BY <1>1, <1>2 DEF TypeOK, SockState
<1>4. /\ Coming(g, Admitted(g)) => Coming(g, Admitted(g))'
      /\ Shows(g, "waiting")' => Shows(g, "waiting")
      /\ Fresh(g) => Fresh(g)'
      BY <1>2 DEF Coming, Admitted, Shows, Fresh
<1>5. PageInv(g)'
      BY <1>1, <1>2, <1>4 DEF PageInv, SocketAfterAnswer, CatchesUp
<1> QED BY <1>1, <1>2, <1>3, <1>5, PageKeeps DEF TypeOK

\* A waiting page asks whenever its socket opens.
LEMMA OnOpenKeeps ==
    ASSUME AdmissionInv, NEW g \in Guest, OnOpen(g)
    PROVE  AdmissionInv'
<1>1. TypeOK /\ PageInv(g)
      BY DEF AdmissionInv
<1>2. /\ sock[g] # "none" /\ open' = [open EXCEPT ![g] = TRUE]
      /\ UNCHANGED <<meeting, place, todo, page, leave, sock, wire, missed>>
      BY DEF OnOpen, server
<1>3. open' \in [Guest -> BOOLEAN] /\ \A h \in Guest \ {g} : open'[h] = open[h]
      BY <1>1, <1>2 DEF TypeOK
<1>4. page[g].status # "none"
      BY <1>1, <1>2 DEF PageInv, SocketAfterAnswer
<1>5. /\ call' \in [Guest -> [Call -> CallState]]
      /\ page[g].status = "waiting" => Fresh(g)'
      /\ \A h \in Guest \ {g} : call'[h] = call[h]
  <2>1. CASE page[g].status = "waiting"
        BY <2>1, AskIsFresh DEF OnOpen
  <2>2. CASE page[g].status # "waiting"
        BY <1>1, <2>2 DEF OnOpen, TypeOK
  <2> QED BY <2>1, <2>2
<1>6. PageInv(g)'
      BY <1>2, <1>4, <1>5 DEF PageInv, SocketAfterAnswer, CatchesUp, Shows
<1> QED BY <1>1, <1>2, <1>3, <1>5, <1>6, PageKeeps DEF TypeOK

\* What comes is the head of the wire, and the rest is still there.
LEMMA TailType ==
    ASSUME AdmissionInv, NEW g \in Guest, wire[g] # <<>>,
           wire' = [wire EXCEPT ![g] = Tail(wire[g])]
    PROVE  /\ wire' \in [Guest -> Seq(Event)]
           /\ Len(wire'[g]) <= BufSize
           /\ \A h \in Guest \ {g} : wire'[h] = wire[h]
<1>1. wire \in [Guest -> Seq(Event)] /\ wire[g] \in Seq(Event) /\ Len(wire[g]) <= BufSize
      BY DEF AdmissionInv, TypeOK
<1>2. Tail(wire[g]) \in Seq(Event) /\ Len(Tail(wire[g])) = Len(wire[g]) - 1
      /\ Len(wire[g]) \in Nat
      BY <1>1
<1>3. wire'[g] = Tail(wire[g]) /\ BufSize \in Nat
      BY <1>1, BoundsAreNatural
<1> QED BY <1>1, <1>2, <1>3

LEMMA OnAdmittedKeeps ==
    ASSUME AdmissionInv, NEW g \in Guest, wire[g] # <<>>, OnAdmitted(g),
           UNCHANGED <<server, todo>>
    PROVE  AdmissionInv'
<1>1. TypeOK /\ PageInv(g)
      BY DEF AdmissionInv
<1>2. /\ wire' = [wire EXCEPT ![g] = Tail(wire[g])] /\ Ask(g)
      /\ UNCHANGED <<meeting, place, todo, page, leave, sock, open, missed>>
      BY DEF OnAdmitted, server
<1>3. /\ call' \in [Guest -> [Call -> CallState]]
      /\ Fresh(g)'
      /\ \A h \in Guest \ {g} : call'[h] = call[h]
      BY <1>2, AskIsFresh
<1>4. PageInv(g)'
      BY <1>1, <1>2, <1>3 DEF PageInv, SocketAfterAnswer, CatchesUp
<1> QED BY <1>1, <1>2, <1>3, <1>4, TailType, PageKeeps DEF TypeOK

LEMMA OnRejectedKeeps ==
    ASSUME AdmissionInv, NEW g \in Guest, wire[g] # <<>>, OnRejected(g),
           UNCHANGED <<server, todo>>
    PROVE  AdmissionInv'
<1>1. TypeOK /\ PageInv(g) /\ page[g] \in Page
      BY DEF AdmissionInv, TypeOK
<1>2. /\ wire' = [wire EXCEPT ![g] = Tail(wire[g])]
      /\ page' = [page EXCEPT ![g] = [page[g] EXCEPT !.error = TRUE]]
      /\ UNCHANGED <<meeting, place, todo, call, leave, sock, open, missed>>
      BY DEF OnRejected, server
<1>3. LET p == [page[g] EXCEPT !.error = TRUE]
      IN  p \in Page /\ p.status = page[g].status /\ p.error
      BY <1>1 DEF Page
<1>4. /\ page' \in [Guest -> Page] /\ page'[g].status = page[g].status
      /\ page'[g].error
      /\ \A h \in Guest \ {g} : page'[h] = page[h]
      BY <1>1, <1>2, <1>3 DEF TypeOK
<1>5. PageInv(g)'
      BY <1>1, <1>2, <1>4 DEF PageInv, SocketAfterAnswer, CatchesUp, Shows
<1> QED BY <1>1, <1>2, <1>4, <1>5, TailType, PageKeeps DEF TypeOK

LEMMA DropKeeps ==
    ASSUME AdmissionInv, NEW g \in Guest, Drop(g)
    PROVE  AdmissionInv'
<1>1. TypeOK /\ PageInv(g)
      BY DEF AdmissionInv
<1>2. /\ sock[g] # "none"
      /\ UNCHANGED <<meeting, place, todo, page, call, leave, open, missed>>
      BY DEF Drop, server
<1>3. /\ sock' \in [Guest -> SockState] /\ sock'[g] = "none"
      /\ \A h \in Guest \ {g} : sock'[h] = sock[h]
      BY <1>1 DEF Drop, TypeOK, SockState
<1>4. /\ wire' \in [Guest -> Seq(Event)] /\ Len(wire'[g]) <= BufSize
      /\ \A h \in Guest \ {g} : wire'[h] = wire[h]
      BY <1>1, BoundsAreNatural DEF Drop, TypeOK
<1>5. PageInv(g)'
      BY <1>1, <1>2, <1>3 DEF PageInv, SocketAfterAnswer, CatchesUp
<1> QED BY <1>1, <1>2, <1>3, <1>4, <1>5, PageKeeps DEF TypeOK

LEMMA OnCloseKeeps ==
    ASSUME AdmissionInv, NEW g \in Guest, OnClose(g)
    PROVE  AdmissionInv'
<1>1. TypeOK
      BY DEF AdmissionInv
<1>2. /\ sock[g] = "none"
      /\ UNCHANGED <<meeting, place, todo, page, call, leave, sock, wire, missed>>
      BY DEF OnClose, server
<1>3. /\ open' \in [Guest -> BOOLEAN] /\ open'[g] = FALSE
      /\ \A h \in Guest \ {g} : open'[h] = open[h]
      BY <1>1 DEF OnClose, TypeOK
<1>4. PageInv(g)'
      BY <1>2, <1>3 DEF PageInv, SocketAfterAnswer, CatchesUp
<1> QED BY <1>1, <1>2, <1>3, <1>4, PageKeeps DEF TypeOK

----------------------------------------------------------------------------
(* The invariant. *)

LEMMA InitAdmissionInv == Init => AdmissionInv
<1> SUFFICES ASSUME Init
             PROVE  AdmissionInv
    OBVIOUS
<1>1. \A g \in Guest : wire[g] \in Seq(Event) /\ Len(wire[g]) <= BufSize
      BY BoundsAreNatural DEF Init
<1>2. TypeOK
      BY <1>1, HomeType DEF Init, TypeOK, CallState, LeaveState, SockState
<1>3. \A g \in Guest : PageInv(g)
      BY DEF Init, PageInv, SocketAfterAnswer, CatchesUp
<1> QED BY <1>2, <1>3 DEF AdmissionInv, EmptyUnlessLive, Init

LEMMA NextKeepsAdmissionInv == AdmissionInv /\ [Next]_vars => AdmissionInv'
<1> SUFFICES ASSUME AdmissionInv, [Next]_vars
             PROVE  AdmissionInv'
    OBVIOUS
<1>1. CASE Create \/ End \/ Serve
      BY <1>1, CreateKeeps, EndKeeps, TellKeeps, FarewellKeeps, DeleteKeeps DEF Serve
<1>2. ASSUME NEW g \in Guest, Admit(g) \/ Reject(g) \/ Remove(g)
      PROVE  AdmissionInv'
      BY <1>2, DecideKeeps, RemoveKeeps DEF Admit, Reject
<1>3. ASSUME NEW g \in Guest, Visit(g) \/ CloseTab(g) \/ ClickLeave(g) \/ Drop(g)
      PROVE  AdmissionInv'
      BY <1>3, VisitKeeps, GoHomeKeeps, ClickLeaveKeeps, DropKeeps DEF CloseTab
<1>4. ASSUME NEW g \in Guest, NEW c \in Call, Join(g, c) \/ Answer(g, c) \/ Refusal(g, c)
      PROVE  AdmissionInv'
      BY <1>4, JoinKeeps, AnswerKeeps, RefusalKeeps
<1>5. ASSUME NEW g \in Guest, Leave(g) \/ Dial(g) \/ Register(g) \/ OnOpen(g) \/ OnClose(g)
      PROVE  AdmissionInv'
      BY <1>5, LeaveKeeps, DialKeeps, RegisterKeeps, OnOpenKeeps, OnCloseKeeps
<1>6. ASSUME NEW g \in Guest, OnSocket(g)
      PROVE  AdmissionInv'
      BY <1>6, GoHomeKeeps, OnAdmittedKeeps, OnRejectedKeeps DEF OnSocket, OnEnded
<1>7. CASE UNCHANGED vars
  <2>1. UNCHANGED <<meeting, place, todo, page, call, leave, sock, open, wire, missed>>
        BY <1>7 DEF vars, server, network
  <2>2. TypeOK' /\ EmptyUnlessLive'
        BY <2>1 DEF AdmissionInv, TypeOK, EmptyUnlessLive
  <2> QED BY <2>1, <2>2, QuietKeeps
<1> QED BY <1>1, <1>2, <1>3, <1>4, <1>5, <1>6, <1>7 DEF Next, Follow

\* Types, an empty meeting while there is none, and what each page relies on,
\* hold together in every reachable state.
THEOREM AdmissionInductive == Spec => []AdmissionInv
<1> QED BY InitAdmissionInv, NextKeepsAdmissionInv, PTL DEF Spec

\* The types of the server, the pages and the network; no channel of hub.go ever
\* holds more than its capacity.
THEOREM AdmissionTypeCorrect == Spec => []TypeOK
<1>1. AdmissionInv => TypeOK
      BY DEF AdmissionInv
<1> QED BY <1>1, AdmissionInductive, PTL

\* The reconcile effect and the events of MeetingPage.tsx together: a page that
\* shows the waiting room to a guest who is inside is about to find out.
THEOREM WaitingIsLeft == Spec => []WaitingPageCatchesUp
<1>1. ASSUME NEW g \in Guest, Fresh(g)
      PROVE  Asking(g)
      BY <1>1 DEF Fresh, Asking
<1>2. AdmissionInv => WaitingPageCatchesUp
      BY <1>1 DEF AdmissionInv, PageInv, CatchesUp, Admitted, WaitingPageCatchesUp
<1> QED BY <1>2, AdmissionInductive, PTL

----------------------------------------------------------------------------
(* The server implements Lobby.                                             *)

Owner  == [id \in {"meeting"} |-> IF meeting = "live" THEN Host ELSE "nobody"]
Places == [id \in {"meeting"} |-> [u \in Guest \cup {Host} |->
                IF u = Host THEN "outside" ELSE place[u]]]
Used   == IF meeting = "none" THEN {} ELSE {"meeting"}

\* The host takes no seat here, so there is always one for who knocks.
LEMMA SeatForAll ==
    Contract!Cardinality(Contract!Seats("meeting")) < Cardinality(Guest) + 1
<1>1. Contract!Seats("meeting") \subseteq Guest
      BY HostIsNoGuest DEF Contract!Seats
<1>2. IsFiniteSet(Guest)
      BY GuestsAreFinite
<1>3. Cardinality(Contract!Seats("meeting")) <= Cardinality(Guest)
      BY <1>1, <1>2, FS_Subset
<1>4. Cardinality(Contract!Seats("meeting")) \in Nat /\ Cardinality(Guest) \in Nat
      BY <1>1, <1>2, FS_Subset, FS_CardinalityType
<1>5. Contract!Cardinality(Contract!Seats("meeting"))
          = Cardinality(Contract!Seats("meeting"))
      BY DEF Contract!Cardinality, Cardinality
<1> QED BY <1>3, <1>4, <1>5

\* A change of one guest's place in the live meeting is a move of the contract.
LEMMA PlaceMoves ==
    ASSUME AdmissionInv, NEW g \in Guest, NEW to, NEW from, place[g] \in from,
           meeting = "live", meeting' = meeting, place' = [place EXCEPT ![g] = to]
    PROVE  Contract!Move("meeting", g, from, to)
<1>1. Owner' = Owner /\ Used' = Used
      BY DEF Owner, Used
<1>2. g # Host /\ place \in [Guest -> {"outside", "waiting", "inside"}]
      BY HostIsNoGuest DEF AdmissionInv, TypeOK
<1>3. Places["meeting"][g] = place[g]
      BY <1>2 DEF Places
<1>4. Places'["meeting"] = [Places["meeting"] EXCEPT ![g] = to]
      BY <1>2 DEF Places
<1>5. Places' = [Places EXCEPT !["meeting"] = [Places["meeting"] EXCEPT ![g] = to]]
      BY <1>4 DEF Places
<1>6. Owner["meeting"] # "nobody"
      BY HostIsSomebody DEF Owner
<1> QED BY <1>1, <1>3, <1>5, <1>6
        DEF Contract!Move, Contract!IsOpen, Owner, Places, Used

\* A step that changes nobody's place is invisible to the contract.
LEMMA QuietRefines ==
    ASSUME UNCHANGED <<meeting, place>>
    PROVE  UNCHANGED Contract!vars
BY DEF Contract!vars

LEMMA DepartRefines ==
    ASSUME AdmissionInv, NEW g \in Guest, meeting' = meeting,
           NEW to, to \in {"outside", place[g]}, place' = [place EXCEPT ![g] = to]
    PROVE  Contract!Depart("meeting", g) \/ UNCHANGED Contract!vars
<1>1. place[g] \in {"outside", "waiting", "inside"}
      BY DEF AdmissionInv, TypeOK
<1>2. CASE to = place[g]
  <2>1. place' = place
        BY <1>2 DEF AdmissionInv, TypeOK
  <2> QED BY <2>1, QuietRefines
<1>3. CASE to = "outside" /\ place[g] # "outside"
  <2>1. meeting = "live" /\ place[g] \in {"waiting", "inside"}
        BY <1>1, <1>3 DEF AdmissionInv, EmptyUnlessLive
  <2> QED BY <1>3, <2>1, PlaceMoves DEF Contract!Depart
<1> QED BY <1>2, <1>3

LEMMA JoinRefines ==
    ASSUME AdmissionInv, NEW g \in Guest, NEW c \in Call, Join(g, c)
    PROVE  Contract!Knock("meeting", g) \/ UNCHANGED Contract!vars
<1>1. /\ meeting' = meeting
      /\ place' = [place EXCEPT ![g] =
              IF meeting = "live" /\ place[g] = "outside" THEN "waiting" ELSE place[g]]
      BY DEF Join
<1>2. CASE meeting = "live" /\ place[g] = "outside"
  <2>1. Contract!Move("meeting", g, {"outside"}, "waiting")
        BY <1>1, <1>2, PlaceMoves
  <2>2. g # Owner["meeting"]
        BY <1>2, HostIsNoGuest DEF Owner
  <2> QED BY <2>1, <2>2, SeatForAll DEF Contract!Knock, Owner
<1>3. CASE ~(meeting = "live" /\ place[g] = "outside")
  <2>1. place' = place
        BY <1>1, <1>3 DEF AdmissionInv, TypeOK
  <2> QED BY <1>1, <2>1, QuietRefines
<1> QED BY <1>2, <1>3

LEMMA AdmitRefines ==
    ASSUME AdmissionInv, NEW g \in Guest, Admit(g)
    PROVE  Contract!Admit("meeting", g)
<1>1. /\ meeting = "live" /\ place[g] \in {"waiting"}
      /\ place' = [place EXCEPT ![g] = "inside"] /\ meeting' = meeting
      BY DEF Admit, Decide
<1> QED BY <1>1, PlaceMoves DEF Contract!Admit

LEMMA CreateRefines ==
    ASSUME AdmissionInv, Create
    PROVE  Contract!Open("meeting", Host)
<1>1. "meeting" \notin Used /\ Used' = Used \cup {"meeting"}
      BY DEF Create, Used
<1>2. Owner' = [Owner EXCEPT !["meeting"] = Host]
      BY DEF Create, Owner
<1>3. Places' = Places
      BY DEF Create, Places
<1> QED BY <1>1, <1>2, <1>3 DEF Contract!Open, Owner, Places, Used

LEMMA DeleteRefines ==
    ASSUME AdmissionInv, Delete, meeting # "none"
    PROVE  Contract!Close("meeting") \/ UNCHANGED Contract!vars
<1>1. meeting' = "gone" /\ place' = [g \in Guest |-> "outside"]
      BY DEF Delete
<1>2. CASE meeting = "live"
  <2>1. Owner' = [Owner EXCEPT !["meeting"] = "nobody"] /\ Owner["meeting"] # "nobody"
        BY <1>1, <1>2, HostIsSomebody DEF Owner
  <2>2. Used' = Used
        BY <1>1, <1>2 DEF Used
  <2>3. Places' = [Places EXCEPT !["meeting"] = Contract!Nobody]
        BY <1>1 DEF Places, Contract!Nobody
  <2> QED BY <2>1, <2>2, <2>3 DEF Contract!Close, Contract!IsOpen, Owner, Places, Used
<1>3. CASE meeting = "gone"
  <2>1. place' = place
        BY <1>1, <1>3 DEF AdmissionInv, TypeOK, EmptyUnlessLive
  <2> QED BY <1>1, <1>3, <2>1, QuietRefines
<1> QED BY <1>2, <1>3 DEF AdmissionInv, TypeOK

\* A meeting that never was has no handler that would delete it.
NothingBeforeCreate == meeting = "none" => todo = {}

LEMMA NothingBefore ==
    ASSUME AdmissionInv, NothingBeforeCreate, [Next]_vars
    PROVE  NothingBeforeCreate'
<1>1. UNCHANGED <<meeting, todo>> => NothingBeforeCreate'
      BY DEF NothingBeforeCreate
<1>2. CASE Create \/ End
      BY <1>2 DEF Create, End, server, NothingBeforeCreate
<1>3. CASE Serve
      BY <1>3 DEF Serve, Tell, Farewell, Delete, server, NothingBeforeCreate
<1>4. ASSUME NEW g \in Guest, Admit(g) \/ Reject(g) \/ Remove(g)
      PROVE  NothingBeforeCreate'
      BY <1>4 DEF Admit, Reject, Remove, Decide, NothingBeforeCreate
<1>5. ASSUME NEW g \in Guest, Visit(g) \/ CloseTab(g) \/ ClickLeave(g) \/ Drop(g)
      PROVE  NothingBeforeCreate'
      BY <1>1, <1>5 DEF Visit, CloseTab, ClickLeave, Drop, server
<1>6. ASSUME NEW g \in Guest, Follow(g)
      PROVE  NothingBeforeCreate'
      BY <1>1, <1>6 DEF Follow, Join, Answer, Refusal, Leave, Dial, Register, OnOpen,
                        OnSocket, OnClose, server
<1> QED BY <1>1, <1>2, <1>3, <1>4, <1>5, <1>6 DEF Next, vars, server

LEMMA NextRefines ==
    AdmissionInv /\ NothingBeforeCreate /\ [Next]_vars
        => [Contract!Next]_(Contract!vars)
<1> SUFFICES ASSUME AdmissionInv, NothingBeforeCreate, [Next]_vars
             PROVE  Contract!Next \/ UNCHANGED Contract!vars
    OBVIOUS
<1> DEFINE Step(id) ==
        \/ Contract!Close(id)
        \/ \E u \in Guest \cup {Host} :
            \/ Contract!Open(id, u)
            \/ Contract!Knock(id, u)
            \/ Contract!Enter(id, u)
            \/ Contract!Admit(id, u)
            \/ Contract!Depart(id, u)
<1>1. Step("meeting") => Contract!Next
      BY DEF Contract!Next
<1>2. CASE Create
      BY <1>1, <1>2, CreateRefines
<1>3. CASE Serve
  <2>1. CASE Delete
    <3>1. meeting # "none"
          BY <2>1 DEF Delete, NothingBeforeCreate
    <3> QED BY <1>1, <2>1, <3>1, DeleteRefines
  <2>2. CASE Farewell \/ \E n \in Notice : Tell(n)
        BY <2>2, QuietRefines DEF Farewell, Tell, server
  <2> QED BY <1>3, <2>1, <2>2 DEF Serve
<1>4. ASSUME NEW g \in Guest, Admit(g)
      PROVE  Contract!Next
      BY <1>1, <1>4, AdmitRefines
<1>5. ASSUME NEW g \in Guest, Reject(g) \/ Remove(g) \/ Leave(g)
      PROVE  Contract!Next \/ UNCHANGED Contract!vars
  <2>1. meeting' = meeting
        BY <1>5 DEF Reject, Remove, Decide, Leave
  <2>2. PICK to : to \in {"outside", place[g]} /\ place' = [place EXCEPT ![g] = to]
    <3>1. CASE Reject(g) \/ Leave(g)
          BY <3>1 DEF Reject, Decide, Leave
    <3>2. CASE Remove(g)
          BY <3>2 DEF Remove, Decide
    <3> QED BY <1>5, <3>1, <3>2
  <2> QED BY <1>1, <2>1, <2>2, DepartRefines
<1>6. ASSUME NEW g \in Guest, NEW c \in Call, Join(g, c)
      PROVE  Contract!Next \/ UNCHANGED Contract!vars
      BY <1>1, <1>6, JoinRefines
<1>7. CASE End \/ UNCHANGED vars
      BY <1>7, QuietRefines DEF End, vars, server
<1>8. ASSUME NEW g \in Guest, Visit(g) \/ CloseTab(g) \/ ClickLeave(g) \/ Drop(g)
      PROVE  UNCHANGED Contract!vars
      BY <1>8, QuietRefines DEF Visit, CloseTab, ClickLeave, Drop, server
<1>9. ASSUME NEW g \in Guest, NEW c \in Call, Answer(g, c) \/ Refusal(g, c)
      PROVE  UNCHANGED Contract!vars
      BY <1>9, QuietRefines DEF Answer, Refusal, server
<1>10. ASSUME NEW g \in Guest,
              Dial(g) \/ Register(g) \/ OnOpen(g) \/ OnSocket(g) \/ OnClose(g)
       PROVE  UNCHANGED Contract!vars
      BY <1>10, QuietRefines DEF Dial, Register, OnOpen, OnSocket, OnClose, server
<1> HIDE DEF Step
<1> QED BY <1>2, <1>3, <1>4, <1>5, <1>6, <1>7, <1>8, <1>9, <1>10 DEF Next, Follow

LEMMA InitRefines == Init => Contract!Init
BY DEF Init, Contract!Init, Contract!Nobody

\* However late the requests of a page arrive, and however often it comes back,
\* the server lets nobody in but as the contract says.
THEOREM AdmissionRefinement == Spec => ImplementsLobby
<1>1. Init => NothingBeforeCreate
      BY DEF Init, NothingBeforeCreate
<1>2. Spec => []NothingBeforeCreate
  <2>1. AdmissionInv /\ NothingBeforeCreate /\ [Next]_vars => NothingBeforeCreate'
        BY NothingBefore
  <2> QED BY <1>1, <2>1, AdmissionInductive, PTL DEF Spec
<1> QED BY <1>2, InitRefines, NextRefines, AdmissionInductive, PTL
        DEF Spec, ImplementsLobby, Contract!Spec
=============================================================================
