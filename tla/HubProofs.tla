----------------------------- MODULE HubProofs -----------------------------
(***************************************************************************)
(* What Hub guarantees for every set of connections, users, rooms and calls *)
(* and every capacity of the send channel.                                  *)
(***************************************************************************)
EXTENDS Hub, TLAPS, SequenceTheorems

\* The map holds a connection under its own meeting, from register to the
\* critical section of unregister, and the channel is closed there and only there.
Registration ==
    /\ \A r \in Room : \A c \in rooms[r] :
            r = RoomOf[c] /\ reader[c] \in {"reading", "failing"}
    /\ \A c \in Conn : closed[c] => reader[c] \in {"closing", "done"}

\* While a call is in its loop nothing it has still to visit leaves the map,
\* because register and unregister wait for it.
Loops ==
    /\ \A n \in Call : pending[n] \subseteq Addressed(n)
    /\ \A n \in Call : stage[n] # "inside" => pending[n] = {}

HubInv == TypeOK /\ Registration /\ Loops /\ OnlyToAddressees

----------------------------------------------------------------------------
(* What a channel holds.                                                    *)

LEMMA ElementsOfAppend ==
    ASSUME NEW S, NEW s \in Seq(S), NEW e \in S
    PROVE  Elements(Append(s, e)) = Elements(s) \cup {e}
BY DEF Elements

LEMMA ElementsOfTail ==
    ASSUME NEW S, NEW s \in Seq(S), s # <<>>
    PROVE  Elements(Tail(s)) \subseteq Elements(s) /\ Head(s) \in Elements(s)
BY DEF Elements

LEMMA ElementsOfEmpty == Elements(<<>>) = {}
BY DEF Elements

----------------------------------------------------------------------------

LEMMA InitHubInv == Init => HubInv
<1> SUFFICES ASSUME Init PROVE HubInv
    OBVIOUS
<1>1. TypeOK
      BY BufSizeNat DEF Init, TypeOK, ReaderState, WriterState, LinkState, Stage
<1>2. Registration /\ Loops
      BY DEF Init, Registration, Loops
<1>3. OnlyToAddressees
      BY ElementsOfEmpty DEF Init, OnlyToAddressees
<1> QED BY <1>1, <1>2, <1>3 DEF HubInv

\* Steps of a connection's goroutines leave the calls alone.
LEMMA AddressingFrame ==
    ASSUME OnlyToAddressees, UNCHANGED <<queue, received>>
    PROVE  OnlyToAddressees'
BY DEF OnlyToAddressees

LEMMA LoopsFrame ==
    ASSUME Loops, UNCHANGED <<rooms, stage, pending>>
    PROVE  Loops'
BY DEF Loops, Addressed

LEMMA UpgradeKeeps ==
    ASSUME HubInv, NEW c \in Conn, Upgrade(c)
    PROVE  HubInv'
<1>1. /\ reader' = [reader EXCEPT ![c] = "upgraded"] /\ reader[c] = "none"
      /\ link' = [link EXCEPT ![c] = "up"]
      /\ UNCHANGED <<rooms, writer, closed, queue, received, stage, pending, before>>
      BY DEF Upgrade, callVars
<1>2. TypeOK'
      BY <1>1 DEF HubInv, TypeOK, ReaderState, LinkState
<1>3. Registration'
      BY <1>1 DEF HubInv, TypeOK, Registration
<1>4. Loops' /\ OnlyToAddressees'
      BY <1>1, AddressingFrame, LoopsFrame DEF HubInv
<1> QED BY <1>2, <1>3, <1>4 DEF HubInv

LEMMA RegisterKeeps ==
    ASSUME HubInv, NEW c \in Conn, Register(c)
    PROVE  HubInv'
<1>1. /\ reader' = [reader EXCEPT ![c] = "reading"] /\ reader[c] = "upgraded"
      /\ rooms' = [rooms EXCEPT ![RoomOf[c]] = @ \cup {c}]
      /\ writer' = [writer EXCEPT ![c] = "running"]
      /\ UNCHANGED <<link, closed, queue, received, stage, pending, before>>
      BY DEF Register, callVars
<1>2. TypeOK'
      BY <1>1, RoomOfType DEF HubInv, TypeOK, ReaderState, WriterState
<1>3. Registration'
  <2>1. ~closed[c]
        BY <1>1 DEF HubInv, Registration
  <2>2. reader'[c] = "reading" /\ \A d \in Conn : d # c => reader'[d] = reader[d]
        BY <1>1 DEF HubInv, TypeOK
  <2>3. \A d \in Conn : closed'[d] => reader'[d] \in {"closing", "done"}
        BY <1>1, <2>1, <2>2 DEF HubInv, Registration
  <2>4. /\ \A r \in Room : r # RoomOf[c] => rooms'[r] = rooms[r]
        /\ rooms'[RoomOf[c]] = rooms[RoomOf[c]] \cup {c}
        /\ \A r \in Room : rooms[r] \subseteq Conn
        BY <1>1, RoomOfType DEF HubInv, TypeOK
  <2>5. \A r \in Room : \A d \in rooms'[r] :
            r = RoomOf[d] /\ reader'[d] \in {"reading", "failing"}
        BY <2>2, <2>4, RoomOfType DEF HubInv, Registration
  <2> QED BY <2>3, <2>5 DEF Registration
<1>4. Loops'
      BY <1>1, TargetType DEF Register, Unlocked, HubInv, TypeOK, Loops
<1>5. OnlyToAddressees'
      BY <1>1, AddressingFrame DEF HubInv
<1> QED BY <1>2, <1>3, <1>4, <1>5 DEF HubInv

LEMMA ReadFailsKeeps ==
    ASSUME HubInv, NEW c \in Conn, ReadFails(c)
    PROVE  HubInv'
<1>1. /\ reader' = [reader EXCEPT ![c] = "failing"] /\ reader[c] = "reading"
      /\ UNCHANGED <<rooms, writer, link, closed, queue, received, stage, pending, before>>
      BY DEF ReadFails, callVars
<1>2. TypeOK'
      BY <1>1 DEF HubInv, TypeOK, ReaderState
<1>3. Registration'
      BY <1>1 DEF HubInv, TypeOK, Registration
<1>4. Loops' /\ OnlyToAddressees'
      BY <1>1, AddressingFrame, LoopsFrame DEF HubInv
<1> QED BY <1>2, <1>3, <1>4 DEF HubInv

LEMMA UnregisterKeeps ==
    ASSUME HubInv, NEW c \in Conn, Unregister(c)
    PROVE  HubInv'
<1>1. /\ reader' = [reader EXCEPT ![c] = "closing"] /\ reader[c] = "failing"
      /\ rooms' = [rooms EXCEPT ![RoomOf[c]] = @ \ {c}]
      /\ closed' = [closed EXCEPT ![c] = @ \/ c \in rooms[RoomOf[c]]]
      /\ UNCHANGED <<writer, link, queue, received, stage, pending, before>>
      BY DEF Unregister, callVars
<1>2. closed' \in [Conn -> BOOLEAN]
      BY <1>1, Zenon DEF HubInv, TypeOK
<1>3. TypeOK'
      BY <1>1, <1>2, RoomOfType DEF HubInv, TypeOK, ReaderState
<1>4. \A d \in Conn : d # c => closed'[d] = closed[d] /\ reader'[d] = reader[d]
      BY <1>1 DEF HubInv, TypeOK
<1>5. reader'[c] = "closing" /\ \A r \in Room : c \notin rooms'[r]
      BY <1>1, RoomOfType DEF HubInv, TypeOK, Registration
<1>6. \A r \in Room : rooms'[r] \subseteq rooms[r] /\ rooms[r] \subseteq Conn
      BY <1>1, RoomOfType DEF HubInv, TypeOK
<1>7. Registration'
      BY <1>4, <1>5, <1>6 DEF HubInv, Registration
<1>8. Loops'
      BY <1>1, TargetType DEF Unregister, Unlocked, HubInv, TypeOK, Loops
<1>9. OnlyToAddressees'
      BY <1>1, AddressingFrame DEF HubInv
<1> QED BY <1>3, <1>7, <1>8, <1>9 DEF HubInv

LEMMA CloseConnKeeps ==
    ASSUME HubInv, NEW c \in Conn, CloseConn(c)
    PROVE  HubInv'
<1>1. /\ reader' = [reader EXCEPT ![c] = "done"] /\ reader[c] = "closing"
      /\ link' = [link EXCEPT ![c] = "down"]
      /\ UNCHANGED <<rooms, writer, closed, queue, received, stage, pending, before>>
      BY DEF CloseConn, callVars
<1>2. TypeOK'
      BY <1>1 DEF HubInv, TypeOK, ReaderState, LinkState
<1>3. Registration'
      BY <1>1 DEF HubInv, TypeOK, Registration
<1>4. Loops' /\ OnlyToAddressees'
      BY <1>1, AddressingFrame, LoopsFrame DEF HubInv
<1> QED BY <1>2, <1>3, <1>4 DEF HubInv

LEMMA PeerGoneKeeps ==
    ASSUME HubInv, NEW c \in Conn, PeerGone(c)
    PROVE  HubInv'
<1>1. /\ link' = [link EXCEPT ![c] = "down"]
      /\ UNCHANGED <<rooms, reader, writer, closed, queue, received, stage, pending, before>>
      BY DEF PeerGone, callVars
<1>2. TypeOK'
      BY <1>1 DEF HubInv, TypeOK, LinkState
<1>3. Registration'
      BY <1>1 DEF HubInv, Registration
<1>4. Loops' /\ OnlyToAddressees'
      BY <1>1, AddressingFrame, LoopsFrame DEF HubInv
<1> QED BY <1>2, <1>3, <1>4 DEF HubInv

\* Taking the head of a channel, delivered or lost, keeps the rest addressed.
LEMMA TakingKeeps ==
    ASSUME HubInv, NEW c \in Conn, queue[c] # <<>>,
           queue' = [queue EXCEPT ![c] = Tail(@)],
           \/ received' = [received EXCEPT ![c] = Append(@, Head(queue[c]))]
           \/ received' = received
    PROVE  /\ queue' \in [Conn -> Seq(Call)]
           /\ \A d \in Conn : Len(queue'[d]) <= BufSize
           /\ received' \in [Conn -> Seq(Call)]
           /\ OnlyToAddressees'
<1> DEFINE rest == Tail(queue[c])
           more == Append(received[c], Head(queue[c]))
<1>1. /\ queue \in [Conn -> Seq(Call)] /\ received \in [Conn -> Seq(Call)]
      /\ Len(queue[c]) <= BufSize
      BY DEF HubInv, TypeOK
<1>2. /\ rest \in Seq(Call) /\ Len(rest) <= BufSize
      /\ Head(queue[c]) \in Call
      /\ more \in Seq(Call)
      BY <1>1, BufSizeNat
<1>3. /\ Elements(rest) \subseteq Elements(queue[c])
      /\ Elements(more) \subseteq Elements(received[c]) \cup Elements(queue[c])
  <2>1. Elements(rest) \subseteq Elements(queue[c]) /\ Head(queue[c]) \in Elements(queue[c])
        BY <1>1, ElementsOfTail
  <2>2. Elements(more) = Elements(received[c]) \cup {Head(queue[c])}
        BY <1>1, <1>2, ElementsOfAppend
  <2> QED BY <2>1, <2>2
<1>4. /\ queue' = [queue EXCEPT ![c] = rest]
      /\ received' = [received EXCEPT ![c] = more] \/ received' = received
      OBVIOUS
<1> HIDE DEF rest, more
<1>5. /\ queue' \in [Conn -> Seq(Call)]
      /\ received' \in [Conn -> Seq(Call)]
      /\ queue'[c] = rest
      /\ received'[c] \in {more, received[c]}
      /\ \A d \in Conn : d # c => queue'[d] = queue[d] /\ received'[d] = received[d]
      BY <1>1, <1>2, <1>4
<1>6. \A d \in Conn : Len(queue'[d]) <= BufSize
      BY <1>2, <1>5 DEF HubInv, TypeOK
<1>7. OnlyToAddressees'
      BY <1>3, <1>5 DEF HubInv, OnlyToAddressees
<1> QED BY <1>5, <1>6, <1>7

LEMMA WriteKeeps ==
    ASSUME HubInv, NEW c \in Conn, Write(c)
    PROVE  HubInv'
<1>1. /\ queue[c] # <<>>
      /\ queue' = [queue EXCEPT ![c] = Tail(@)]
      /\ UNCHANGED <<rooms, reader, writer, link, closed, stage, pending, before>>
      BY DEF Write, callVars, connVars
<1>2. \/ received' = [received EXCEPT ![c] = Append(@, Head(queue[c]))]
      \/ received' = received
      BY DEF Write, HubInv, TypeOK
<1>3. TypeOK' /\ OnlyToAddressees'
      BY <1>1, <1>2, TakingKeeps DEF HubInv, TypeOK
<1>4. Registration' /\ Loops'
      BY <1>1, LoopsFrame DEF HubInv, Registration
<1> QED BY <1>3, <1>4 DEF HubInv

LEMMA WriteFailsKeeps ==
    ASSUME HubInv, NEW c \in Conn, WriteFails(c)
    PROVE  HubInv'
<1>1. /\ writer' = [writer EXCEPT ![c] = "done"]
      /\ UNCHANGED <<rooms, reader, link, closed, received, stage, pending, before>>
      BY DEF WriteFails, callVars
<1>2. \/ queue' = queue
      \/ queue[c] # <<>> /\ queue' = [queue EXCEPT ![c] = Tail(@)]
      BY DEF WriteFails, HubInv, TypeOK
<1>3. writer' \in [Conn -> WriterState]
      BY <1>1 DEF HubInv, TypeOK, WriterState
<1>4. TypeOK' /\ OnlyToAddressees'
  <2>1. CASE queue' = queue
        BY <2>1, <1>1, <1>3, AddressingFrame DEF HubInv, TypeOK
  <2>2. CASE queue[c] # <<>> /\ queue' = [queue EXCEPT ![c] = Tail(@)]
        BY <2>2, <1>1, <1>3, TakingKeeps DEF HubInv, TypeOK
  <2> QED BY <1>2, <2>1, <2>2
<1>5. Registration' /\ Loops'
      BY <1>1, LoopsFrame DEF HubInv, Registration
<1> QED BY <1>4, <1>5 DEF HubInv

LEMMA WriteCloseKeeps ==
    ASSUME HubInv, NEW c \in Conn, WriteClose(c)
    PROVE  HubInv'
<1>1. /\ writer' = [writer EXCEPT ![c] = "done"]
      /\ UNCHANGED <<rooms, reader, link, closed, queue, received, stage, pending, before>>
      BY DEF WriteClose, callVars
<1>2. TypeOK'
      BY <1>1 DEF HubInv, TypeOK, WriterState
<1>3. Registration'
      BY <1>1 DEF HubInv, Registration
<1>4. Loops' /\ OnlyToAddressees'
      BY <1>1, AddressingFrame, LoopsFrame DEF HubInv
<1> QED BY <1>2, <1>3, <1>4 DEF HubInv

LEMMA BeginKeeps ==
    ASSUME HubInv, NEW n \in Call, Begin(n)
    PROVE  HubInv'
<1>1. /\ stage' = [stage EXCEPT ![n] = "inside"]
      /\ pending' = [pending EXCEPT ![n] = Addressed(n)]
      /\ before' = [before EXCEPT ![n] = Finished]
      /\ UNCHANGED <<rooms, reader, writer, link, closed, queue, received>>
      BY DEF Begin, connVars
<1>2. Addressed(n) \subseteq Conn /\ Finished \subseteq Call
      BY TargetType DEF HubInv, TypeOK, Addressed, Finished
<1>3. TypeOK'
      BY <1>1, <1>2 DEF HubInv, TypeOK, Stage
<1>4. Loops'
      BY <1>1 DEF HubInv, TypeOK, Loops, Addressed
<1>5. Registration' /\ OnlyToAddressees'
      BY <1>1, AddressingFrame DEF HubInv, Registration
<1> QED BY <1>3, <1>4, <1>5 DEF HubInv

LEMMA OfferKeeps ==
    ASSUME HubInv, NEW n \in Call, NEW c \in Conn, Offer(n, c)
    PROVE  HubInv'
<1> USE DEF HubInv, TypeOK
<1>1. /\ c \in pending[n]
      /\ queue' = [queue EXCEPT ![c] = Buffered(queue[c], n)]
      /\ pending' = [pending EXCEPT ![n] = @ \ {c}]
      /\ UNCHANGED <<rooms, reader, writer, link, closed, received, stage, before>>
      BY DEF Offer, connVars
<1>2. Target[n] = RoomOf[c] /\ To[n] \in {Everyone, UserOf[c]}
  <2>1. c \in rooms[Target[n]] /\ To[n] \in {Everyone, UserOf[c]}
        BY <1>1 DEF Loops, Addressed
  <2>2. Target[n] \in Room
        BY TargetType
  <2> QED BY <2>1, <2>2 DEF Registration
<1>3. /\ Buffered(queue[c], n) \in Seq(Call)
      /\ Len(Buffered(queue[c], n)) <= BufSize
      /\ Elements(Buffered(queue[c], n)) \subseteq Elements(queue[c]) \cup {n}
      BY BufSizeNat, ElementsOfAppend DEF Buffered
<1>4. pending' \in [Call -> SUBSET Conn]
      BY <1>1
<1>5. TypeOK'
      BY <1>1, <1>3, <1>4
<1>6. Loops'
      BY <1>1 DEF Loops, Addressed
<1>7. OnlyToAddressees'
      BY <1>1, <1>2, <1>3 DEF OnlyToAddressees
<1>8. Registration'
      BY <1>1 DEF Registration
<1> QED BY <1>5, <1>6, <1>7, <1>8

LEMMA FinishKeeps ==
    ASSUME HubInv, NEW n \in Call, Finish(n)
    PROVE  HubInv'
<1>1. /\ stage' = [stage EXCEPT ![n] = "done"] /\ pending[n] = {}
      /\ UNCHANGED <<rooms, reader, writer, link, closed, queue, received, pending, before>>
      BY DEF Finish, connVars
<1>2. TypeOK'
      BY <1>1 DEF HubInv, TypeOK, Stage
<1>3. Loops'
      BY <1>1 DEF HubInv, TypeOK, Loops, Addressed
<1>4. Registration' /\ OnlyToAddressees'
      BY <1>1, AddressingFrame DEF HubInv, Registration
<1> QED BY <1>2, <1>3, <1>4 DEF HubInv

LEMMA NextKeepsHubInv == HubInv /\ [Next]_vars => HubInv'
<1> SUFFICES ASSUME HubInv, [Next]_vars PROVE HubInv'
    OBVIOUS
<1>1. CASE UNCHANGED vars
      BY <1>1, AddressingFrame, LoopsFrame
         DEF vars, connVars, callVars, HubInv, TypeOK, Registration
<1>2. ASSUME NEW c \in Conn,
             \/ Upgrade(c) \/ Register(c) \/ ReadFails(c) \/ Unregister(c)
             \/ CloseConn(c) \/ Write(c) \/ WriteFails(c) \/ WriteClose(c)
             \/ PeerGone(c)
      PROVE  HubInv'
      BY <1>2, UpgradeKeeps, RegisterKeeps, ReadFailsKeeps, UnregisterKeeps,
         CloseConnKeeps, WriteKeeps, WriteFailsKeeps, WriteCloseKeeps, PeerGoneKeeps
<1>3. ASSUME NEW n \in Call,
             Begin(n) \/ Finish(n) \/ \E c \in Conn : Offer(n, c)
      PROVE  HubInv'
      BY <1>3, BeginKeeps, FinishKeeps, OfferKeeps
<1> QED BY <1>1, <1>2, <1>3 DEF Next

\* The inductive invariant of the hub.
THEOREM HubInductive == Spec => []HubInv
BY InitHubInv, NextKeepsHubInv, PTL DEF Spec

\* Every variable keeps its type; no channel holds more than its capacity.
THEOREM HubTypeCorrect == Spec => []TypeOK
<1>1. HubInv => TypeOK
      BY DEF HubInv
<1> QED BY <1>1, HubInductive, PTL

\* No call ever sends on a channel unregister has closed: the send of Broadcast
\* and SendTo cannot panic, for any number of connections and calls.
THEOREM NoPanickingSend == Spec => []NoSendOnClosedChannel
<1>1. HubInv => NoSendOnClosedChannel
  <2> SUFFICES ASSUME HubInv, NEW c \in Conn,
                      \/ \E r \in Room : c \in rooms[r]
                      \/ \E n \in Call : c \in pending[n]
               PROVE  ~closed[c]
      BY DEF NoSendOnClosedChannel
  <2>1. \E r \in Room : c \in rooms[r]
        BY TargetType DEF HubInv, Loops, Addressed
  <2>2. reader[c] \in {"reading", "failing"}
        BY <2>1 DEF HubInv, Registration
  <2> QED BY <2>2 DEF HubInv, Registration
<1> QED BY <1>1, HubInductive, PTL

\* An event is buffered for, and delivered to, its addressees' connections only.
THEOREM AddresseesOnly == Spec => []OnlyToAddressees
<1>1. HubInv => OnlyToAddressees
      BY DEF HubInv
<1> QED BY <1>1, HubInductive, PTL

----------------------------------------------------------------------------
(* Real-time order.                                                         *)

\* What a call is put into a stream by: it has begun, and it does not come back
\* to a connection it has visited.  What was over before a call stays over.
Visited ==
    /\ \A c \in Conn : \A n \in Elements(Stream(c)) :
            stage[n] # "idle" /\ c \notin pending[n]
    /\ \A n \in Call : before[n] \subseteq Finished

\* No event twice, and none after one that began when it was over.
Ordered(s, b) ==
    \A i, j \in 1..Len(s) : i < j => s[i] # s[j] /\ s[j] \notin b[s[i]]

OrderInv == Visited /\ \A c \in Conn : Ordered(Stream(c), before)

\* Taking the head of the channel leaves a part of the stream, in order.
LEMMA StreamWithoutHead ==
    ASSUME NEW r \in Seq(Call), NEW q \in Seq(Call), q # <<>>, NEW b
    PROVE  /\ Elements(r \o Tail(q)) \subseteq Elements(r \o q)
           /\ Ordered(r \o q, b) => Ordered(r \o Tail(q), b)
<1> DEFINE s == r \o q
           t == r \o Tail(q)
           at(i) == IF i <= Len(r) THEN i ELSE i + 1
<1>1. /\ Len(s) = Len(r) + Len(q) /\ Len(t) = Len(r) + Len(q) - 1
      /\ Len(r) \in Nat /\ Len(q) \in Nat /\ Len(q) > 0
      OBVIOUS
<1>2. ASSUME NEW i \in 1..Len(t)
      PROVE  at(i) \in 1..Len(s) /\ t[i] = s[at(i)]
  <2>1. CASE i <= Len(r)
        BY <1>1, <2>1
  <2>2. CASE i > Len(r)
    <3>1. t[i] = Tail(q)[i - Len(r)] /\ i - Len(r) \in 1..Len(Tail(q))
          BY <1>1, <2>2
    <3>2. Tail(q)[i - Len(r)] = q[i - Len(r) + 1]
          BY <3>1
    <3>3. s[i + 1] = q[i + 1 - Len(r)]
          BY <1>1, <2>2
    <3> QED BY <1>1, <2>2, <3>1, <3>2, <3>3
  <2> QED BY <1>1, <2>1, <2>2
<1>3. \A i, j \in 1..Len(t) : i < j => at(i) < at(j)
      BY <1>1
<1> HIDE DEF s, t, at
<1>4. Elements(t) \subseteq Elements(s)
      BY <1>2 DEF Elements
<1>5. Ordered(s, b) => Ordered(t, b)
      BY <1>2, <1>3 DEF Ordered
<1> QED BY <1>4, <1>5 DEF s, t

LEMMA StreamWithHeadMoved ==
    ASSUME NEW r \in Seq(Call), NEW q \in Seq(Call), q # <<>>
    PROVE  Append(r, Head(q)) \o Tail(q) = r \o q
<1> DEFINE s == r \o q
           t == Append(r, Head(q)) \o Tail(q)
<1>1. s \in Seq(Call) /\ t \in Seq(Call) /\ Len(t) = Len(s)
      OBVIOUS
<1>2. \A i \in 1..Len(s) : t[i] = s[i]
      OBVIOUS
<1> QED BY <1>1, <1>2, SeqEqual

\* An event that is not in the stream and was not over before any in it.
LEMMA StreamWithOneMore ==
    ASSUME NEW r \in Seq(Call), NEW q \in Seq(Call), NEW n \in Call, NEW b,
           Ordered(r \o q, b), n \notin Elements(r \o q),
           \A m \in Elements(r \o q) : n \notin b[m]
    PROVE  /\ Elements(r \o Append(q, n)) = Elements(r \o q) \cup {n}
           /\ Ordered(r \o Append(q, n), b)
<1> DEFINE s == r \o q
           t == r \o Append(q, n)
<1>1. /\ Len(s) = Len(r) + Len(q) /\ Len(t) = Len(s) + 1 /\ Len(s) \in Nat
      /\ \A i \in 1..Len(s) : t[i] = s[i]
      /\ t[Len(s) + 1] = n
      OBVIOUS
<1>2. /\ Ordered(s, b) /\ n \notin Elements(s)
      /\ \A m \in Elements(s) : n \notin b[m]
      OBVIOUS
<1> HIDE DEF s, t
<1>3. 1..Len(t) = 1..Len(s) \cup {Len(s) + 1}
      BY <1>1
<1>4. Elements(t) = Elements(s) \cup {n}
      BY <1>1, <1>3 DEF Elements
<1>5. \A i \in 1..Len(s) : s[i] # n /\ n \notin b[s[i]]
      BY <1>2 DEF Elements
<1>6. ASSUME NEW i \in 1..Len(t), NEW j \in 1..Len(t), i < j
      PROVE  t[i] # t[j] /\ t[j] \notin b[t[i]]
  <2>1. i \in 1..Len(s)
        BY <1>1, <1>6
  <2>2. CASE j \in 1..Len(s)
        BY <1>1, <1>2, <1>6, <2>1, <2>2 DEF Ordered
  <2>3. CASE j = Len(s) + 1
        BY <1>1, <1>5, <2>1, <2>3
  <2> QED BY <1>3, <2>2, <2>3
<1> QED BY <1>4, <1>6 DEF Ordered, s, t

----------------------------------------------------------------------------

LEMMA StreamType ==
    ASSUME TypeOK, NEW c \in Conn
    PROVE  /\ queue[c] \in Seq(Call) /\ received[c] \in Seq(Call)
           /\ Stream(c) \in Seq(Call) /\ Elements(Stream(c)) \subseteq Call
<1>1. queue[c] \in Seq(Call) /\ received[c] \in Seq(Call) /\ Stream(c) \in Seq(Call)
      BY DEF TypeOK, Stream
<1> QED BY <1>1 DEF Elements

\* Steps of the goroutines that touch neither streams nor calls.
LEMMA OrderFrame ==
    ASSUME OrderInv, UNCHANGED <<queue, received, callVars>>
    PROVE  OrderInv'
BY DEF OrderInv, Visited, Finished, Stream, callVars

\* A writer takes from one stream and adds to none.
LEMMA TakingOrder ==
    ASSUME TypeOK, OrderInv, NEW c \in Conn, UNCHANGED callVars,
           \A d \in Conn \ {c} : queue'[d] = queue[d] /\ received'[d] = received[d],
           Elements(Stream(c)') \subseteq Elements(Stream(c)),
           Ordered(Stream(c), before) => Ordered(Stream(c)', before)
    PROVE  OrderInv'
<1>1. \A d \in Conn \ {c} : Stream(d)' = Stream(d)
      BY DEF Stream
<1>2. \A d \in Conn : Elements(Stream(d)') \subseteq Elements(Stream(d))
      BY <1>1
<1>3. Visited'
      BY <1>2 DEF OrderInv, Visited, Finished, callVars
<1>4. \A d \in Conn : Ordered(Stream(d)', before)
      BY <1>1 DEF OrderInv
<1> QED BY <1>3, <1>4 DEF OrderInv, callVars

LEMMA WriteOrder ==
    ASSUME TypeOK, OrderInv, NEW c \in Conn, Write(c)
    PROVE  OrderInv'
<1>1. /\ queue[c] # <<>>
      /\ queue' = [queue EXCEPT ![c] = Tail(queue[c])]
      /\ received' = [received EXCEPT ![c] =
              IF link[c] = "up" THEN Append(received[c], Head(queue[c])) ELSE received[c]]
      /\ UNCHANGED callVars
      BY DEF Write
<1>2. queue[c] \in Seq(Call) /\ received[c] \in Seq(Call)
      BY StreamType
<1>3. /\ \A d \in Conn \ {c} : queue'[d] = queue[d] /\ received'[d] = received[d]
      /\ queue'[c] = Tail(queue[c])
      /\ received'[c] = IF link[c] = "up" THEN Append(received[c], Head(queue[c]))
                                          ELSE received[c]
      BY <1>1 DEF TypeOK
<1>4. /\ Elements(Stream(c)') \subseteq Elements(Stream(c))
      /\ Ordered(Stream(c), before) => Ordered(Stream(c)', before)
  <2>1. CASE link[c] = "up"
    <3>1. Stream(c)' = Append(received[c], Head(queue[c])) \o Tail(queue[c])
          BY <1>3, <2>1 DEF Stream
    <3>2. Append(received[c], Head(queue[c])) \o Tail(queue[c]) = Stream(c)
          BY <1>1, <1>2, StreamWithHeadMoved DEF Stream
    <3> QED BY <3>1, <3>2
  <2>2. CASE link[c] # "up"
    <3>1. Stream(c)' = received[c] \o Tail(queue[c])
          BY <1>3, <2>2 DEF Stream
    <3> QED BY <1>1, <1>2, <3>1, StreamWithoutHead DEF Stream
  <2> QED BY <2>1, <2>2
<1> QED BY <1>1, <1>3, <1>4, TakingOrder

LEMMA WriteFailsOrder ==
    ASSUME TypeOK, OrderInv, NEW c \in Conn, WriteFails(c)
    PROVE  OrderInv'
<1>1. /\ queue' = [queue EXCEPT ![c] = IF queue[c] = <<>> THEN queue[c] ELSE Tail(queue[c])]
      /\ UNCHANGED <<received, callVars>>
      BY DEF WriteFails
<1>2. queue[c] \in Seq(Call) /\ received[c] \in Seq(Call)
      BY StreamType
<1>3. CASE queue[c] = <<>>
  <2>1. queue' = queue
        BY <1>1, <1>3 DEF TypeOK
  <2> QED BY <1>1, <2>1, OrderFrame
<1>4. CASE queue[c] # <<>>
  <2>1. /\ \A d \in Conn \ {c} : queue'[d] = queue[d] /\ received'[d] = received[d]
        /\ Stream(c)' = received[c] \o Tail(queue[c])
        BY <1>1, <1>4 DEF TypeOK, Stream
  <2>2. /\ Elements(Stream(c)') \subseteq Elements(Stream(c))
        /\ Ordered(Stream(c), before) => Ordered(Stream(c)', before)
        BY <1>2, <1>4, <2>1, StreamWithoutHead DEF Stream
  <2> QED BY <1>1, <2>1, <2>2, TakingOrder
<1> QED BY <1>3, <1>4

LEMMA BeginOrder ==
    ASSUME TypeOK, OrderInv, NEW n \in Call, Begin(n)
    PROVE  OrderInv'
<1>1. /\ stage[n] = "idle"
      /\ stage' = [stage EXCEPT ![n] = "inside"]
      /\ pending' = [pending EXCEPT ![n] = Addressed(n)]
      /\ before' = [before EXCEPT ![n] = Finished]
      /\ UNCHANGED <<queue, received>>
      BY DEF Begin
<1>2. /\ stage'[n] = "inside" /\ before'[n] = Finished
      /\ \A m \in Call \ {n} : /\ stage'[m] = stage[m] /\ pending'[m] = pending[m]
                               /\ before'[m] = before[m]
      BY <1>1 DEF TypeOK
<1>3. \A c \in Conn : Stream(c)' = Stream(c) /\ Stream(c) \in Seq(Call)
      BY <1>1, StreamType DEF Stream
<1>4. \A c \in Conn : \A m \in Elements(Stream(c)) : m \in Call \ {n}
      BY <1>1, <1>3 DEF OrderInv, Visited, Elements
<1>5. Finished \subseteq Finished'
      BY <1>1, <1>2 DEF Finished
<1>6. Visited'
      BY <1>2, <1>3, <1>4, <1>5 DEF OrderInv, Visited
<1>7. ASSUME NEW c \in Conn
      PROVE  Ordered(Stream(c), before')
  <2>1. Ordered(Stream(c), before)
        BY DEF OrderInv
  <2>2. \A i \in 1..Len(Stream(c)) : before'[Stream(c)[i]] = before[Stream(c)[i]]
        BY <1>2, <1>4 DEF Elements
  <2> QED BY <2>1, <2>2 DEF Ordered
<1> QED BY <1>3, <1>6, <1>7 DEF OrderInv

LEMMA OfferOrder ==
    ASSUME TypeOK, Loops, OrderInv, NEW n \in Call, NEW c \in Conn, Offer(n, c)
    PROVE  OrderInv'
<1>1. /\ c \in pending[n]
      /\ queue' = [queue EXCEPT ![c] = Buffered(queue[c], n)]
      /\ pending' = [pending EXCEPT ![n] = pending[n] \ {c}]
      /\ UNCHANGED <<received, stage, before>>
      BY DEF Offer
<1>2. stage[n] = "inside"
      BY <1>1 DEF Loops
<1>3. queue[c] \in Seq(Call) /\ received[c] \in Seq(Call)
      BY StreamType
<1>4. /\ \A d \in Conn \ {c} : Stream(d)' = Stream(d)
      /\ Stream(c)' = received[c] \o Buffered(queue[c], n)
      BY <1>1 DEF TypeOK, Stream
<1>5. /\ n \notin Elements(Stream(c))
      /\ \A m \in Elements(Stream(c)) : n \notin before[m]
  <2>1. n \notin Elements(Stream(c))
        BY <1>1 DEF OrderInv, Visited
  <2>2. Elements(Stream(c)) \subseteq Call
        BY StreamType
  <2> QED BY <1>2, <2>1, <2>2 DEF OrderInv, Visited, Finished
<1>6. /\ Elements(Stream(c)') \subseteq Elements(Stream(c)) \cup {n}
      /\ Ordered(Stream(c)', before)
  <2>1. Ordered(received[c] \o queue[c], before)
        BY DEF OrderInv, Stream
  <2>2. CASE Buffered(queue[c], n) = Append(queue[c], n)
        BY <1>3, <1>4, <1>5, <2>1, <2>2, StreamWithOneMore DEF Stream
  <2>3. CASE Buffered(queue[c], n) = queue[c]
        BY <1>4, <2>1, <2>3 DEF Stream
  <2> QED BY <2>2, <2>3 DEF Buffered
<1>7. /\ pending'[n] = pending[n] \ {c}
      /\ \A m \in Call \ {n} : pending'[m] = pending[m]
      BY <1>1 DEF TypeOK
<1>8. \A d \in Conn : \A m \in Elements(Stream(d)) : m \in Call
      BY StreamType
<1>9. Visited'
  <2>1. \A m \in Call : before'[m] \subseteq Finished'
        BY <1>1 DEF OrderInv, Visited, Finished
  <2>2. ASSUME NEW d \in Conn, NEW m \in Elements(Stream(d)')
        PROVE  stage'[m] # "idle" /\ d \notin pending'[m]
    <3>1. CASE m \in Elements(Stream(d))
          BY <1>1, <1>7, <1>8, <3>1 DEF OrderInv, Visited
    <3>2. CASE m \notin Elements(Stream(d))
      <4>1. d = c /\ m = n
            BY <1>4, <1>6, <2>2, <3>2
      <4> QED BY <1>1, <1>2, <1>7, <4>1
    <3> QED BY <3>1, <3>2
  <2> QED BY <2>1, <2>2 DEF Visited
<1>10. \A d \in Conn : Ordered(Stream(d)', before)
      BY <1>4, <1>6 DEF OrderInv
<1> QED BY <1>1, <1>9, <1>10 DEF OrderInv

LEMMA FinishOrder ==
    ASSUME TypeOK, OrderInv, NEW n \in Call, Finish(n)
    PROVE  OrderInv'
<1>1. /\ stage[n] = "inside" /\ stage' = [stage EXCEPT ![n] = "done"]
      /\ UNCHANGED <<queue, received, pending, before>>
      BY DEF Finish
<1>2. stage'[n] = "done" /\ \A m \in Call \ {n} : stage'[m] = stage[m]
      BY <1>1 DEF TypeOK
<1>3. \A c \in Conn : Stream(c)' = Stream(c) /\ Elements(Stream(c)) \subseteq Call
  <2>1. \A c \in Conn : Stream(c)' = Stream(c)
        BY <1>1 DEF Stream
  <2> QED BY <2>1, StreamType
<1>4. Finished \subseteq Finished'
      BY <1>2 DEF Finished
<1>5. Visited'
      BY <1>1, <1>2, <1>3, <1>4 DEF OrderInv, Visited
<1> QED BY <1>1, <1>3, <1>5 DEF OrderInv

\* The events of calls that overlap may come in any order, those of others do not:
\* the read lock of hub.go orders nothing, but a call that is over has offered its
\* event to every connection it will reach.
THEOREM InRealTimeOrder == Spec => []RealTimeOrder
<1>1. Init => OrderInv
  <2> SUFFICES ASSUME Init PROVE OrderInv
      OBVIOUS
  <2>1. \A c \in Conn : Stream(c) = <<>>
        BY DEF Init, Stream
  <2>2. \A n \in Call : before[n] = {}
        BY DEF Init
  <2> QED BY <2>1, <2>2, ElementsOfEmpty DEF OrderInv, Visited, Ordered
<1>2. ASSUME HubInv, OrderInv, [Next]_vars
      PROVE  OrderInv'
  <2>1. TypeOK /\ Loops
        BY <1>2 DEF HubInv
  <2>2. CASE UNCHANGED vars
        BY <1>2, <2>2, OrderFrame DEF vars
  <2>3. ASSUME NEW c \in Conn,
               \/ Upgrade(c) \/ Register(c) \/ ReadFails(c) \/ Unregister(c)
               \/ CloseConn(c) \/ WriteClose(c) \/ PeerGone(c)
        PROVE  OrderInv'
    <3>1. UNCHANGED <<queue, received, callVars>>
          BY <2>3 DEF Upgrade, Register, ReadFails, Unregister, CloseConn, WriteClose,
                      PeerGone
    <3> QED BY <1>2, <3>1, OrderFrame
  <2>4. ASSUME NEW c \in Conn, Write(c) \/ WriteFails(c)
        PROVE  OrderInv'
        BY <1>2, <2>1, <2>4, WriteOrder, WriteFailsOrder
  <2>5. ASSUME NEW n \in Call, Begin(n) \/ Finish(n) \/ \E c \in Conn : Offer(n, c)
        PROVE  OrderInv'
        BY <1>2, <2>1, <2>5, BeginOrder, FinishOrder, OfferOrder
  <2> QED BY <1>2, <2>2, <2>3, <2>4, <2>5 DEF Next
<1>3. OrderInv => RealTimeOrder
      BY DEF OrderInv, Ordered, RealTimeOrder
<1> QED BY <1>1, <1>2, <1>3, HubInductive, PTL DEF Spec

----------------------------------------------------------------------------
(* The life of a connection.                                                *)

\* The map holds a connection exactly while it is read from, its channel is
\* closed once that is over, and before that nothing has been put on it.
Life ==
    \A c \in Conn :
        /\ reader[c] \in {"reading", "failing"} => c \in rooms[RoomOf[c]]
        /\ reader[c] \in {"closing", "done"} => closed[c]
        /\ reader[c] = "none" => link[c] = "none"
        /\ reader[c] \in {"none", "upgraded"} => writer[c] = "none" /\ queue[c] = <<>>

\* A step that concerns other connections only.
LifeOf(c) == <<reader[c], link[c], writer[c], queue[c], closed[c]>>

LEMMA LifeFrame ==
    ASSUME Life, NEW c \in Conn,
           \A d \in Conn \ {c} : LifeOf(d)' = LifeOf(d),
           \A d \in Conn \ {c} : d \in rooms[RoomOf[d]] => d \in rooms'[RoomOf[d]],
           /\ reader'[c] \in {"reading", "failing"} => c \in rooms'[RoomOf[c]]
           /\ reader'[c] \in {"closing", "done"} => closed'[c]
           /\ reader'[c] = "none" => link'[c] = "none"
           /\ reader'[c] \in {"none", "upgraded"} => writer'[c] = "none" /\ queue'[c] = <<>>
    PROVE  Life'
BY DEF Life, LifeOf

LEMMA ConnKeepsLife ==
    ASSUME HubInv, Life, NEW c \in Conn,
           \/ Upgrade(c) \/ Register(c) \/ ReadFails(c) \/ Unregister(c)
           \/ CloseConn(c) \/ Write(c) \/ WriteFails(c) \/ WriteClose(c)
           \/ PeerGone(c)
    PROVE  Life'
<1> USE DEF HubInv, TypeOK
<1>1. CASE Upgrade(c)
  <2>1. LifeOf(c)' = <<"upgraded", "up", writer[c], queue[c], closed[c]>>
        /\ reader[c] = "none" /\ rooms' = rooms
        /\ \A d \in Conn \ {c} : LifeOf(d)' = LifeOf(d)
        BY <1>1 DEF Upgrade, LifeOf
  <2> QED BY <2>1, LifeFrame DEF Life, LifeOf
<1>2. CASE Register(c)
  <2>1. LifeOf(c)' = <<"reading", link[c], "running", queue[c], closed[c]>>
        /\ \A d \in Conn \ {c} : LifeOf(d)' = LifeOf(d)
        BY <1>2 DEF Register, LifeOf
  <2>2. /\ c \in rooms'[RoomOf[c]]
        /\ \A d \in Conn : d \in rooms[RoomOf[d]] => d \in rooms'[RoomOf[d]]
        BY <1>2, RoomOfType DEF Register
  <2> QED BY <2>1, <2>2, LifeFrame DEF LifeOf
<1>3. CASE ReadFails(c)
  <2>1. LifeOf(c)' = <<"failing", link[c], writer[c], queue[c], closed[c]>>
        /\ reader[c] = "reading" /\ rooms' = rooms
        /\ \A d \in Conn \ {c} : LifeOf(d)' = LifeOf(d)
        BY <1>3 DEF ReadFails, LifeOf
  <2> QED BY <2>1, LifeFrame DEF Life, LifeOf
<1>4. CASE Unregister(c)
  <2>1. reader'[c] = "closing" /\ reader[c] = "failing"
        /\ UNCHANGED <<link, writer, queue>>
        /\ \A d \in Conn \ {c} : reader'[d] = reader[d] /\ closed'[d] = closed[d]
        BY <1>4 DEF Unregister
  <2>2. \A d \in Conn \ {c} : LifeOf(d)' = LifeOf(d)
        BY <2>1 DEF LifeOf
  <2>3. closed'[c] = (closed[c] \/ c \in rooms[RoomOf[c]])
        BY <1>4, Zenon DEF Unregister
  <2>4. closed'[c]
        BY <2>1, <2>3 DEF Life
  <2>5. \A d \in Conn \ {c} : d \in rooms[RoomOf[d]] => d \in rooms'[RoomOf[d]]
        BY <1>4, RoomOfType DEF Unregister
  <2> QED BY <2>1, <2>2, <2>4, <2>5, LifeFrame
<1>5. CASE CloseConn(c)
  <2>1. LifeOf(c)' = <<"done", "down", writer[c], queue[c], closed[c]>>
        /\ reader[c] = "closing" /\ rooms' = rooms
        /\ \A d \in Conn \ {c} : LifeOf(d)' = LifeOf(d)
        BY <1>5 DEF CloseConn, LifeOf
  <2> QED BY <2>1, LifeFrame DEF Life, LifeOf
<1>6. CASE Write(c) \/ WriteFails(c) \/ WriteClose(c)
  <2>1. /\ writer[c] = "running"
        /\ UNCHANGED <<rooms, reader, link, closed>>
        /\ \A d \in Conn \ {c} : writer'[d] = writer[d] /\ queue'[d] = queue[d]
        BY <1>6 DEF Write, WriteFails, WriteClose, connVars
  <2>2. \A d \in Conn \ {c} : LifeOf(d)' = LifeOf(d)
        BY <2>1 DEF LifeOf
  <2>3. reader[c] \notin {"none", "upgraded"}
        BY <2>1 DEF Life
  <2> QED BY <2>1, <2>2, <2>3, LifeFrame DEF Life
<1>7. CASE PeerGone(c)
  <2>1. LifeOf(c)' = <<reader[c], "down", writer[c], queue[c], closed[c]>>
        /\ link[c] = "up" /\ rooms' = rooms
        /\ \A d \in Conn \ {c} : LifeOf(d)' = LifeOf(d)
        BY <1>7 DEF PeerGone, LifeOf
  <2> QED BY <2>1, LifeFrame DEF Life, LifeOf
<1> QED BY <1>1, <1>2, <1>3, <1>4, <1>5, <1>6, <1>7

\* Only registered connections are offered events.
LEMMA PendingIsRegistered ==
    ASSUME HubInv, NEW n \in Call, NEW c \in pending[n]
    PROVE  reader[c] \in {"reading", "failing"}
<1>1. c \in rooms[Target[n]] /\ Target[n] \in Room
      BY TargetType DEF HubInv, Loops, Addressed
<1> QED BY <1>1 DEF HubInv, Registration

LEMMA CallKeepsLife ==
    ASSUME HubInv, Life, NEW n \in Call,
           Begin(n) \/ Finish(n) \/ \E c \in Conn : Offer(n, c)
    PROVE  Life'
<1>1. CASE Begin(n) \/ Finish(n)
      BY <1>1 DEF Begin, Finish, connVars, Life
<1>2. ASSUME NEW c \in Conn, Offer(n, c)
      PROVE  Life'
  <2>1. /\ reader[c] \in {"reading", "failing"}
        /\ UNCHANGED connVars
        /\ \A d \in Conn \ {c} : queue'[d] = queue[d]
        BY <1>2, PendingIsRegistered DEF Offer, HubInv, TypeOK
  <2> QED BY <2>1 DEF Life, connVars
<1> QED BY <1>1, <1>2

LEMMA NextKeepsLife == HubInv /\ Life /\ [Next]_vars => Life'
<1> SUFFICES ASSUME HubInv, Life, [Next]_vars PROVE Life'
    OBVIOUS
<1>1. CASE UNCHANGED vars
      BY <1>1 DEF vars, connVars, Life
<1> QED BY <1>1, ConnKeepsLife, CallKeepsLife DEF Next

\* Connections live in one order: in the map while they are read from, closed once
\* that is over, with nothing buffered before they were registered.
THEOREM Lives == Spec => []Life
<1>1. Init => Life
      BY DEF Init, Life
<1> QED BY <1>1, NextKeepsLife, HubInductive, PTL DEF Spec

\* The channel of every connection ends exactly once and with no send on it left:
\* neither Broadcast nor unregister can panic, and every writer learns that its
\* reader is gone.
THEOREM ChannelsEndOnce == Spec => []ChannelEndsOnce
<1>1. HubInv /\ Life => ClosedWhenLeft
      BY DEF HubInv, Registration, Life, ClosedWhenLeft
<1> QED BY <1>1, HubInductive, Lives, NoPanickingSend, PTL DEF ChannelEndsOnce

----------------------------------------------------------------------------
(* The hub implements Channel for every connection.                         *)

Phase(c) == IF ~Alive(c) THEN "none"
             ELSE CASE reader[c] = "upgraded"              -> "upgraded"
                    [] reader[c] \in {"reading", "failing"} -> "registered"
                    [] OTHER                                -> "leaving"

Wire(c) == IF Alive(c) THEN queue[c] ELSE <<>>

\* Channel, spelt out for the connection.
LEMMA ViewSteps ==
    ASSUME NEW c \in Conn,
           \/ Phase(c)' = Phase(c) /\ Wire(c)' = Wire(c)
           \/ Phase(c) = "none" /\ Phase(c)' = "upgraded" /\ Wire(c)' = Wire(c)
           \/ Phase(c) = "upgraded" /\ Phase(c)' = "registered" /\ Wire(c)' = Wire(c)
           \/ /\ Phase(c) = "registered" /\ Phase(c)' = Phase(c)
              /\ Len(Wire(c)) < BufSize
              /\ \E n \in Call : Wire(c)' = Append(Wire(c), n)
           \/ Wire(c) # <<>> /\ Wire(c)' = Tail(Wire(c)) /\ Phase(c)' = Phase(c)
           \/ Phase(c) = "registered" /\ Phase(c)' = "leaving" /\ Wire(c)' = Wire(c)
           \/ Phase(c)' = "none" /\ Wire(c)' = <<>>
    PROVE  UNCHANGED View(c)!vars \/ View(c)!Next
BY DEF Phase, Wire, View!vars, View!Next, View!Upgrade, View!Register, View!Put,
       View!Take, View!Quit, View!Break

\* What becomes of connections a step does not touch.
LEMMA ViewFrame ==
    ASSUME NEW c \in Conn, LifeOf(c)' = LifeOf(c)
    PROVE  UNCHANGED View(c)!vars \/ View(c)!Next
<1>1. Phase(c)' = Phase(c) /\ Wire(c)' = Wire(c)
      BY DEF LifeOf, Phase, Wire, Alive
<1> QED BY <1>1, ViewSteps

\* A connection that is dead after a step broke in it, or had before.
LEMMA ViewBreaks ==
    ASSUME NEW c \in Conn, ~Alive(c)'
    PROVE  UNCHANGED View(c)!vars \/ View(c)!Next
<1>1. Phase(c)' = "none" /\ Wire(c)' = <<>>
      BY DEF Phase, Wire
<1> QED BY <1>1, ViewSteps

LEMMA ConnRefines ==
    ASSUME HubInv, Life, NEW c \in Conn, NEW d \in Conn,
           \/ Upgrade(d) \/ Register(d) \/ ReadFails(d) \/ Unregister(d)
           \/ CloseConn(d) \/ Write(d) \/ WriteFails(d) \/ WriteClose(d)
           \/ PeerGone(d)
    PROVE  UNCHANGED View(c)!vars \/ View(c)!Next
<1> USE DEF HubInv, TypeOK
<1>1. CASE c # d
  <2>1. /\ reader'[c] = reader[c] /\ link'[c] = link[c] /\ writer'[c] = writer[c]
        /\ queue'[c] = queue[c] /\ closed'[c] = closed[c]
        BY <1>1 DEF Upgrade, Register, ReadFails, Unregister, CloseConn, Write,
                    WriteFails, WriteClose, PeerGone, connVars
  <2> QED BY <2>1, ViewFrame DEF LifeOf
<1>2. CASE c = d
  <2>1. CASE Upgrade(c)
    <3>1. /\ link'[c] = "up" /\ reader'[c] = "upgraded"
          /\ reader[c] = "none" /\ UNCHANGED <<writer, queue>>
          BY <2>1 DEF Upgrade
    <3>2. link[c] = "none" /\ writer[c] = "none" /\ queue[c] = <<>>
          BY <3>1 DEF Life
    <3>3. /\ Phase(c) = "none" /\ Phase(c)' = "upgraded"
          /\ Wire(c) = <<>> /\ Wire(c)' = <<>>
          BY <3>1, <3>2 DEF Phase, Wire, Alive
    <3> QED BY <3>3, ViewSteps
  <2>2. CASE Register(c)
    <3>1. /\ reader[c] = "upgraded" /\ reader'[c] = "reading" /\ writer'[c] = "running"
          /\ UNCHANGED <<link, queue>>
          BY <2>2 DEF Register
    <3>2. writer[c] = "none"
          BY <3>1 DEF Life
    <3>3. Alive(c)' <=> Alive(c)
          BY <3>1, <3>2 DEF Alive
    <3>4. CASE Alive(c)
      <4>1. /\ Phase(c) = "upgraded" /\ Phase(c)' = "registered"
            /\ Wire(c)' = Wire(c)
            BY <3>1, <3>3, <3>4 DEF Phase, Wire
      <4> QED BY <4>1, ViewSteps
    <3> QED BY <3>3, <3>4, ViewBreaks
  <2>3. CASE ReadFails(c)
    <3>1. /\ reader[c] = "reading" /\ reader'[c] = "failing"
          /\ UNCHANGED <<link, writer, queue>>
          BY <2>3 DEF ReadFails
    <3>2. Phase(c)' = Phase(c) /\ Wire(c)' = Wire(c)
          BY <3>1 DEF Phase, Wire, Alive
    <3> QED BY <3>2, ViewSteps
  <2>4. CASE Unregister(c)
    <3>1. /\ reader[c] = "failing" /\ reader'[c] = "closing"
          /\ UNCHANGED <<link, writer, queue>>
          BY <2>4 DEF Unregister
    <3>2. CASE Alive(c)
      <4>1. /\ Phase(c) = "registered" /\ Phase(c)' = "leaving"
            /\ Wire(c)' = Wire(c)
            BY <3>1, <3>2 DEF Phase, Wire, Alive
      <4> QED BY <4>1, ViewSteps
    <3>3. CASE ~Alive(c)
      <4>1. ~Alive(c)'
            BY <3>1, <3>3 DEF Alive
      <4> QED BY <4>1, ViewBreaks
    <3> QED BY <3>2, <3>3
  <2>5. CASE CloseConn(c) \/ WriteFails(c) \/ WriteClose(c) \/ PeerGone(c)
    <3>1. link'[c] = "down" \/ writer'[c] = "done"
          BY <2>5 DEF CloseConn, WriteFails, WriteClose, PeerGone
    <3>2. ~Alive(c)'
          BY <3>1 DEF Alive
    <3> QED BY <3>2, ViewBreaks
  <2>6. CASE Write(c)
    <3>1. /\ queue[c] # <<>> /\ queue'[c] = Tail(queue[c])
          /\ UNCHANGED <<reader, link, writer>>
          BY <2>6 DEF Write, connVars
    <3>2. Phase(c)' = Phase(c)
          BY <3>1 DEF Phase, Alive
    <3>3. CASE Alive(c)
      <4>1. Wire(c) # <<>> /\ Wire(c)' = Tail(Wire(c))
            BY <3>1, <3>3 DEF Wire, Alive
      <4> QED BY <4>1, <3>2, ViewSteps
    <3>4. CASE ~Alive(c)
      <4>1. ~Alive(c)'
            BY <3>1, <3>4 DEF Alive
      <4> QED BY <4>1, ViewBreaks
    <3> QED BY <3>3, <3>4
  <2> QED BY <1>2, <2>1, <2>2, <2>3, <2>4, <2>5, <2>6
<1> QED BY <1>1, <1>2

\* An event is put on a connection only between register and unregister: the loop
\* that offers it holds the lock under which it found the connection.
LEMMA CallRefines ==
    ASSUME HubInv, NEW c \in Conn, NEW n \in Call,
           Begin(n) \/ Finish(n) \/ \E d \in Conn : Offer(n, d)
    PROVE  UNCHANGED View(c)!vars \/ View(c)!Next
<1>1. CASE Begin(n) \/ Finish(n)
  <2>1. LifeOf(c)' = LifeOf(c)
        BY <1>1 DEF Begin, Finish, connVars, LifeOf
  <2> QED BY <2>1, ViewFrame
<1>2. ASSUME NEW d \in Conn, Offer(n, d)
      PROVE  UNCHANGED View(c)!vars \/ View(c)!Next
  <2>1. /\ d \in pending[n] /\ UNCHANGED <<reader, link, writer, closed>>
        /\ queue' = [queue EXCEPT ![d] = Buffered(queue[d], n)]
        BY <1>2 DEF Offer, connVars
  <2>2. Phase(c)' = Phase(c) /\ (Alive(c)' <=> Alive(c))
        BY <2>1 DEF Phase, Alive
  <2>3. CASE queue'[c] = queue[c]
    <3>1. Wire(c)' = Wire(c)
          BY <2>2, <2>3 DEF Wire
    <3> QED BY <2>2, <3>1, ViewSteps
  <2>4. CASE ~Alive(c)
        BY <2>2, <2>4, ViewBreaks
  <2>5. CASE queue'[c] # queue[c] /\ Alive(c)
    <3>1. c = d /\ queue'[c] = Append(queue[c], n) /\ Len(queue[c]) < BufSize
          BY <2>1, <2>5 DEF HubInv, TypeOK, Buffered
    <3>2. reader[c] \in {"reading", "failing"}
          BY <2>1, <3>1, PendingIsRegistered
    <3>3. /\ Phase(c) = "registered" /\ Len(Wire(c)) < BufSize
          /\ Wire(c)' = Append(Wire(c), n)
          BY <2>2, <2>5, <3>1, <3>2 DEF Phase, Wire
    <3> QED BY <2>2, <3>3, ViewSteps
  <2> QED BY <2>3, <2>4, <2>5
<1> QED BY <1>1, <1>2

LEMMA NextRefines ==
    ASSUME HubInv, Life, [Next]_vars, NEW c \in Conn
    PROVE  UNCHANGED View(c)!vars \/ View(c)!Next
<1>1. CASE UNCHANGED vars
  <2>1. LifeOf(c)' = LifeOf(c)
        BY <1>1 DEF vars, connVars, LifeOf
  <2> QED BY <2>1, ViewFrame
<1> QED BY <1>1, ConnRefines, CallRefines DEF Next

LEMMA InitRefines ==
    ASSUME Init, NEW c \in Conn
    PROVE  View(c)!Init
BY DEF Init, View!Init, Alive

\* The hub is a bounded, ordered channel for every connection, for any number of
\* rooms, connections and overlapping calls: what the modules of the pages assume
\* of it.
THEOREM HubImplementsChannel == Spec => ImplementsChannel
<1> DEFINE Steps == \A c \in Conn : UNCHANGED View(c)!vars \/ View(c)!Next
           Starts == \A c \in Conn : View(c)!Init
<1>1. Init => Starts
      BY InitRefines
<1>2. HubInv /\ Life /\ [Next]_vars => Steps
      BY NextRefines
<1>3. Steps => [Steps]_vars
      OBVIOUS
<1> HIDE DEF Steps, Starts
<1>4. Spec => Starts /\ [][Steps]_vars
      BY <1>1, <1>2, <1>3, HubInductive, Lives, PTL DEF Spec
<1> QED BY <1>4 DEF ImplementsChannel, Steps, Starts
=============================================================================
