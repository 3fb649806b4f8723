-------------------------------- MODULE Hub --------------------------------
(***************************************************************************)
(* The WebSocket hub of backend/internal/websocket/hub.go: connections that *)
(* come and go, each with a reader and a writer goroutine and a bounded     *)
(* send channel, and the Broadcast and SendTo calls of the API handlers.    *)
(*                                                                          *)
(* Broadcast and SendTo share the hub's read lock, so several calls can be  *)
(* inside their loops at once and a connection may see their events in any  *)
(* order; register and unregister take the write lock and run only when no  *)
(* call is inside.  A call is one action to take the lock, one per          *)
(* connection it offers its event to, and one to release it.                *)
(*                                                                          *)
(* Abstractions: an event is named by the call that sends it, and its room  *)
(* and addressee are fixed with it; the refusals of ServeHTTP before the    *)
(* upgrade leave no state and are left out; a deadline is an event that may *)
(* happen, not a clock.                                                     *)
(***************************************************************************)
EXTENDS Integers, Sequences, FiniteSets

CONSTANTS
    Conn,       \* upgraded connections (Client values)
    User,       \* users
    Room,       \* meeting ids
    Call,       \* calls of Broadcast and SendTo, each made at most once
    Everyone,   \* the addressee of a Broadcast
    BufSize,    \* capacity of Client.send: 32 in ServeHTTP
    UserOf,     \* Client.userID
    RoomOf,     \* Client.meetingID
    Target,     \* the room of a call
    To          \* the addressee of a call

ASSUME BufSizeNat == BufSize \in Nat
ASSUME UserOfType == UserOf \in [Conn -> User]
ASSUME RoomOfType == RoomOf \in [Conn -> Room]
ASSUME EveryoneIsNobody == Everyone \notin User
ASSUME TargetType == Target \in [Call -> Room]
ASSUME ToType == To \in [Call -> User \cup {Everyone}]

VARIABLES
    rooms,      \* Hub.rooms; a room the map does not hold is empty
    reader,     \* reader[c]: where ServeHTTP and readPump of c stand
    writer,     \* writer[c]: whether writePump of c runs
    link,       \* link[c]: the TCP connection under c
    queue,      \* queue[c]: what is buffered in Client.send
    closed,     \* closed[c]: close(c.send) was called
    received,   \* received[c]: what writePump put on the wire, in order
    stage,      \* stage[n]: whether call n is yet to come, in its loop or over
    pending,    \* pending[n]: the connections its loop has still to visit
    before      \* history: the calls that were over when n took the lock

connVars == <<rooms, reader, writer, link, closed>>
callVars == <<stage, pending, before>>
vars == <<connVars, queue, received, callVars>>

\* "upgraded": 101 is sent, register not yet called; "failing": readPump broke
\* out of its loop; "closing": unregister has released the lock.
ReaderState == {"none", "upgraded", "reading", "failing", "closing", "done"}
WriterState == {"none", "running", "done"}
LinkState   == {"none", "up", "down"}
Stage       == {"idle", "inside", "done"}

\* No call holds the read lock: the write lock can be taken.
Unlocked == \A n \in Call : stage[n] # "inside"

----------------------------------------------------------------------------

Init ==
    /\ rooms = [r \in Room |-> {}]
    /\ reader = [c \in Conn |-> "none"]
    /\ writer = [c \in Conn |-> "none"]
    /\ link = [c \in Conn |-> "none"]
    /\ queue = [c \in Conn |-> <<>>]
    /\ closed = [c \in Conn |-> FALSE]
    /\ received = [c \in Conn |-> <<>>]
    /\ stage = [n \in Call |-> "idle"]
    /\ pending = [n \in Call |-> {}]
    /\ before = [n \in Call |-> {}]

\* ServeHTTP: the client is told the socket is open before it is registered.
Upgrade(c) ==
    /\ reader[c] = "none"
    /\ reader' = [reader EXCEPT ![c] = "upgraded"]
    /\ link' = [link EXCEPT ![c] = "up"]
    /\ UNCHANGED <<rooms, writer, closed, queue, received, callVars>>

\* Mutant: the writer goroutine is never started.
RegisterMute(c) ==
    /\ reader[c] = "upgraded"
    /\ Unlocked
    /\ rooms' = [rooms EXCEPT ![RoomOf[c]] = @ \cup {c}]
    /\ reader' = [reader EXCEPT ![c] = "reading"]
    /\ UNCHANGED <<writer, link, closed, queue, received, callVars>>

\* register, then `go writePump` and readPump.
Register(c) ==
    /\ reader[c] = "upgraded"
    /\ Unlocked
    /\ rooms' = [rooms EXCEPT ![RoomOf[c]] = @ \cup {c}]
    /\ reader' = [reader EXCEPT ![c] = "reading"]
    /\ writer' = [writer EXCEPT ![c] = "running"]
    /\ UNCHANGED <<link, closed, queue, received, callVars>>

\* readPump leaves its loop: the peer is gone, it sent something unreadable, or
\* no pong came for 60 s.
ReadFails(c) ==
    /\ reader[c] = "reading"
    /\ reader' = [reader EXCEPT ![c] = "failing"]
    /\ UNCHANGED <<rooms, writer, link, closed, queue, received, callVars>>

\* Mutant: the channel is closed without waiting for the calls in their loops.
UnregisterUnlocked(c) ==
    /\ reader[c] = "failing"
    /\ rooms' = [rooms EXCEPT ![RoomOf[c]] = @ \ {c}]
    /\ closed' = [closed EXCEPT ![c] = @ \/ c \in rooms[RoomOf[c]]]
    /\ reader' = [reader EXCEPT ![c] = "closing"]
    /\ UNCHANGED <<writer, link, queue, received, callVars>>

\* The part of unregister under the write lock.
Unregister(c) ==
    /\ reader[c] = "failing"
    /\ Unlocked
    /\ rooms' = [rooms EXCEPT ![RoomOf[c]] = @ \ {c}]
    /\ closed' = [closed EXCEPT ![c] = @ \/ c \in rooms[RoomOf[c]]]
    /\ reader' = [reader EXCEPT ![c] = "closing"]
    /\ UNCHANGED <<writer, link, queue, received, callVars>>

\* conn.Close, outside the lock.
CloseConn(c) ==
    /\ reader[c] = "closing"
    /\ reader' = [reader EXCEPT ![c] = "done"]
    /\ link' = [link EXCEPT ![c] = "down"]
    /\ UNCHANGED <<rooms, writer, closed, queue, received, callVars>>

----------------------------------------------------------------------------

\* Mutant: SendTo reaches the whole room.
AddressedRoom(n) == rooms[Target[n]]

\* The connections a call offers its event to: those of the room, or in it
\* those of one user.
Addressed(n) ==
    {c \in rooms[Target[n]] : To[n] \in {Everyone, UserOf[c]}}

Finished == {n \in Call : stage[n] = "done"}

Begin(n) ==
    /\ stage[n] = "idle"
    /\ stage' = [stage EXCEPT ![n] = "inside"]
    /\ pending' = [pending EXCEPT ![n] = Addressed(n)]
    /\ before' = [before EXCEPT ![n] = Finished]
    /\ UNCHANGED <<connVars, queue, received>>

\* Mutant: the channel grows instead of dropping.
Unbounded(q, n) == Append(q, n)

\* The select with a default: an event for a full channel is dropped.
Buffered(q, n) == IF Len(q) < BufSize THEN Append(q, n) ELSE q

Offer(n, c) ==
    /\ c \in pending[n]
    /\ queue' = [queue EXCEPT ![c] = Buffered(@, n)]
    /\ pending' = [pending EXCEPT ![n] = @ \ {c}]
    /\ UNCHANGED <<connVars, received, stage, before>>

\* Mutant: the loop runs in a goroutine of its own and the call returns at once.
FinishEarly(n) ==
    /\ stage[n] = "inside"
    /\ stage' = [stage EXCEPT ![n] = "done"]
    /\ UNCHANGED <<connVars, queue, received, pending, before>>

Finish(n) ==
    /\ stage[n] = "inside"
    /\ pending[n] = {}
    /\ stage' = [stage EXCEPT ![n] = "done"]
    /\ UNCHANGED <<connVars, queue, received, pending, before>>

----------------------------------------------------------------------------

\* writePump writes the next event; over a dead link it may not notice yet.
Write(c) ==
    /\ writer[c] = "running"
    /\ queue[c] # <<>>
    /\ queue' = [queue EXCEPT ![c] = Tail(@)]
    /\ received' = [received EXCEPT ![c] =
            IF link[c] = "up" THEN Append(@, Head(queue[c])) ELSE @]
    /\ UNCHANGED <<connVars, callVars>>

\* A write of an event or a ping errs or exceeds its 10 s deadline: writePump
\* returns, the event it took is lost and the connection stays registered.
WriteFails(c) ==
    /\ writer[c] = "running"
    /\ writer' = [writer EXCEPT ![c] = "done"]
    /\ queue' = [queue EXCEPT ![c] = IF @ = <<>> THEN @ ELSE Tail(@)]
    /\ UNCHANGED <<rooms, reader, link, closed, received, callVars>>

\* The closed channel is empty: a close frame is tried and writePump returns.
WriteClose(c) ==
    /\ writer[c] = "running"
    /\ closed[c]
    /\ queue[c] = <<>>
    /\ writer' = [writer EXCEPT ![c] = "done"]
    /\ UNCHANGED <<rooms, reader, link, closed, queue, received, callVars>>

\* The peer closes the tab, crashes, or the network loses it.
PeerGone(c) ==
    /\ link[c] = "up"
    /\ link' = [link EXCEPT ![c] = "down"]
    /\ UNCHANGED <<rooms, reader, writer, closed, queue, received, callVars>>

----------------------------------------------------------------------------

Next ==
    \/ \E c \in Conn :
        \/ Upgrade(c)
        \/ Register(c)
        \/ ReadFails(c)
        \/ Unregister(c)
        \/ CloseConn(c)
        \/ Write(c)
        \/ WriteFails(c)
        \/ WriteClose(c)
        \/ PeerGone(c)
    \/ \E n \in Call :
        \/ Begin(n)
        \/ Finish(n)
        \/ \E c \in Conn : Offer(n, c)

Spec == Init /\ [][Next]_vars

\* Mutant: no read deadline is set.
ReadDeadlineUnset(c) == link[c] = "down" /\ ReadFails(c)

\* When the read of a connection must end: its link is gone, or its writer is,
\* and then no ping is sent, no pong comes and the 60 s deadline passes (only
\* the pong handler extends it).
ReadDeadline(c) == (link[c] = "down" \/ writer[c] = "done") /\ ReadFails(c)

\* When a write must end in an error: pings go out every 25 s over a dead link.
WriteDeadline(c) == link[c] = "down" /\ WriteFails(c)

\* What the goroutines of a connection and of a call do unless they block.
ReaderRuns(c) == Register(c) \/ ReadDeadline(c) \/ Unregister(c) \/ CloseConn(c)
WriterRuns(c) == Write(c) \/ WriteDeadline(c) \/ WriteClose(c)
CallRuns(n)   == Finish(n) \/ \E c \in Conn : Offer(n, c)

\* Goroutines that can run do, and a waiting writer of the lock gets it:
\* sync.RWMutex admits no new reader while a writer waits.  A call takes no
\* step that can block; as each is made once, it is enough that one of those
\* under way goes on.  Nothing obliges a client to connect or to leave, nor a
\* handler to call.
FairSpec ==
    /\ Spec
    /\ \A c \in Conn : WF_vars(ReaderRuns(c)) /\ WF_vars(WriterRuns(c))
    /\ WF_vars(\E n \in Call : CallRuns(n))

----------------------------------------------------------------------------

\* Type invariant: the hub's map, the goroutines of each connection, its send
\* channel within its capacity, and the calls.
TypeOK ==
    /\ rooms \in [Room -> SUBSET Conn]
    /\ reader \in [Conn -> ReaderState]
    /\ writer \in [Conn -> WriterState]
    /\ link \in [Conn -> LinkState]
    /\ queue \in [Conn -> Seq(Call)]
    /\ \A c \in Conn : Len(queue[c]) <= BufSize
    /\ closed \in [Conn -> BOOLEAN]
    /\ received \in [Conn -> Seq(Call)]
    /\ stage \in [Call -> Stage]
    /\ pending \in [Call -> SUBSET Conn]
    /\ before \in [Call -> SUBSET Call]

\* A channel is closed only when no call can send on it any more (a send on a
\* closed channel panics): whatever a call in its loop has still to visit, and
\* whatever a later call will find in the map, is open.
NoSendOnClosedChannel ==
    \A c \in Conn :
        (\/ \E r \in Room : c \in rooms[r]
         \/ \E n \in Call : c \in pending[n]) => ~closed[c]

\* The channel of a connection is closed by its unregister and by nothing else:
\* never twice (which panics), and always, or its writer would wait for ever.
ClosedWhenLeft ==
    \A c \in Conn : closed[c] <=> reader[c] \in {"closing", "done"}

\* How a channel ends: once, and when no call can send on it any more.
ChannelEndsOnce == NoSendOnClosedChannel /\ ClosedWhenLeft

Elements(s) == {s[i] : i \in 1..Len(s)}

\* An event reaches only connections of its meeting, and one sent to a user only
\* that user's (README.md: private messages are delivered only to their sender
\* and recipient).
OnlyToAddressees ==
    \A c \in Conn : \A n \in Elements(received[c]) \cup Elements(queue[c]) :
        /\ Target[n] = RoomOf[c]
        /\ To[n] \in {Everyone, UserOf[c]}

\* Calls that overlap may be seen in any order, but an event is never seen
\* twice, nor after one whose call began when its own was already over.
Stream(c) == received[c] \o queue[c]

RealTimeOrder ==
    \A c \in Conn : \A i, j \in 1..Len(Stream(c)) :
        i < j => /\ Stream(c)[i] # Stream(c)[j]
                 /\ Stream(c)[j] \notin before[Stream(c)[i]]

\* Whether a client can still get anything on c.
Alive(c) == link[c] = "up" /\ writer[c] # "done"

\* A connection as its client sees it: a dead peer or writer ends it at once,
\* however long the server keeps it.
View(c) == INSTANCE Channel WITH
    Event <- Call,
    state <- IF ~Alive(c) THEN "none"
             ELSE CASE reader[c] = "upgraded"              -> "upgraded"
                    [] reader[c] \in {"reading", "failing"} -> "registered"
                    [] OTHER                                -> "leaving",
    wire  <- IF Alive(c) THEN queue[c] ELSE <<>>

\* Rooms, locks, loops and pumps implement Channel for every connection: only
\* calls that found it in the map put on it, nothing is put on it before
\* register or after unregister, and nothing comes after a break.
ImplementsChannel ==
    /\ \A c \in Conn : View(c)!Init
    /\ [][\A c \in Conn : UNCHANGED View(c)!vars \/ View(c)!Next]_vars

\* No goroutine outlives its connection: once the link is gone or the writer has
\* given up, the reader unregisters, closes, and the writer stops.
NoLeakedPumps ==
    \A c \in Conn :
        (reader[c] # "none" /\ (link[c] = "down" \/ writer[c] = "done"))
            ~> (reader[c] = "done" /\ writer[c] = "done")

\* A channel that holds events is drained onto the wire, whatever is sent
\* meanwhile, unless the connection ends first.
BufferedIsWritten ==
    \A c \in Conn :
        queue[c] # <<>>
            ~> \/ queue[c] = <<>> /\ received[c] # <<>>
               \/ link[c] = "down" \/ writer[c] = "done"
=============================================================================
