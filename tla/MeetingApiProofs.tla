-------------------------- MODULE MeetingApiProofs --------------------------
(***************************************************************************)
(* What MeetingApi guarantees for every set of users, ids and request       *)
(* goroutines and every capacity.  One inductive invariant, IInv, relates   *)
(* the store, the clones the handlers hold and the point each handler has   *)
(* reached; the safety properties and the refinement of Lobby follow.       *)
(***************************************************************************)
EXTENDS MeetingApi, TLAPS, FiniteSetTheorems

\* A meeting record of id, in the store or cloned out of it, when the pairs in
\* adm have been admitted.
GoodMeeting(id, m, adm) ==
    /\ m \in Meeting
    /\ m.participants \cap m.waiting = {}
    /\ m.host \notin m.waiting
    /\ \A u \in m.participants : u = m.host \/ <<id, u>> \in adm
    /\ m.state = "waiting" => m.participants = {}
    /\ Cardinality(Seats(m)) <= Capacity

\* What a handler may rely on at each point of its code.
HandlerOK(j) ==
    /\ j.pc # "done" => j.snap # NoMeeting
    /\ j.snap # NoMeeting => j.id \in created /\ GoodMeeting(j.id, j.snap, admitted)
    /\ (j.pc = "token" \/ j.reply = "admitted") =>
            j.snap # NoMeeting /\ j.user \in j.snap.participants
    /\ j.pc \in {"farewell", "delete", "sweep"} => j.op \in {"leave", "end"}
    /\ (j.pc = "farewell" /\ j.op = "leave") => j.id \notin Live
    /\ (j.pc = "delete" /\ j.op = "end") => j.id \in announced
    /\ j.pc = "sweep" => j.id \in announced \ Live

StoreInv == \A id \in Live : GoodMeeting(id, meetings[id], admitted)

HandlerInv == \A t \in Thread : job[t] # NoJob => HandlerOK(job[t])

HistoryInv ==
    /\ Live \subseteq created
    /\ announced \subseteq created
    /\ swept \subseteq announced \ Live

IInv == TypeOK /\ StoreInv /\ HandlerInv /\ HistoryInv

----------------------------------------------------------------------------
(* The updates the handlers run under the store's lock.                     *)

\* Everything in the store is finite.
LEMMA SeatsFinite ==
    ASSUME NEW m \in Meeting
    PROVE  /\ IsFiniteSet(m.participants)
           /\ IsFiniteSet(m.waiting)
           /\ IsFiniteSet(Seats(m))
           /\ Cardinality(m.participants) \in Nat
           /\ Cardinality(m.waiting) \in Nat
           /\ Cardinality(Seats(m)) \in Nat
<1>1. m.participants \in SUBSET User /\ m.waiting \in SUBSET User
      BY DEF Meeting
<1>2. Seats(m) \in SUBSET User
      BY <1>1 DEF Seats
<1>3. IsFiniteSet(m.participants) /\ IsFiniteSet(m.waiting) /\ IsFiniteSet(Seats(m))
      BY <1>1, <1>2, UsersFinite, FS_Subset
<1> QED BY <1>3, FS_CardinalityType

\* Below the cap there is a seat: the people inside and the people waiting are
\* disjoint, so the sum join computes is the number of seats taken.
LEMMA NotFullLeavesASeat ==
    ASSUME NEW m \in Meeting, m.participants \cap m.waiting = {}, ~IsFull(m)
    PROVE  Cardinality(Seats(m)) < Capacity
<1>1. Cardinality(Seats(m)) = Cardinality(m.participants) + Cardinality(m.waiting)
                              - Cardinality(m.participants \cap m.waiting)
      BY SeatsFinite, FS_Union DEF Seats
<1>2. Cardinality(m.participants \cap m.waiting) = 0
      BY FS_EmptySet
<1> QED BY <1>1, <1>2, SeatsFinite, CapacityPositive DEF IsFull

LEMMA OneMoreSeat ==
    ASSUME NEW m \in Meeting, NEW n \in Meeting, NEW u,
           Seats(n) = Seats(m) \cup {u},
           Cardinality(Seats(m)) < Capacity
    PROVE  Cardinality(Seats(n)) <= Capacity
<1>1. IsFiniteSet(Seats(m)) /\ Cardinality(Seats(m)) \in Nat
      BY SeatsFinite
<1>2. \/ Cardinality(Seats(n)) = Cardinality(Seats(m))
      \/ Cardinality(Seats(n)) = Cardinality(Seats(m)) + 1
      BY <1>1, FS_AddElement
<1> QED BY <1>1, <1>2, CapacityPositive

LEMMA SeatedIsGood ==
    ASSUME NEW id, NEW adm, NEW m, NEW u \in User,
           GoodMeeting(id, m, adm), ~IsFull(m)
    PROVE  GoodMeeting(id, Seated(m, u), adm)
<1>1. m \in Meeting /\ m.participants \cap m.waiting = {}
      BY DEF GoodMeeting
<1>2. CASE u = m.host
  <2> DEFINE n == [m EXCEPT !.participants = @ \cup {u}, !.state = "active"]
  <2>1. Seated(m, u) = n
        BY <1>2 DEF Seated
  <2>2. n \in Meeting
        BY <1>1 DEF Meeting, MeetingState
  <2>3. /\ n.participants = m.participants \cup {u}
        /\ n.waiting = m.waiting
        /\ n.host = m.host
        /\ n.state = "active"
        BY <1>1 DEF Meeting
  <2> HIDE DEF n
  <2>4. Seats(n) = Seats(m) \cup {u}
        BY <2>3 DEF Seats
  <2>5. Cardinality(Seats(n)) <= Capacity
        BY <2>2, <2>4, <1>1, NotFullLeavesASeat, OneMoreSeat
  <2> QED BY <2>1, <2>2, <2>3, <2>5, <1>2 DEF GoodMeeting
<1>3. CASE u # m.host /\ u \in m.participants
      BY <1>3 DEF Seated
<1>4. CASE u # m.host /\ u \notin m.participants
  <2> DEFINE n == [m EXCEPT !.waiting = @ \cup {u}]
  <2>1. Seated(m, u) = n
        BY <1>4 DEF Seated
  <2>2. n \in Meeting
        BY <1>1 DEF Meeting
  <2>3. /\ n.participants = m.participants
        /\ n.waiting = m.waiting \cup {u}
        /\ n.host = m.host
        /\ n.state = m.state
        BY <1>1 DEF Meeting
  <2> HIDE DEF n
  <2>4. Seats(n) = Seats(m) \cup {u}
        BY <2>3 DEF Seats
  <2>5. Cardinality(Seats(n)) <= Capacity
        BY <2>2, <2>4, <1>1, NotFullLeavesASeat, OneMoreSeat
  <2> QED BY <2>1, <2>2, <2>3, <2>5, <1>4 DEF GoodMeeting
<1> QED BY <1>2, <1>3, <1>4

\* An admission moves a person from one seat to the other.
LEMMA AdmittedIsGood ==
    ASSUME NEW id, NEW adm, NEW m, NEW v \in User,
           GoodMeeting(id, m, adm), v \in m.waiting
    PROVE  GoodMeeting(id, Admitted(m, v), adm \cup {<<id, v>>})
<1> DEFINE n == Admitted(m, v)
<1>1. m \in Meeting
      BY DEF GoodMeeting
<1>2. n \in Meeting
      BY <1>1 DEF Admitted, Meeting, MeetingState
<1>3. /\ n.participants = m.participants \cup {v}
      /\ n.waiting = m.waiting \ {v}
      /\ n.host = m.host
      /\ n.state = "active"
      BY <1>1 DEF Admitted, Meeting
<1> HIDE DEF n
<1>4. Seats(n) = Seats(m)
      BY <1>3 DEF Seats, GoodMeeting
<1> QED BY <1>2, <1>3, <1>4 DEF GoodMeeting, n

\* Taking people away, whatever else happens to the state, keeps a meeting good.
LEMMA ShrunkIsGood ==
    ASSUME NEW id, NEW adm, NEW m, NEW n \in Meeting,
           GoodMeeting(id, m, adm),
           n.host = m.host,
           n.participants \subseteq m.participants,
           n.waiting \subseteq m.waiting,
           n.state = "waiting" => m.state = "waiting"
    PROVE  GoodMeeting(id, n, adm)
<1>1. m \in Meeting
      BY DEF GoodMeeting
<1>2. Seats(n) \in SUBSET Seats(m)
      BY DEF Seats
<1>3. Cardinality(Seats(n)) <= Cardinality(Seats(m))
      BY <1>1, <1>2, SeatsFinite, FS_Subset
<1>4. Cardinality(Seats(n)) <= Capacity
      BY <1>1, <1>3, SeatsFinite, CapacityPositive DEF GoodMeeting
<1> QED BY <1>4 DEF GoodMeeting

LEMMA MoreAdmissionsStayGood ==
    ASSUME NEW id, NEW adm, NEW more, NEW m,
           adm \subseteq more, GoodMeeting(id, m, adm)
    PROVE  GoodMeeting(id, m, more)
BY DEF GoodMeeting

----------------------------------------------------------------------------
(* The steps of a request.                                                  *)

\* A handler that does not move keeps what it relies on, because histories grow
\* and an id that was handed out never comes back to the store.
LEMMA HandlerFrame ==
    ASSUME NEW t \in Thread, HandlerOK(job[t]), job'[t] = job[t],
           created \subseteq created', admitted \subseteq admitted',
           announced \subseteq announced', Live' \cap created \subseteq Live
    PROVE  HandlerOK(job[t])'
<1>1. job[t].snap # NoMeeting => GoodMeeting(job[t].id, job[t].snap, admitted')
      BY MoreAdmissionsStayGood DEF HandlerOK
<1>2. job[t].snap # NoMeeting => job[t].id \in created'
      BY DEF HandlerOK
<1>3. (job[t].pc = "farewell" /\ job[t].op = "leave") => job[t].id \notin Live'
      BY DEF HandlerOK
<1>4. job[t].pc = "sweep" => job[t].id \in announced' \ Live'
      BY DEF HandlerOK
<1> QED BY <1>1, <1>2, <1>3, <1>4 DEF HandlerOK

\* A request accepted by Store.Update that leaves a good meeting behind.
LEMMA UpdatedKeepsIInv ==
    ASSUME IInv, NEW t \in Thread, NEW op \in Op, NEW u \in User, NEW id \in Live,
           NEW m, NEW pc, Updated(t, op, u, id, m, pc),
           admitted \subseteq admitted', admitted' \in SUBSET (Id \X User),
           GoodMeeting(id, m, admitted'),
           \/ pc = "publish"
           \/ pc = "delete" /\ op = "leave"
           \/ pc = "farewell" /\ op = "end"
    PROVE  IInv'
<1> DEFINE j == [op |-> op, id |-> id, user |-> u, snap |-> m, pc |-> pc,
                 reply |-> "none"]
<1>1. id \in Id /\ m \in Meeting /\ pc \in Pc
      BY DEF Live, GoodMeeting, Pc
<1>2. j \in Job
      BY <1>1 DEF Job, Reply
<1>3. /\ meetings' = [meetings EXCEPT ![id] = m]
      /\ job' = [job EXCEPT ![t] = j]
      /\ UNCHANGED <<created, announced, swept>>
      BY DEF Updated
<1>4. TypeOK'
      BY <1>1, <1>2, <1>3 DEF IInv, TypeOK
<1>5. Live' = Live
      BY <1>1, <1>3, NoMeetingIsNone DEF IInv, TypeOK, Live
<1>6. StoreInv'
  <2> SUFFICES ASSUME NEW i \in Live'
               PROVE  GoodMeeting(i, meetings'[i], admitted')
      BY DEF StoreInv
  <2>1. CASE i = id
        BY <2>1, <1>1, <1>3 DEF IInv, TypeOK
  <2>2. CASE i # id
    <3>1. meetings'[i] = meetings[i]
          BY <2>2, <1>3 DEF IInv, TypeOK, Live
    <3> QED BY <3>1, <1>5, MoreAdmissionsStayGood DEF IInv, StoreInv
  <2> QED BY <2>1, <2>2
<1>7. HandlerInv'
  <2> SUFFICES ASSUME NEW s \in Thread, job'[s] # NoJob
               PROVE  HandlerOK(job[s])'
      BY DEF HandlerInv
  <2>1. CASE s = t
    <3>1. job'[s] = j
          BY <2>1, <1>3 DEF IInv, TypeOK
    <3>2. id \in created'
          BY <1>3 DEF IInv, HistoryInv
    <3> QED BY <3>1, <3>2, <1>1, NoMeetingIsNone DEF HandlerOK
  <2>2. CASE s # t
        BY <2>2, <1>3, <1>5, HandlerFrame DEF IInv, TypeOK, HandlerInv
  <2> QED BY <2>1, <2>2
<1>8. HistoryInv'
      BY <1>3, <1>5 DEF IInv, HistoryInv
<1> QED BY <1>4, <1>6, <1>7, <1>8 DEF IInv

\* A request answered with a problem changes nothing but its own goroutine.
LEMMA RefusedKeepsIInv ==
    ASSUME IInv, NEW t \in Thread, NEW op \in Op, NEW u \in User, NEW id \in Id,
           NEW reply \in {"bad request", "forbidden", "not found"},
           Refused(t, op, u, id, reply)
    PROVE  IInv'
<1> DEFINE j == [op |-> op, id |-> id, user |-> u, snap |-> NoMeeting,
                 pc |-> "done", reply |-> reply]
<1>1. j \in Job /\ reply # "admitted"
      BY DEF Job, Pc, Reply
<1>2. /\ job' = [job EXCEPT ![t] = j]
      /\ UNCHANGED <<meetings, created, admitted, announced, swept>>
      BY DEF Refused
<1>3. TypeOK'
      BY <1>1, <1>2 DEF IInv, TypeOK
<1>4. Live' = Live /\ StoreInv' /\ HistoryInv'
      BY <1>2 DEF IInv, Live, StoreInv, HistoryInv
<1>5. HandlerInv'
  <2> SUFFICES ASSUME NEW s \in Thread, job'[s] # NoJob
               PROVE  HandlerOK(job[s])'
      BY DEF HandlerInv
  <2>1. CASE s = t
    <3>1. job'[s] = j
          BY <2>1, <1>2 DEF IInv, TypeOK
    <3>2. j.pc = "done" /\ j.snap = NoMeeting /\ j.reply = reply
          OBVIOUS
    <3> HIDE DEF j
    <3> QED BY <3>1, <3>2, <1>1 DEF HandlerOK
  <2>2. CASE s # t
        BY <2>2, <1>2, <1>4, HandlerFrame DEF IInv, TypeOK, HandlerInv
  <2> QED BY <2>1, <2>2
<1> QED BY <1>3, <1>4, <1>5 DEF IInv

LEMMA CreateKeepsIInv ==
    ASSUME IInv, NEW t \in Thread, NEW u \in User, NEW id \in Id, Create(t, u, id)
    PROVE  IInv'
<1> DEFINE m == [host |-> u, participants |-> {}, waiting |-> {},
                 state |-> "waiting"]
<1>1. /\ meetings' = [meetings EXCEPT ![id] = m]
      /\ created' = created \cup {id}
      /\ id \notin created
      /\ UNCHANGED <<job, admitted, announced, swept>>
      BY DEF Create
<1>2. m \in Meeting
      BY DEF Meeting, MeetingState
<1>3. GoodMeeting(id, m, admitted)
  <2>1. Seats(m) = {}
        BY DEF Seats
  <2> QED BY <2>1, <1>2, FS_EmptySet, CapacityPositive DEF GoodMeeting
<1>4. TypeOK'
      BY <1>1, <1>2 DEF IInv, TypeOK
<1>5. Live' = Live \cup {id}
      BY <1>1, <1>2, NoMeetingIsNone DEF IInv, TypeOK, Live
<1> HIDE DEF m
<1>6. StoreInv'
      BY <1>1, <1>3, <1>5 DEF IInv, TypeOK, StoreInv, Live
<1>7. HandlerInv'
  <2> SUFFICES ASSUME NEW s \in Thread, job'[s] # NoJob
               PROVE  HandlerOK(job[s])'
      BY DEF HandlerInv
  <2> QED BY <1>1, <1>5, HandlerFrame DEF IInv, HandlerInv
<1>8. HistoryInv'
      BY <1>1, <1>5 DEF IInv, HistoryInv
<1> QED BY <1>4, <1>6, <1>7, <1>8 DEF IInv

----------------------------------------------------------------------------
(* The steps after the update.                                              *)

\* What moving a handler to another point of its code does to the types.
LEMMA GotoType ==
    ASSUME TypeOK, NEW t \in Thread, job[t] # NoJob,
           NEW pc \in Pc, NEW reply \in Reply, Goto(t, pc, reply)
    PROVE  /\ job' \in [Thread -> Job \cup {NoJob}]
           /\ job'[t].pc = pc
           /\ job'[t].reply = reply
           /\ job'[t].op = job[t].op
           /\ job'[t].id = job[t].id
           /\ job'[t].user = job[t].user
           /\ job'[t].snap = job[t].snap
           /\ job'[t] # NoJob
           /\ \A s \in Thread : s # t => job'[s] = job[s]
<1>1. job[t] \in Job
      BY DEF TypeOK
<1>2. [job[t] EXCEPT !.pc = pc, !.reply = reply] \in Job
      BY <1>1 DEF Job
<1>3. job' = [job EXCEPT ![t] = [job[t] EXCEPT !.pc = pc, !.reply = reply]]
      BY DEF Goto, TypeOK
<1>4. job'[t] = [job[t] EXCEPT !.pc = pc, !.reply = reply]
      BY <1>3 DEF TypeOK
<1>5. job'[t] # NoJob
      BY <1>2, <1>4, NoJobIsNone
<1> QED BY <1>1, <1>2, <1>3, <1>4, <1>5 DEF TypeOK, Job

\* A step that moves one handler and only grows histories or empties the store
\* keeps the other handlers right.
LEMMA OthersKeepHandlerInv ==
    ASSUME IInv, NEW t \in Thread,
           \A s \in Thread : s # t => job'[s] = job[s],
           created \subseteq created', admitted \subseteq admitted',
           announced \subseteq announced', Live' \subseteq Live,
           job'[t] # NoJob => HandlerOK(job[t])'
    PROVE  HandlerInv'
<1> SUFFICES ASSUME NEW s \in Thread, job'[s] # NoJob
             PROVE  HandlerOK(job[s])'
    BY DEF HandlerInv
<1>1. CASE s = t
      BY <1>1
<1>2. CASE s # t
      BY <1>2, HandlerFrame DEF IInv, HandlerInv
<1> QED BY <1>1, <1>2

LEMMA PublishKeepsIInv ==
    ASSUME IInv, NEW t \in Thread, Publish(t)
    PROVE  IInv'
<1> DEFINE to == Published(job[t])
<1>1. job[t] \in Job /\ HandlerOK(job[t]) /\ job[t].pc = "publish"
      BY DEF IInv, TypeOK, HandlerInv, Publish, At
<1>2. to.pc \in Pc /\ to.reply \in Reply
      BY DEF Published, Pc, Reply
<1>3. Goto(t, to.pc, to.reply) /\ job[t] # NoJob
      BY DEF Publish, At
<1>4. UNCHANGED <<meetings, created, admitted, announced, swept>>
      BY DEF Publish
<1>5. TypeOK'
      BY <1>2, <1>3, <1>4, GotoType DEF IInv, TypeOK
<1>6. Live' = Live /\ StoreInv' /\ HistoryInv'
      BY <1>4 DEF IInv, Live, StoreInv, HistoryInv
<1>7. HandlerOK(job[t])'
  <2>1. \/ to.pc = "token" /\ to.reply = "none" /\ job[t].user \in job[t].snap.participants
        \/ to.pc = "done" /\ to.reply # "admitted"
        BY DEF Published
  <2> HIDE DEF to
  <2> QED BY <1>1, <1>2, <1>3, <1>4, <1>6, <2>1, GotoType DEF IInv, HandlerOK
<1> QED BY <1>2, <1>3, <1>4, <1>5, <1>6, <1>7, GotoType, OthersKeepHandlerInv DEF IInv

LEMMA MintTokenKeepsIInv ==
    ASSUME IInv, NEW t \in Thread, MintToken(t)
    PROVE  IInv'
<1>1. HandlerOK(job[t]) /\ job[t].pc = "token" /\ job[t] # NoJob
      BY DEF IInv, HandlerInv, MintToken, At
<1>2. PICK reply \in {"admitted", "bad gateway"} : Goto(t, "done", reply)
      BY DEF MintToken
<1>3. "done" \in Pc /\ reply \in Reply
      BY DEF Pc, Reply
<1>4. UNCHANGED <<meetings, created, admitted, announced, swept>>
      BY DEF MintToken
<1>5. TypeOK'
      BY <1>1, <1>2, <1>3, <1>4, GotoType DEF IInv, TypeOK
<1>6. Live' = Live /\ StoreInv' /\ HistoryInv'
      BY <1>4 DEF IInv, Live, StoreInv, HistoryInv
<1>7. HandlerOK(job[t])'
      BY <1>1, <1>2, <1>3, <1>4, <1>6, GotoType DEF IInv, HandlerOK
<1> QED BY <1>1, <1>2, <1>3, <1>4, <1>5, <1>6, <1>7, GotoType, OthersKeepHandlerInv DEF IInv

\* meeting.ended is sent by leave after its Delete and by end before it.
LEMMA FarewellKeepsIInv ==
    ASSUME IInv, NEW t \in Thread, Farewell(t)
    PROVE  IInv'
<1> DEFINE to == AfterFarewell(job[t].op)
<1>1. /\ job[t] \in Job /\ HandlerOK(job[t]) /\ job[t].pc = "farewell"
      /\ job[t] # NoJob
      BY DEF IInv, TypeOK, HandlerInv, Farewell, At
<1>2. to \in Pc /\ "none" \in Reply
      BY DEF AfterFarewell, Pc, Reply
<1>3. Goto(t, to, "none")
      BY DEF Farewell
<1>4. /\ announced' = announced \cup {job[t].id}
      /\ UNCHANGED <<meetings, created, admitted, swept>>
      BY DEF Farewell
<1>5. job[t].id \in Id /\ job[t].id \in created
      BY <1>1 DEF Job, HandlerOK
<1>6. TypeOK'
      BY <1>1, <1>2, <1>3, <1>4, <1>5, GotoType DEF IInv, TypeOK
<1>7. Live' = Live /\ StoreInv' /\ HistoryInv'
      BY <1>4, <1>5 DEF IInv, Live, StoreInv, HistoryInv
<1>8. HandlerOK(job[t])'
  <2>1. \/ job[t].op = "end" /\ to = "delete"
        \/ job[t].op = "leave" /\ to = "sweep"
        BY <1>1 DEF HandlerOK, AfterFarewell
  <2> HIDE DEF to
  <2> QED BY <1>1, <1>2, <1>3, <1>4, <1>7, <2>1, GotoType DEF IInv, HandlerOK
<1> QED BY <1>1, <1>2, <1>3, <1>4, <1>6, <1>7, <1>8, GotoType, OthersKeepHandlerInv DEF IInv

\* Deleting a meeting takes it out of the store whatever happened since Update.
LEMMA DeleteKeepsIInv ==
    ASSUME IInv, NEW t \in Thread, Delete(t)
    PROVE  IInv'
<1> DEFINE to == AfterDelete(job[t].op)
<1>1. /\ job[t] \in Job /\ HandlerOK(job[t]) /\ job[t].pc = "delete"
      /\ job[t] # NoJob
      BY DEF IInv, TypeOK, HandlerInv, Delete, At
<1>2. to \in Pc /\ "none" \in Reply
      BY DEF AfterDelete, Pc, Reply
<1>3. Goto(t, to, "none")
      BY DEF Delete
<1>4. /\ meetings' = [meetings EXCEPT ![job[t].id] = NoMeeting]
      /\ UNCHANGED <<created, admitted, announced, swept>>
      BY DEF Delete
<1>5. TypeOK'
      BY <1>1, <1>2, <1>3, <1>4, GotoType DEF IInv, TypeOK
<1>6. Live' = Live \ {job[t].id}
      BY <1>1, <1>4 DEF IInv, TypeOK, Live, Job
<1>7. StoreInv'
      BY <1>4, <1>6 DEF IInv, TypeOK, StoreInv, Live
<1>8. HistoryInv'
      BY <1>4, <1>6 DEF IInv, HistoryInv
<1>9. HandlerOK(job[t])'
  <2>1. \/ job[t].op = "end" /\ to = "sweep"
        \/ job[t].op = "leave" /\ to = "farewell"
        BY <1>1 DEF HandlerOK, AfterDelete
  <2> HIDE DEF to
  <2> QED BY <1>1, <1>2, <1>3, <1>4, <1>6, <2>1, GotoType DEF IInv, HandlerOK
<1> QED BY <1>1, <1>2, <1>3, <1>4, <1>5, <1>6, <1>7, <1>8, <1>9, GotoType,
           OthersKeepHandlerInv DEF IInv

LEMMA SweepKeepsIInv ==
    ASSUME IInv, NEW t \in Thread, Sweep(t)
    PROVE  IInv'
<1>1. /\ job[t] \in Job /\ HandlerOK(job[t]) /\ job[t].pc = "sweep"
      /\ job[t] # NoJob
      BY DEF IInv, TypeOK, HandlerInv, Sweep, At
<1>2. "done" \in Pc /\ "ok" \in Reply
      BY DEF Pc, Reply
<1>3. Goto(t, "done", "ok")
      BY DEF Sweep
<1>4. /\ swept' = swept \cup {job[t].id}
      /\ UNCHANGED <<meetings, created, admitted, announced>>
      BY DEF Sweep
<1>5. job[t].id \in Id /\ job[t].id \in announced \ Live
      BY <1>1 DEF Job, HandlerOK
<1>6. TypeOK'
      BY <1>1, <1>2, <1>3, <1>4, <1>5, GotoType DEF IInv, TypeOK
<1>7. Live' = Live /\ StoreInv' /\ HistoryInv'
      BY <1>4, <1>5 DEF IInv, Live, StoreInv, HistoryInv
<1>8. HandlerOK(job[t])'
      BY <1>1, <1>2, <1>3, <1>4, <1>7, GotoType DEF IInv, HandlerOK
<1> QED BY <1>1, <1>2, <1>3, <1>4, <1>6, <1>7, <1>8, GotoType, OthersKeepHandlerInv DEF IInv

LEMMA ReturnKeepsIInv ==
    ASSUME IInv, NEW t \in Thread, Return(t)
    PROVE  IInv'
<1>1. /\ job' = [job EXCEPT ![t] = NoJob]
      /\ UNCHANGED <<meetings, created, admitted, announced, swept>>
      BY DEF Return
<1>2. TypeOK'
      BY <1>1 DEF IInv, TypeOK
<1>3. Live' = Live /\ StoreInv' /\ HistoryInv'
      BY <1>1 DEF IInv, Live, StoreInv, HistoryInv
<1>4. job'[t] = NoJob /\ \A s \in Thread : s # t => job'[s] = job[s]
      BY <1>1 DEF IInv, TypeOK
<1> QED BY <1>1, <1>2, <1>3, <1>4, OthersKeepHandlerInv DEF IInv

----------------------------------------------------------------------------
(* The invariant.                                                           *)

LEMMA InitIInv == Init => IInv
<1> SUFFICES ASSUME Init PROVE IInv
    OBVIOUS
<1>1. Live = {}
      BY DEF Init, Live
<1>2. TypeOK
      BY DEF Init, TypeOK
<1> QED BY <1>1, <1>2 DEF Init, IInv, StoreInv, HandlerInv, HistoryInv

LEMMA RequestKeepsIInv ==
    ASSUME IInv, NEW t \in Thread, Request(t)
    PROVE  IInv'
<1> PICK u \in User, id \in Id :
        \/ Create(t, u, id)
        \/ Join(t, u, id)
        \/ JoinFull(t, u, id)
        \/ Leave(t, u, id)
        \/ RemoveHost(t, u, id)
        \/ End(t, u, id)
        \/ \E op \in Op : NotFound(t, op, u, id) \/ HostOnly(t, op, u, id)
        \/ \E v \in User :
            \/ Admit(t, u, v, id)
            \/ Reject(t, u, v, id)
            \/ Remove(t, u, v, id)
            \/ \E op \in Op : NotWaiting(t, op, u, v, id)
    BY DEF Request
<1> DEFINE m == meetings[id]
<1>1. id \in Live => m \in Meeting /\ GoodMeeting(id, m, admitted)
      BY DEF IInv, StoreInv, GoodMeeting
<1>2. admitted \in SUBSET (Id \X User)
      BY DEF IInv, TypeOK
<1>3. {"join", "admit", "reject", "leave", "remove", "end"} \subseteq Op
      BY DEF Op
<1>4. CASE Create(t, u, id)
      BY <1>4, CreateKeepsIInv
<1>5. CASE Join(t, u, id)
  <2>1. GoodMeeting(id, Seated(m, u), admitted)
        BY <1>1, <1>5, SeatedIsGood DEF Join, Arrives
  <2> QED BY <1>2, <1>3, <1>5, <2>1, UpdatedKeepsIInv DEF Join, Arrives
<1>6. CASE Leave(t, u, id)
  <2> DEFINE n == Without(m, u)
  <2>1. id \in Live /\ m \in Meeting
        BY <1>1, <1>6 DEF Leave, Arrives
  <2>2. /\ n \in Meeting
        /\ n.host = m.host /\ n.state = m.state
        /\ n.participants \subseteq m.participants /\ n.waiting \subseteq m.waiting
        BY <2>1 DEF Without, Meeting
  <2>3. /\ Updated(t, "leave", u, id, n, AfterLeave(n))
        /\ UNCHANGED admitted
        BY <1>6 DEF Leave
  <2>4. AfterLeave(n) \in {"delete", "publish"}
        BY DEF AfterLeave
  <2> HIDE DEF n
  <2>5. GoodMeeting(id, n, admitted)
        BY <1>1, <2>1, <2>2, ShrunkIsGood
  <2> QED BY <1>2, <1>3, <2>1, <2>3, <2>4, <2>5, UpdatedKeepsIInv
<1>7. CASE End(t, u, id)
  <2> DEFINE n == [m EXCEPT !.state = "ending"]
  <2>1. id \in Live /\ m \in Meeting
        BY <1>1, <1>7 DEF End, Arrives
  <2>2. /\ n \in Meeting
        /\ n.host = m.host /\ n.state = "ending"
        /\ n.participants \subseteq m.participants /\ n.waiting \subseteq m.waiting
        BY <2>1 DEF Meeting, MeetingState
  <2>3. Updated(t, "end", u, id, n, "farewell") /\ UNCHANGED admitted
        BY <1>7 DEF End
  <2> HIDE DEF n
  <2>4. GoodMeeting(id, n, admitted)
        BY <1>1, <2>1, <2>2, ShrunkIsGood
  <2> QED BY <1>2, <1>3, <2>1, <2>3, <2>4, UpdatedKeepsIInv
<1>8. ASSUME NEW v \in User, Admit(t, u, v, id)
      PROVE  IInv'
  <2>1. /\ id \in Live /\ v \in m.waiting
        /\ Updated(t, "admit", u, id, Admitted(m, v), "publish")
        /\ admitted' = admitted \cup {<<id, v>>}
        BY <1>8 DEF Admit, Arrives
  <2>2. GoodMeeting(id, Admitted(m, v), admitted')
        BY <1>1, <2>1, AdmittedIsGood
  <2> QED BY <1>2, <1>3, <2>1, <2>2, UpdatedKeepsIInv
<1>9. ASSUME NEW v \in User, Reject(t, u, v, id)
      PROVE  IInv'
  <2> DEFINE n == [m EXCEPT !.waiting = @ \ {v}]
  <2>1. id \in Live /\ m \in Meeting
        BY <1>1, <1>9 DEF Reject, Arrives
  <2>2. /\ n \in Meeting
        /\ n.host = m.host /\ n.state = m.state
        /\ n.participants \subseteq m.participants /\ n.waiting \subseteq m.waiting
        BY <2>1 DEF Meeting
  <2>3. Updated(t, "reject", u, id, n, "publish") /\ UNCHANGED admitted
        BY <1>9 DEF Reject
  <2> HIDE DEF n
  <2>4. GoodMeeting(id, n, admitted)
        BY <1>1, <2>1, <2>2, ShrunkIsGood
  <2> QED BY <1>2, <1>3, <2>1, <2>3, <2>4, UpdatedKeepsIInv
<1>10. ASSUME NEW v \in User, Remove(t, u, v, id)
       PROVE  IInv'
  <2> DEFINE n == [m EXCEPT !.participants = @ \ {v}]
  <2>1. id \in Live /\ m \in Meeting
        BY <1>1, <1>10 DEF Remove, Arrives
  <2>2. /\ n \in Meeting
        /\ n.host = m.host /\ n.state = m.state
        /\ n.participants \subseteq m.participants /\ n.waiting \subseteq m.waiting
        BY <2>1 DEF Meeting
  <2>3. Updated(t, "remove", u, id, n, "publish") /\ UNCHANGED admitted
        BY <1>10 DEF Remove
  <2> HIDE DEF n
  <2>4. GoodMeeting(id, n, admitted)
        BY <1>1, <2>1, <2>2, ShrunkIsGood
  <2> QED BY <1>2, <1>3, <2>1, <2>3, <2>4, UpdatedKeepsIInv
<1>11. CASE JoinFull(t, u, id) \/ RemoveHost(t, u, id)
       BY <1>3, <1>11, RefusedKeepsIInv DEF JoinFull, RemoveHost
<1>12. ASSUME NEW op \in Op, NotFound(t, op, u, id) \/ HostOnly(t, op, u, id)
       PROVE  IInv'
       BY <1>12, RefusedKeepsIInv DEF NotFound, HostOnly
<1>13. ASSUME NEW v \in User, NEW op \in Op, NotWaiting(t, op, u, v, id)
       PROVE  IInv'
       BY <1>13, RefusedKeepsIInv DEF NotWaiting
<1> QED BY <1>4, <1>5, <1>6, <1>7, <1>8, <1>9, <1>10, <1>11, <1>12, <1>13

LEMMA NextKeepsIInv == IInv /\ [Next]_vars => IInv'
<1> SUFFICES ASSUME IInv, [Next]_vars PROVE IInv'
    OBVIOUS
<1>1. CASE UNCHANGED vars
      BY <1>1 DEF vars, IInv, TypeOK, StoreInv, HandlerInv, HandlerOK, HistoryInv, Live
<1>2. ASSUME NEW t \in Thread, Request(t)
      PROVE  IInv'
      BY <1>2, RequestKeepsIInv
<1>3. ASSUME NEW t \in Thread, Continue(t)
      PROVE  IInv'
      BY <1>3, PublishKeepsIInv, MintTokenKeepsIInv, FarewellKeepsIInv,
         DeleteKeepsIInv, SweepKeepsIInv, ReturnKeepsIInv DEF Continue
<1> QED BY <1>1, <1>2, <1>3 DEF Next

\* The inductive invariant: what the store, the clones and the handlers hold.
THEOREM Inductive == Spec => []IInv
BY InitIInv, NextKeepsIInv, PTL DEF Spec

\* Every variable keeps its type (models.go, the handlers' locals).
THEOREM TypeCorrect == Spec => []TypeOK
<1>1. IInv => TypeOK
      BY DEF IInv
<1> QED BY <1>1, Inductive, PTL

\* The waiting room and the meeting are disjoint and the host never waits.
THEOREM SeatsExclusive == Spec => []SeatsAreExclusive
<1>1. IInv => SeatsAreExclusive
      BY DEF IInv, StoreInv, GoodMeeting, SeatsAreExclusive
<1> QED BY <1>1, Inductive, PTL

\* No interleaving of joins, admissions and leaves seats more than Capacity.
THEOREM CapacityHolds == Spec => []CapacityRespected
<1>1. IInv => CapacityRespected
      BY DEF IInv, StoreInv, GoodMeeting, CapacityRespected
<1> QED BY <1>1, Inductive, PTL

\* Nobody is inside whom the host did not let in.
THEOREM InsideOnlyByAdmission == Spec => []InsideByAdmission
<1>1. IInv => InsideByAdmission
      BY DEF IInv, StoreInv, GoodMeeting, InsideByAdmission
<1> QED BY <1>1, Inductive, PTL

\* A meeting whose state is still waiting has nobody inside.
THEOREM WaitingIsEmpty == Spec => []WaitingStateMeansEmpty
<1>1. IInv => WaitingStateMeansEmpty
      BY DEF IInv, StoreInv, GoodMeeting, WaitingStateMeansEmpty
<1> QED BY <1>1, Inductive, PTL

\* The stale clone a join mints its token from still names an admitted user.
THEOREM TokensFollowAdmission == Spec => []TokenAfterAdmission
<1>1. IInv => TokenAfterAdmission
      BY DEF IInv, HandlerInv, HandlerOK, GoodMeeting, TokenAfterAdmission
<1> QED BY <1>1, Inductive, PTL

\* No LiveKit room is swept under a meeting that is still in the store, nor
\* before its clients were told.
THEOREM SweptAfterClosing == Spec => []SweptRoomIsClosed
<1>1. IInv => SweptRoomIsClosed
      BY DEF IInv, HistoryInv, SweptRoomIsClosed
<1> QED BY <1>1, Inductive, PTL

\* Nobody is in two places and the state tells whether somebody has come in.
THEOREM PlacesAlwaysAgree == Spec => []PlacesAgree
BY SeatsExclusive, WaitingIsEmpty, PTL DEF PlacesAgree

\* Neither a place inside nor a token without the host's decision.
THEOREM NobodyUnasked == Spec => []OnlyByAdmission
BY InsideOnlyByAdmission, TokensFollowAdmission, PTL DEF OnlyByAdmission

----------------------------------------------------------------------------
(* A close is taken to its end.                                             *)

\* Handler t was accepted to close meeting id.
Closes(t, id) ==
    /\ job[t] # NoJob
    /\ job[t].id = id
    /\ job[t].snap # NoMeeting
    /\ \/ job[t].op = "end"
       \/ job[t].op = "leave" /\ job[t].snap.participants = {}

Steps == {"farewell", "delete", "sweep"}

\* CloseIsOwned of one meeting.
Owned(id) ==
    /\ \A t \in Thread : Closes(t, id) =>
        id \notin Live \/ \E s \in Thread : Owes(s, id, {"farewell", "delete"})
    /\ id \in announced =>
        id \notin Live \/ \E t \in Thread : Owes(t, id, {"delete"})
    /\ id \notin Live =>
        /\ id \in announced \/ \E t \in Thread : Owes(t, id, {"farewell"})
        /\ id \in swept \/ \E t \in Thread : Owes(t, id, Steps)

LEMMA OwnedIsCloseIsOwned == CloseIsOwned <=> \A id \in created : Owned(id)
BY DEF CloseIsOwned, Owned, Closing, Closes, Steps

\* A step of t that concerns other meetings, or none, keeps what others owe.
LEMMA OwnedFrame ==
    ASSUME NEW t \in Thread, NEW id, Owned(id),
           \A s \in Thread : s # t => job'[s] = job[s],
           id \in Live <=> id \in Live',
           id \in announced <=> id \in announced',
           id \in swept <=> id \in swept',
           ~Owes(t, id, Steps),
           Closes(t, id)' => Closes(t, id) \/ Owes(t, id, {"farewell", "delete"})'
    PROVE  Owned(id)'
<1>1. ASSUME NEW s \in Thread, NEW pcs \in SUBSET Steps, Owes(s, id, pcs)
      PROVE  Owes(s, id, pcs)'
      BY <1>1 DEF Owes
<1>2. {"farewell"} \in SUBSET Steps /\ {"delete"} \in SUBSET Steps
      /\ {"farewell", "delete"} \in SUBSET Steps /\ Steps \in SUBSET Steps
      BY DEF Steps
<1>3. ASSUME NEW s \in Thread, Closes(s, id)'
      PROVE  \/ Closes(s, id)
             \/ Owes(s, id, {"farewell", "delete"})'
      BY <1>3 DEF Closes
<1> QED BY <1>1, <1>2, <1>3 DEF Owned

\* A request takes its closing step the moment it is accepted; any other request
\* leaves what is owed alone.
LEMMA UpdatedKeepsOwned ==
    ASSUME IInv, NEW t \in Thread, job[t] = NoJob, NEW op, NEW u, NEW i \in Live,
           NEW m \in Meeting, NEW pc, Updated(t, op, u, i, m, pc),
           op = "end" => pc = "farewell",
           (op = "leave" /\ m.participants = {}) => pc = "delete",
           NEW id, Owned(id)
    PROVE  Owned(id)'
<1> DEFINE j == [op |-> op, id |-> i, user |-> u, snap |-> m, pc |-> pc,
                 reply |-> "none"]
<1>1. /\ meetings' = [meetings EXCEPT ![i] = m]
      /\ job' = [job EXCEPT ![t] = j]
      /\ UNCHANGED <<created, announced, swept>>
      BY DEF Updated
<1>2. Live' = Live
      BY <1>1, NoMeetingIsNone DEF IInv, TypeOK, Live
<1>3. job'[t] = j /\ \A s \in Thread : s # t => job'[s] = job[s]
      BY <1>1 DEF IInv, TypeOK
<1>4. ~Owes(t, id, Steps)
      BY DEF Owes
<1>5. Closes(t, id)' => Owes(t, id, {"farewell", "delete"})'
  <2>1. /\ j.id = i /\ j.op = op /\ j.snap = m /\ j.pc = pc
        OBVIOUS
  <2> HIDE DEF j
  <2> QED BY <1>3, <2>1 DEF Closes, Owes
<1> QED BY <1>1, <1>2, <1>3, <1>4, <1>5, OwnedFrame

LEMMA RefusedKeepsOwned ==
    ASSUME IInv, NEW t \in Thread, job[t] = NoJob, NEW op, NEW u, NEW i, NEW reply,
           Refused(t, op, u, i, reply),
           NEW id, Owned(id)
    PROVE  Owned(id)'
<1>1. /\ job' = [job EXCEPT ![t] = [op |-> op, id |-> i, user |-> u,
                                    snap |-> NoMeeting, pc |-> "done", reply |-> reply]]
      /\ UNCHANGED <<meetings, announced, swept>>
      BY DEF Refused
<1>2. Live' = Live
      BY <1>1 DEF Live
<1>3. job'[t].snap = NoMeeting /\ \A s \in Thread : s # t => job'[s] = job[s]
      BY <1>1 DEF IInv, TypeOK
<1>4. ~Owes(t, id, Steps) /\ ~Closes(t, id)'
      BY <1>3 DEF Owes, Closes
<1> QED BY <1>1, <1>2, <1>3, <1>4, OwnedFrame

\* A meeting that has just been created has no past to settle.
LEMMA CreateKeepsOwned ==
    ASSUME IInv, NEW t \in Thread, NEW u \in User, NEW i \in Id, Create(t, u, i),
           NEW id \in created', id \in created => Owned(id)
    PROVE  Owned(id)'
<1> DEFINE m == [host |-> u, participants |-> {}, waiting |-> {},
                 state |-> "waiting"]
<1>1. /\ meetings' = [meetings EXCEPT ![i] = m]
      /\ created' = created \cup {i}
      /\ i \notin created
      /\ job[t] = NoJob
      /\ UNCHANGED <<job, admitted, announced, swept>>
      BY DEF Create
<1>2. m \in Meeting
      BY DEF Meeting, MeetingState
<1>3. Live' = Live \cup {i}
      BY <1>1, <1>2, NoMeetingIsNone DEF IInv, TypeOK, Live
<1> HIDE DEF m
<1>4. CASE id = i
  <2>1. \A s \in Thread : ~Closes(s, id)'
        BY <1>1, <1>4 DEF Closes, IInv, HandlerInv, HandlerOK
  <2>2. id \notin announced'
        BY <1>1, <1>4 DEF IInv, HistoryInv
  <2> QED BY <2>1, <2>2, <1>3, <1>4 DEF Owned
<1>5. CASE id # i
  <2>1. id \in created
        BY <1>1, <1>5
  <2>2. ~Owes(t, id, Steps)
        BY <1>1 DEF Owes
  <2>3. Closes(t, id)' => Closes(t, id)
        BY <1>1 DEF Closes
  <2> QED BY <2>1, <2>2, <2>3, <1>1, <1>3, <1>5, OwnedFrame
<1> QED BY <1>4, <1>5

LEMMA RequestKeepsOwned ==
    ASSUME IInv, NEW t \in Thread, Request(t),
           NEW id \in created', id \in created => Owned(id)
    PROVE  Owned(id)'
<1> PICK u \in User, i \in Id :
        \/ Create(t, u, i)
        \/ Join(t, u, i)
        \/ JoinFull(t, u, i)
        \/ Leave(t, u, i)
        \/ RemoveHost(t, u, i)
        \/ End(t, u, i)
        \/ \E op \in Op : NotFound(t, op, u, i) \/ HostOnly(t, op, u, i)
        \/ \E v \in User :
            \/ Admit(t, u, v, i)
            \/ Reject(t, u, v, i)
            \/ Remove(t, u, v, i)
            \/ \E op \in Op : NotWaiting(t, op, u, v, i)
    BY DEF Request
<1>1. CASE Create(t, u, i)
      BY <1>1, CreateKeepsOwned
<1>2. ASSUME NEW op, NEW reply, job[t] = NoJob, Refused(t, op, u, i, reply)
      PROVE  Owned(id)'
      BY <1>2, RefusedKeepsOwned DEF Refused
<1>3. ASSUME NEW op, NEW m \in Meeting, NEW pc, Arrives(t, i), Updated(t, op, u, i, m, pc),
             op = "end" => pc = "farewell",
             (op = "leave" /\ m.participants = {}) => pc = "delete"
      PROVE  Owned(id)'
      BY <1>3, UpdatedKeepsOwned DEF Updated, Arrives
<1>4. Arrives(t, i) => meetings[i] \in Meeting /\ GoodMeeting(i, meetings[i], admitted)
      BY DEF Arrives, IInv, StoreInv, GoodMeeting
<1>5. CASE Join(t, u, i)
  <2>1. Seated(meetings[i], u) \in Meeting
        BY <1>4, <1>5, SeatedIsGood DEF Join, GoodMeeting
  <2> QED BY <1>5, <2>1, <1>3 DEF Join
<1>6. CASE Leave(t, u, i)
  <2> DEFINE m == Without(meetings[i], u)
  <2>1. m \in Meeting
        BY <1>4, <1>6 DEF Leave, Without, Meeting
  <2>2. Arrives(t, i) /\ Updated(t, "leave", u, i, m, AfterLeave(m))
        BY <1>6 DEF Leave
  <2>3. m.participants = {} => AfterLeave(m) = "delete"
        BY DEF AfterLeave
  <2> HIDE DEF m
  <2> QED BY <2>1, <2>2, <2>3, <1>3
<1>7. CASE End(t, u, i)
  <2>1. [meetings[i] EXCEPT !.state = "ending"] \in Meeting
        BY <1>4, <1>7 DEF End, Meeting, MeetingState
  <2> QED BY <1>7, <2>1, <1>3 DEF End
<1>8. ASSUME NEW v \in User, Admit(t, u, v, i)
      PROVE  Owned(id)'
  <2>1. Admitted(meetings[i], v) \in Meeting
        BY <1>4, <1>8, AdmittedIsGood DEF Admit, GoodMeeting
  <2> QED BY <1>8, <2>1, <1>3 DEF Admit
<1>9. ASSUME NEW v \in User, Reject(t, u, v, i)
      PROVE  Owned(id)'
  <2>1. [meetings[i] EXCEPT !.waiting = @ \ {v}] \in Meeting
        BY <1>4, <1>9 DEF Reject, Meeting
  <2> QED BY <1>9, <2>1, <1>3 DEF Reject
<1>10. ASSUME NEW v \in User, Remove(t, u, v, i)
       PROVE  Owned(id)'
  <2>1. [meetings[i] EXCEPT !.participants = @ \ {v}] \in Meeting
        BY <1>4, <1>10 DEF Remove, Meeting
  <2> QED BY <1>10, <2>1, <1>3 DEF Remove
<1>11. CASE JoinFull(t, u, i) \/ RemoveHost(t, u, i)
       BY <1>2, <1>11 DEF JoinFull, RemoveHost, Arrives
<1>12. ASSUME NEW op \in Op, NotFound(t, op, u, i) \/ HostOnly(t, op, u, i)
       PROVE  Owned(id)'
       BY <1>2, <1>12 DEF NotFound, HostOnly, Arrives
<1>13. ASSUME NEW v \in User, NEW op \in Op, NotWaiting(t, op, u, v, i)
       PROVE  Owned(id)'
       BY <1>2, <1>13 DEF NotWaiting, Arrives
<1> QED BY <1>1, <1>5, <1>6, <1>7, <1>8, <1>9, <1>10, <1>11, <1>12, <1>13

\* A step of a handler settles what it owes or passes it on to its next step.
LEMMA ContinueKeepsOwned ==
    ASSUME IInv, NEW t \in Thread, Continue(t),
           NEW id \in created, Owned(id)
    PROVE  Owned(id)'
<1>1. /\ job[t] \in Job /\ job[t] # NoJob /\ HandlerOK(job[t])
      BY DEF IInv, TypeOK, HandlerInv, Continue, At, Publish, MintToken, Farewell,
             Delete, Sweep, Return
<1>2. CASE Return(t)
  <2>1. /\ job'[t] = NoJob /\ \A s \in Thread : s # t => job'[s] = job[s]
        /\ Live' = Live
        BY <1>2 DEF Return, IInv, TypeOK, Live
  <2>2. ~Owes(t, id, Steps) /\ ~Closes(t, id)'
        BY <2>1, <1>2 DEF Return, At, Owes, Closes, Steps
  <2> QED BY <2>1, <2>2, <1>2, OwnedFrame DEF Return
<1>3. ASSUME NEW pc \in Pc, NEW reply \in Reply, Goto(t, pc, reply),
             ~Owes(t, id, Steps), Live' = Live,
             id \in announced <=> id \in announced', id \in swept <=> id \in swept'
      PROVE  Owned(id)'
  <2>1. Closes(t, id)' => Closes(t, id)
        BY <1>1, <1>3, GotoType DEF IInv, Closes
  <2>2. \A s \in Thread : s # t => job'[s] = job[s]
        BY <1>1, <1>3, GotoType DEF IInv
  <2> QED BY <2>1, <2>2, <1>3, OwnedFrame
<1>4. CASE Publish(t) \/ MintToken(t)
  <2>1. PICK pc \in Pc, reply \in Reply : Goto(t, pc, reply)
    <3>1. CASE Publish(t)
          BY <3>1 DEF Publish, Published, Pc, Reply
    <3>2. CASE MintToken(t)
          BY <3>2 DEF MintToken, Pc, Reply
    <3> QED BY <1>4, <3>1, <3>2
  <2>2. ~Owes(t, id, Steps) /\ UNCHANGED <<meetings, announced, swept>>
        BY <1>4 DEF Publish, MintToken, At, Owes, Steps
  <2> QED BY <2>1, <2>2, <1>3 DEF Live
<1>5. CASE Farewell(t)
  <2> DEFINE to == AfterFarewell(job[t].op)
  <2>1. /\ Goto(t, to, "none")
        /\ announced' = announced \cup {job[t].id}
        /\ UNCHANGED <<meetings, swept>>
        /\ job[t].pc = "farewell"
        BY <1>5 DEF Farewell, At
  <2>2. to \in Pc /\ "none" \in Reply
        BY DEF AfterFarewell, Pc, Reply
  <2>3. /\ job'[t].pc = to /\ job'[t].id = job[t].id /\ job'[t] # NoJob
        BY <2>1, <2>2, <1>1, GotoType DEF IInv
  <2>4. Live' = Live
        BY <2>1 DEF Live
  <2>5. \/ job[t].op = "end" /\ to = "delete"
        \/ job[t].op = "leave" /\ to = "sweep" /\ job[t].id \notin Live
        BY <1>1, <2>1 DEF HandlerOK, AfterFarewell
  <2> HIDE DEF to
  <2>6. CASE job[t].id # id
    <3>1. ~Owes(t, id, Steps)
          BY <2>6 DEF Owes
    <3> QED BY <3>1, <2>1, <2>2, <2>4, <2>6, <1>3
  <2>7. CASE job[t].id = id
    <3>1. \/ Owes(t, id, {"farewell", "delete"})' /\ Owes(t, id, {"delete"})'
             /\ Owes(t, id, Steps)'
          \/ Owes(t, id, Steps)' /\ id \notin Live'
          BY <2>3, <2>4, <2>5, <2>7 DEF Owes, Steps
    <3>2. id \in announced'
          BY <2>1, <2>7
    <3> QED BY <3>1, <3>2 DEF Owned
  <2> QED BY <2>6, <2>7
<1>6. CASE Delete(t)
  <2> DEFINE to == AfterDelete(job[t].op)
  <2>1. /\ Goto(t, to, "none")
        /\ meetings' = [meetings EXCEPT ![job[t].id] = NoMeeting]
        /\ UNCHANGED <<announced, swept>>
        /\ job[t].pc = "delete"
        BY <1>6 DEF Delete, At
  <2>2. to \in Pc /\ "none" \in Reply
        BY DEF AfterDelete, Pc, Reply
  <2>3. /\ job'[t].pc = to /\ job'[t].id = job[t].id /\ job'[t] # NoJob
        /\ \A s \in Thread : s # t => job'[s] = job[s]
        BY <2>1, <2>2, <1>1, GotoType DEF IInv
  <2>4. Live' = Live \ {job[t].id}
        BY <1>1, <2>1 DEF IInv, TypeOK, Live, Job
  <2>5. \/ job[t].op = "end" /\ to = "sweep" /\ job[t].id \in announced
        \/ job[t].op = "leave" /\ to = "farewell"
        BY <1>1, <2>1 DEF HandlerOK, AfterDelete
  <2> HIDE DEF to
  <2>6. CASE job[t].id # id
    <3>1. ~Owes(t, id, Steps)
          BY <2>6 DEF Owes
    <3>2. Closes(t, id)' => Closes(t, id)
          BY <2>3, <2>6 DEF Closes
    <3> QED BY <3>1, <3>2, <2>1, <2>3, <2>4, <2>6, OwnedFrame
  <2>7. CASE job[t].id = id
    <3>1. /\ Owes(t, id, Steps)'
          /\ id \in announced' \/ Owes(t, id, {"farewell"})'
          BY <2>1, <2>3, <2>5, <2>7 DEF Owes, Steps
    <3>2. id \notin Live'
          BY <2>4, <2>7
    <3> QED BY <3>1, <3>2 DEF Owned
  <2> QED BY <2>6, <2>7
<1>7. CASE Sweep(t)
  <2>1. /\ Goto(t, "done", "ok")
        /\ swept' = swept \cup {job[t].id}
        /\ UNCHANGED <<meetings, announced>>
        /\ job[t].id \in announced \ Live
        BY <1>1, <1>7 DEF Sweep, At, HandlerOK
  <2>2. Live' = Live /\ "done" \in Pc /\ "ok" \in Reply
        BY <2>1 DEF Live, Pc, Reply
  <2>3. CASE job[t].id # id
    <3>1. ~Owes(t, id, Steps)
          BY <2>3 DEF Owes
    <3> QED BY <3>1, <2>1, <2>2, <2>3, <1>3
  <2>4. CASE job[t].id = id
        BY <2>1, <2>2, <2>4 DEF Owned
  <2> QED BY <2>3, <2>4
<1> QED BY <1>2, <1>4, <1>5, <1>6, <1>7 DEF Continue

LEMMA NextKeepsCloseIsOwned == IInv /\ CloseIsOwned /\ [Next]_vars => CloseIsOwned'
<1> SUFFICES ASSUME IInv, CloseIsOwned, [Next]_vars PROVE CloseIsOwned'
    OBVIOUS
<1>1. \A id \in created : Owned(id)
      BY OwnedIsCloseIsOwned
<1>2. CASE UNCHANGED vars
      BY <1>2 DEF vars, CloseIsOwned, Closing, Owes, Live
<1>3. CASE Next
  <2> SUFFICES ASSUME NEW id \in created' PROVE Owned(id)'
      BY DEF CloseIsOwned, Owned, Closing, Closes, Steps
  <2> PICK t \in Thread : Request(t) \/ Continue(t)
      BY <1>3 DEF Next
  <2>1. CASE Request(t)
        BY <1>1, <2>1, RequestKeepsOwned
  <2>2. CASE Continue(t)
    <3>1. created' = created
          BY <2>2 DEF Continue, Publish, MintToken, Farewell, Delete, Sweep, Return
    <3> QED BY <3>1, <1>1, <2>2, ContinueKeepsOwned
  <2> QED BY <2>1, <2>2
<1> QED BY <1>2, <1>3

\* Whatever is left of a close always has a handler that will do it: the safety
\* half of AcceptedCloseHappens and ClosedIsAnnouncedAndSwept.
THEOREM CloseHasAnOwner == Spec => []CloseIsOwned
<1>1. Init => CloseIsOwned
      BY DEF Init, CloseIsOwned
<1> QED BY <1>1, Inductive, NextKeepsCloseIsOwned, PTL DEF Spec

\* No room is swept under an open meeting, and no close is left half way.
THEOREM ClosesComplete == Spec => []CloseIsComplete
BY SweptAfterClosing, CloseHasAnOwner, PTL DEF CloseIsComplete

\* When no request is under way, what was announced and swept is what was closed.
THEOREM RestIsClean == Spec => []NothingLeftAtRest
<1>1. IInv /\ CloseIsOwned => NothingLeftAtRest
  <2> SUFFICES ASSUME IInv, CloseIsOwned, AtRest
               PROVE  announced = created \ Live /\ swept = created \ Live
      BY DEF NothingLeftAtRest
  <2>1. \A t : t \in Thread => \A id, pcs : ~Owes(t, id, pcs)
        BY DEF AtRest, Owes
  <2>2. \A id \in created : (id \in announced => id \notin Live)
                            /\ (id \notin Live => id \in announced /\ id \in swept)
        BY <2>1 DEF CloseIsOwned
  <2> QED BY <2>2 DEF IInv, HistoryInv
<1> QED BY <1>1, Inductive, CloseHasAnOwner, PTL

----------------------------------------------------------------------------
(* The handlers implement Lobby.                                            *)

\* In the contract the seats of a live meeting are the two maps together.
LEMMA ContractSeats ==
    ASSUME NEW id \in Live, meetings[id] \in Meeting
    PROVE  Contract!Seats(id) = Seats(meetings[id])
BY DEF Contract!Seats, Places, PlaceOf, Seats, Live, Meeting

\* The instance of FiniteSets the contract extends is the module's own.
LEMMA ContractCardinality == \A S : Contract!Cardinality(S) = Cardinality(S)
BY DEF Contract!Cardinality, Cardinality

\* An update under the lock changes the places of its meeting and no owner.
LEMMA UpdatedPlaces ==
    ASSUME IInv, NEW t, NEW op, NEW u, NEW id \in Live, NEW m \in Meeting, NEW pc,
           Updated(t, op, u, id, m, pc), m.host = meetings[id].host
    PROVE  /\ Owners' = Owners
           /\ Places' = [Places EXCEPT ![id] = [v \in User |-> PlaceOf(m, v)]]
           /\ created' = created
<1>1. /\ meetings' = [meetings EXCEPT ![id] = m]
      /\ created' = created
      BY DEF Updated
<1>2. Live' = Live
      BY <1>1, NoMeetingIsNone DEF IInv, TypeOK, Live
<1>3. meetings'[id] = m /\ \A i \in Id : i # id => meetings'[i] = meetings[i]
      BY <1>1 DEF IInv, TypeOK, Live
<1>4. Owners' = Owners
      BY <1>2, <1>3 DEF Owners
<1>5. Places' = [Places EXCEPT ![id] = [v \in User |-> PlaceOf(m, v)]]
      BY <1>2, <1>3 DEF Places, Live
<1> QED BY <1>1, <1>4, <1>5

\* An update that changes the place of one user at most is a move or a stutter.
LEMMA UpdatedMoves ==
    ASSUME IInv, NEW t, NEW op, NEW u, NEW id \in Live, NEW m \in Meeting, NEW pc,
           Updated(t, op, u, id, m, pc), m.host = meetings[id].host,
           NEW v \in User, NEW from, PlaceOf(meetings[id], v) \in from,
           \A w \in User \ {v} : PlaceOf(m, w) = PlaceOf(meetings[id], w)
    PROVE  Contract!Move(id, v, from, PlaceOf(m, v))
<1>1. /\ Owners' = Owners
      /\ Places' = [Places EXCEPT ![id] = [w \in User |-> PlaceOf(m, w)]]
      /\ created' = created
      BY UpdatedPlaces
<1>2. id \in Id /\ Places[id] = [w \in User |-> PlaceOf(meetings[id], w)]
      BY DEF Places, Live
<1>3. [w \in User |-> PlaceOf(m, w)] = [Places[id] EXCEPT ![v] = PlaceOf(m, v)]
      BY <1>2
<1>4. Places' = [Places EXCEPT ![id] = [Places[id] EXCEPT ![v] = PlaceOf(m, v)]]
      BY <1>1, <1>3
<1>5. meetings[id].host \in User
      BY DEF IInv, StoreInv, GoodMeeting, Meeting
<1>6. Contract!IsOpen(id)
      BY <1>2, <1>5, NoUserIsNone DEF Contract!IsOpen, Owners
<1> QED BY <1>1, <1>2, <1>4, <1>6 DEF Contract!Move

LEMMA UpdatedStutters ==
    ASSUME IInv, NEW t, NEW op, NEW u, NEW id \in Live, NEW m \in Meeting, NEW pc,
           Updated(t, op, u, id, m, pc), m.host = meetings[id].host,
           \A w \in User : PlaceOf(m, w) = PlaceOf(meetings[id], w)
    PROVE  UNCHANGED Contract!vars
<1>1. /\ Owners' = Owners
      /\ Places' = [Places EXCEPT ![id] = [w \in User |-> PlaceOf(m, w)]]
      /\ created' = created
      BY UpdatedPlaces
<1>2. Places[id] = [w \in User |-> PlaceOf(meetings[id], w)]
      BY DEF Places, Live
<1>3. Places' = Places
      BY <1>1, <1>2 DEF Places
<1> QED BY <1>1, <1>3 DEF Contract!vars

\* An update that takes nobody but v away from where they are is a departure.
LEMMA UpdatedDeparts ==
    ASSUME IInv, NEW t, NEW op, NEW u, NEW id \in Live, NEW m \in Meeting, NEW pc,
           Updated(t, op, u, id, m, pc), m.host = meetings[id].host,
           NEW v \in User, PlaceOf(m, v) \in {"outside", PlaceOf(meetings[id], v)},
           \A w \in User \ {v} : PlaceOf(m, w) = PlaceOf(meetings[id], w)
    PROVE  Contract!Depart(id, v) \/ UNCHANGED Contract!vars
<1>1. CASE PlaceOf(m, v) = PlaceOf(meetings[id], v)
      BY <1>1, UpdatedStutters
<1>2. CASE PlaceOf(m, v) = "outside" /\ PlaceOf(meetings[id], v) # "outside"
  <2>1. PlaceOf(meetings[id], v) \in {"waiting", "inside"}
        BY <1>2 DEF PlaceOf
  <2> QED BY <1>2, <2>1, UpdatedMoves DEF Contract!Depart
<1> QED BY <1>1, <1>2

LEMMA JoinRefines ==
    ASSUME IInv, NEW t, NEW u \in User, NEW id \in Id, Join(t, u, id)
    PROVE  \/ Contract!Knock(id, u)
           \/ Contract!Enter(id, u)
           \/ UNCHANGED Contract!vars
<1> DEFINE m == meetings[id]
           n == Seated(m, u)
<1>1. /\ id \in Live /\ ~IsFull(m)
      /\ Updated(t, "join", u, id, n, "publish")
      BY DEF Join, Arrives
<1>2. m \in Meeting /\ GoodMeeting(id, m, admitted)
      BY <1>1 DEF IInv, StoreInv, GoodMeeting
<1>3. n \in Meeting
      BY <1>1, <1>2, SeatedIsGood DEF GoodMeeting
<1>4. /\ n.host = m.host
      /\ \A w \in User \ {u} : PlaceOf(n, w) = PlaceOf(m, w)
      /\ u = m.host => PlaceOf(n, u) = "inside"
      /\ (u # m.host /\ PlaceOf(m, u) = "outside") => PlaceOf(n, u) = "waiting"
      /\ (u # m.host /\ PlaceOf(m, u) # "outside") => PlaceOf(n, u) = PlaceOf(m, u)
      BY <1>2 DEF Seated, PlaceOf, Meeting
<1>5. Contract!Cardinality(Contract!Seats(id)) < Capacity
      BY <1>1, <1>2, ContractSeats, ContractCardinality, NotFullLeavesASeat
         DEF GoodMeeting
<1>6. Owners[id] = m.host
      BY <1>1 DEF Owners
<1>7. PlaceOf(m, u) \in {"outside", "inside"} \/ u # m.host
      BY <1>2 DEF GoodMeeting, PlaceOf
<1> HIDE DEF m, n
<1>8. CASE PlaceOf(n, u) = PlaceOf(m, u)
      BY <1>1, <1>3, <1>4, <1>8, UpdatedStutters DEF m
<1>9. CASE u = m.host /\ PlaceOf(m, u) = "outside"
  <2>1. Contract!Move(id, u, {"outside"}, PlaceOf(n, u))
        BY <1>1, <1>3, <1>4, <1>9, UpdatedMoves DEF m
  <2> QED BY <1>4, <1>5, <1>6, <1>9, <2>1 DEF Contract!Enter
<1>10. CASE u # m.host /\ PlaceOf(m, u) = "outside"
  <2>1. Contract!Move(id, u, {"outside"}, PlaceOf(n, u))
        BY <1>1, <1>3, <1>4, <1>10, UpdatedMoves DEF m
  <2> QED BY <1>4, <1>5, <1>6, <1>10, <2>1 DEF Contract!Knock
<1> QED BY <1>4, <1>7, <1>8, <1>9, <1>10

LEMMA AdmitRefines ==
    ASSUME IInv, NEW t, NEW u \in User, NEW v \in User, NEW id \in Id,
           Admit(t, u, v, id)
    PROVE  Contract!Admit(id, v)
<1> DEFINE m == meetings[id]
           n == Admitted(m, v)
<1>1. /\ id \in Live /\ v \in m.waiting
      /\ Updated(t, "admit", u, id, n, "publish")
      BY DEF Admit, Arrives
<1>2. m \in Meeting /\ m.participants \cap m.waiting = {}
      BY <1>1 DEF IInv, StoreInv, GoodMeeting
<1>3. n \in Meeting /\ n.host = m.host
      BY <1>2 DEF Admitted, Meeting, MeetingState
<1>4. /\ PlaceOf(m, v) = "waiting" /\ PlaceOf(n, v) = "inside"
      /\ \A w \in User \ {v} : PlaceOf(n, w) = PlaceOf(m, w)
      BY <1>1, <1>2 DEF Admitted, PlaceOf, Meeting
<1>5. Contract!Move(id, v, {"waiting"}, PlaceOf(n, v))
      BY <1>1, <1>3, <1>4, UpdatedMoves
<1> QED BY <1>4, <1>5 DEF Contract!Admit

LEMMA LeaveRefines ==
    ASSUME IInv, NEW t, NEW u \in User, NEW id \in Id, Leave(t, u, id)
    PROVE  Contract!Depart(id, u) \/ UNCHANGED Contract!vars
<1> DEFINE m == meetings[id]
           n == Without(m, u)
<1>1. id \in Live /\ Updated(t, "leave", u, id, n, AfterLeave(n))
      BY DEF Leave, Arrives
<1>2. m \in Meeting
      BY <1>1 DEF IInv, StoreInv, GoodMeeting
<1>3. n \in Meeting /\ n.host = m.host
      BY <1>2 DEF Without, Meeting
<1>4. /\ PlaceOf(n, u) = "outside"
      /\ \A w \in User \ {u} : PlaceOf(n, w) = PlaceOf(m, w)
      BY <1>2 DEF Without, PlaceOf, Meeting
<1> QED BY <1>1, <1>3, <1>4, UpdatedDeparts

LEMMA RejectRefines ==
    ASSUME IInv, NEW t, NEW u \in User, NEW v \in User, NEW id \in Id,
           Reject(t, u, v, id)
    PROVE  Contract!Depart(id, v) \/ UNCHANGED Contract!vars
<1> DEFINE m == meetings[id]
           n == [m EXCEPT !.waiting = @ \ {v}]
<1>1. id \in Live /\ Updated(t, "reject", u, id, n, "publish")
      BY DEF Reject, Arrives
<1>2. m \in Meeting
      BY <1>1 DEF IInv, StoreInv, GoodMeeting
<1>3. n \in Meeting /\ n.host = m.host
      BY <1>2 DEF Meeting
<1>4. /\ PlaceOf(n, v) \in {"outside", PlaceOf(m, v)}
      /\ \A w \in User \ {v} : PlaceOf(n, w) = PlaceOf(m, w)
      BY <1>2 DEF PlaceOf, Meeting
<1> QED BY <1>1, <1>3, <1>4, UpdatedDeparts

LEMMA RemoveRefines ==
    ASSUME IInv, NEW t, NEW u \in User, NEW v \in User, NEW id \in Id,
           Remove(t, u, v, id)
    PROVE  Contract!Depart(id, v) \/ UNCHANGED Contract!vars
<1> DEFINE m == meetings[id]
           n == [m EXCEPT !.participants = @ \ {v}]
<1>1. id \in Live /\ Updated(t, "remove", u, id, n, "publish")
      BY DEF Remove, Arrives
<1>2. m \in Meeting /\ m.participants \cap m.waiting = {}
      BY <1>1 DEF IInv, StoreInv, GoodMeeting
<1>3. n \in Meeting /\ n.host = m.host
      BY <1>2 DEF Meeting
<1>4. /\ PlaceOf(n, v) \in {"outside", PlaceOf(m, v)}
      /\ \A w \in User \ {v} : PlaceOf(n, w) = PlaceOf(m, w)
      BY <1>2 DEF PlaceOf, Meeting
<1> QED BY <1>1, <1>3, <1>4, UpdatedDeparts

LEMMA EndRefines ==
    ASSUME IInv, NEW t, NEW u \in User, NEW id \in Id, End(t, u, id)
    PROVE  UNCHANGED Contract!vars
<1> DEFINE m == meetings[id]
           n == [m EXCEPT !.state = "ending"]
<1>1. id \in Live /\ Updated(t, "end", u, id, n, "farewell")
      BY DEF End, Arrives
<1>2. m \in Meeting
      BY <1>1 DEF IInv, StoreInv, GoodMeeting
<1>3. n \in Meeting /\ n.host = m.host
      BY <1>2 DEF Meeting, MeetingState
<1>4. \A w \in User : PlaceOf(n, w) = PlaceOf(m, w)
      BY <1>2 DEF PlaceOf, Meeting
<1> QED BY <1>1, <1>3, <1>4, UpdatedStutters

LEMMA CreateRefines ==
    ASSUME IInv, NEW t, NEW u \in User, NEW id \in Id, Create(t, u, id)
    PROVE  Contract!Open(id, u)
<1> DEFINE m == [host |-> u, participants |-> {}, waiting |-> {},
                 state |-> "waiting"]
<1>1. /\ meetings' = [meetings EXCEPT ![id] = m]
      /\ created' = created \cup {id}
      /\ id \notin created
      BY DEF Create
<1>2. /\ m \in Meeting /\ m.host = u
      /\ \A w \in User : PlaceOf(m, w) = "outside"
      BY DEF Meeting, MeetingState, PlaceOf
<1> HIDE DEF m
<1>3. Live' = Live \cup {id} /\ id \notin Live
      BY <1>1, <1>2, NoMeetingIsNone DEF IInv, TypeOK, HistoryInv, Live
<1>4. meetings'[id] = m /\ \A i \in Id : i # id => meetings'[i] = meetings[i]
      BY <1>1 DEF IInv, TypeOK
<1>5. Owners' = [Owners EXCEPT ![id] = u]
      BY <1>2, <1>3, <1>4 DEF Owners
<1>6. Places' = Places
      BY <1>2, <1>3, <1>4 DEF Places
<1> QED BY <1>1, <1>5, <1>6 DEF Contract!Open

LEMMA DeleteRefines ==
    ASSUME IInv, NEW t \in Thread, Delete(t)
    PROVE  Contract!Close(job[t].id) \/ UNCHANGED Contract!vars
<1> DEFINE id == job[t].id
<1>1. id \in Id
      BY DEF Delete, At, IInv, TypeOK, Job
<1>2. /\ meetings' = [meetings EXCEPT ![id] = NoMeeting]
      /\ created' = created
      BY DEF Delete
<1> HIDE DEF id
<1>3. Live' = Live \ {id}
      BY <1>1, <1>2 DEF IInv, TypeOK, Live
<1>4. \A i \in Id : i # id => meetings'[i] = meetings[i]
      BY <1>1, <1>2 DEF IInv, TypeOK
<1>5. CASE id \in Live
  <2>1. Owners' = [Owners EXCEPT ![id] = NoUser]
        BY <1>3, <1>4 DEF Owners
  <2>2. Places' = [Places EXCEPT ![id] = Contract!Nobody]
        BY <1>3, <1>4 DEF Places, Contract!Nobody
  <2>3. Contract!IsOpen(id)
        BY <1>1, <1>5, NoUserIsNone
           DEF Contract!IsOpen, Owners, IInv, StoreInv, GoodMeeting, Meeting
  <2> QED BY <1>2, <2>1, <2>2, <2>3 DEF Contract!Close, id
<1>6. CASE id \notin Live
  <2>1. Owners' = Owners /\ Places' = Places
        BY <1>3, <1>4, <1>6 DEF Owners, Places
  <2> QED BY <1>2, <2>1 DEF Contract!vars
<1> QED BY <1>5, <1>6

\* A step that leaves the store and the ids alone is invisible to the contract.
LEMMA QuietRefines ==
    ASSUME UNCHANGED <<meetings, created>>
    PROVE  UNCHANGED Contract!vars
BY DEF Contract!vars, Owners, Places, Live

LEMMA NextRefines == IInv /\ [Next]_vars => [Contract!Next]_(Contract!vars)
<1> SUFFICES ASSUME IInv, [Next]_vars
             PROVE  Contract!Next \/ UNCHANGED Contract!vars
    OBVIOUS
<1>1. CASE UNCHANGED vars
      BY <1>1, QuietRefines DEF vars
<1>2. ASSUME NEW t \in Thread, Request(t)
      PROVE  Contract!Next \/ UNCHANGED Contract!vars
  <2> PICK u \in User, id \in Id :
        \/ Create(t, u, id)
        \/ Join(t, u, id)
        \/ JoinFull(t, u, id)
        \/ Leave(t, u, id)
        \/ RemoveHost(t, u, id)
        \/ End(t, u, id)
        \/ \E op \in Op : NotFound(t, op, u, id) \/ HostOnly(t, op, u, id)
        \/ \E v \in User :
            \/ Admit(t, u, v, id)
            \/ Reject(t, u, v, id)
            \/ Remove(t, u, v, id)
            \/ \E op \in Op : NotWaiting(t, op, u, v, id)
      BY <1>2 DEF Request
  <2>1. CASE Create(t, u, id)
        BY <2>1, CreateRefines DEF Contract!Next
  <2>2. CASE Join(t, u, id)
        BY <2>2, JoinRefines DEF Contract!Next
  <2>3. CASE Leave(t, u, id)
        BY <2>3, LeaveRefines DEF Contract!Next
  <2>4. CASE End(t, u, id)
        BY <2>4, EndRefines
  <2>5. ASSUME NEW v \in User, Admit(t, u, v, id)
        PROVE  Contract!Next
        BY <2>5, AdmitRefines DEF Contract!Next
  <2>6. ASSUME NEW v \in User, Reject(t, u, v, id)
        PROVE  Contract!Next \/ UNCHANGED Contract!vars
        BY <2>6, RejectRefines DEF Contract!Next
  <2>7. ASSUME NEW v \in User, Remove(t, u, v, id)
        PROVE  Contract!Next \/ UNCHANGED Contract!vars
        BY <2>7, RemoveRefines DEF Contract!Next
  <2>8. CASE JoinFull(t, u, id) \/ RemoveHost(t, u, id)
        BY <2>8, QuietRefines DEF JoinFull, RemoveHost, Refused
  <2>9. ASSUME NEW op \in Op, NotFound(t, op, u, id) \/ HostOnly(t, op, u, id)
        PROVE  UNCHANGED Contract!vars
        BY <2>9, QuietRefines DEF NotFound, HostOnly, Refused
  <2>10. ASSUME NEW v \in User, NEW op \in Op, NotWaiting(t, op, u, v, id)
         PROVE  UNCHANGED Contract!vars
         BY <2>10, QuietRefines DEF NotWaiting, Refused
  <2> QED BY <2>1, <2>2, <2>3, <2>4, <2>5, <2>6, <2>7, <2>8, <2>9, <2>10
<1>3. ASSUME NEW t \in Thread, Continue(t)
      PROVE  Contract!Next \/ UNCHANGED Contract!vars
  <2>1. CASE Delete(t)
    <3>1. job[t].id \in Id
          BY <2>1 DEF Delete, At, IInv, TypeOK, Job
    <3> QED BY <2>1, <3>1, DeleteRefines DEF Contract!Next
  <2>2. CASE Publish(t) \/ MintToken(t) \/ Farewell(t) \/ Sweep(t) \/ Return(t)
        BY <2>2, QuietRefines DEF Publish, MintToken, Farewell, Sweep, Return
  <2> QED BY <1>3, <2>1, <2>2 DEF Continue
<1> QED BY <1>1, <1>2, <1>3 DEF Next

LEMMA InitRefines == Init => Contract!Init
<1> SUFFICES ASSUME Init PROVE Contract!Init
    OBVIOUS
<1>1. Live = {}
      BY DEF Init, Live
<1>2. Owners = [id \in Id |-> NoUser]
      BY <1>1 DEF Owners
<1>3. Places = [id \in Id |-> Contract!Nobody]
      BY <1>1 DEF Places, Contract!Nobody
<1> QED BY <1>2, <1>3 DEF Init, Contract!Init

\* The concurrent handlers of api.go implement the admission contract: every
\* step of theirs is a step of Lobby or changes nobody's place.
THEOREM Refinement == Spec => ImplementsLobby
<1>1. Init => Contract!Init
      BY InitRefines
<1>2. IInv /\ [Next]_vars => [Contract!Next]_(Contract!vars)
      BY NextRefines
<1> QED BY <1>1, <1>2, Inductive, PTL DEF Spec, ImplementsLobby, Contract!Spec
=============================================================================
