----------------------------- MODULE MeetingApi -----------------------------
(***************************************************************************)
(* The admission handlers of backend/internal/api/api.go running            *)
(* concurrently over the store of backend/internal/meeting/store.go.        *)
(*                                                                          *)
(* A handler holds the store's lock only inside Store.Create, Update and    *)
(* Delete; everything after Update (the broadcast, the second lock for      *)
(* Delete, the media token, the room cleanup goroutine) works on the clone  *)
(* Update returned, while other handlers run.  So a request is one action   *)
(* for its arrival and its Update, then one action per later step.          *)
(*                                                                          *)
(* Abstractions: a participant is its user id (names, timestamps and the    *)
(* media flags are left out); chat, mute and media do not touch membership  *)
(* and are left out; ids are fresh (friendlyID draws one of 31^9 and does   *)
(* not look for a collision); a broadcast is one step, kept only as the     *)
(* fact that meeting.ended was sent.                                        *)
(***************************************************************************)
EXTENDS Integers, FiniteSets

CONSTANTS
    User,       \* authenticated users
    Id,         \* meeting ids
    Thread,     \* request goroutines that may run at once
    Capacity,   \* the literal 100 of join: participants plus waiting room
    NoMeeting,  \* an id the store's map does not hold
    NoJob,      \* an idle request goroutine
    NoUser      \* no user (the owner of a meeting the store does not hold)

ASSUME UsersFinite == IsFiniteSet(User)
ASSUME CapacityPositive == Capacity \in Nat \ {0}

MeetingState == {"waiting", "active", "ending"}

Meeting == [host: User, participants: SUBSET User, waiting: SUBSET User,
            state: MeetingState]

Op == {"join", "admit", "reject", "leave", "remove", "end"}

\* Where a request goroutine stands: about to Broadcast a meeting snapshot,
\* to Broadcast meeting.ended, to Delete, to mint a media token, to start the
\* LiveKit cleanup goroutine, or to return with its reply written.
Pc == {"publish", "farewell", "delete", "token", "sweep", "done"}

\* 200 "admitted" and "waiting" of join, 200 or 204 "ok" of the others, and
\* the problems 400, 403, 404 (status) and 502.
Reply == {"none", "admitted", "waiting", "ok",
          "bad request", "forbidden", "not found", "bad gateway"}

Job == [op: Op, id: Id, user: User, snap: Meeting \cup {NoMeeting},
        pc: Pc, reply: Reply]

ASSUME NoMeetingIsNone == NoMeeting \notin Meeting
ASSUME NoJobIsNone == NoJob \notin Job
ASSUME NoUserIsNone == NoUser \notin User

VARIABLES
    meetings,   \* Store.meetings
    created,    \* history: the ids Create has handed out
    job,        \* job[t]: the locals of the handler goroutine t runs
    admitted,   \* history: <<id, u>> when a host's admit moved u inside
    announced,  \* history: ids whose meeting.ended was broadcast
    swept       \* history: ids whose LiveKit cleanup goroutine was started

vars == <<meetings, created, job, admitted, announced, swept>>

Live == {id \in Id : meetings[id] # NoMeeting}

Seats(m) == m.participants \cup m.waiting

----------------------------------------------------------------------------

Init ==
    /\ meetings = [id \in Id |-> NoMeeting]
    /\ created = {}
    /\ job = [t \in Thread |-> NoJob]
    /\ admitted = {}
    /\ announced = {}
    /\ swept = {}

\* Mutant: an id that was handed out before is drawn again.
CreateAnyId(t, u, id) ==
    /\ job[t] = NoJob
    /\ id \notin Live
    /\ meetings' = [meetings EXCEPT ![id] =
            [host |-> u, participants |-> {}, waiting |-> {},
             state |-> "waiting"]]
    /\ created' = created \cup {id}
    /\ UNCHANGED <<job, admitted, announced, swept>>

\* POST /meetings.  Nothing is left to do after Store.Create.
Create(t, u, id) ==
    /\ job[t] = NoJob
    /\ id \notin created
    /\ meetings' = [meetings EXCEPT ![id] =
            [host |-> u, participants |-> {}, waiting |-> {},
             state |-> "waiting"]]
    /\ created' = created \cup {id}
    /\ UNCHANGED <<job, admitted, announced, swept>>

\* Store.Update succeeded: the closure left m, a clone of which is the
\* handler's snapshot, and the handler goes on at pc.
Updated(t, op, u, id, m, pc) ==
    /\ meetings' = [meetings EXCEPT ![id] = m]
    /\ job' = [job EXCEPT ![t] = [op |-> op, id |-> id, user |-> u,
                                  snap |-> m, pc |-> pc, reply |-> "none"]]
    /\ UNCHANGED <<created, announced, swept>>

\* Store.Update failed: problem(w, status(err), ...) and nothing else.
Refused(t, op, u, id, reply) ==
    /\ job' = [job EXCEPT ![t] = [op |-> op, id |-> id, user |-> u,
                                  snap |-> NoMeeting, pc |-> "done",
                                  reply |-> reply]]
    /\ UNCHANGED <<meetings, created, admitted, announced, swept>>

\* A request for a meeting the store holds.
Arrives(t, id) ==
    /\ job[t] = NoJob
    /\ id \in Live

NotFound(t, op, u, id) ==
    /\ job[t] = NoJob
    /\ id \notin Live
    /\ Refused(t, op, u, id, "not found")

HostOnly(t, op, u, id) ==
    /\ Arrives(t, id)
    /\ op \in {"admit", "reject", "remove", "end"}
    /\ u # meetings[id].host
    /\ Refused(t, op, u, id, "forbidden")

\* Mutant: one person too many.
IsOverfull(m) == Cardinality(m.participants) + Cardinality(m.waiting) > Capacity

IsFull(m) == Cardinality(m.participants) + Cardinality(m.waiting) >= Capacity

\* Mutant: a participant who joins again is sent back to the waiting room.
SeatedTwice(m, u) ==
    IF u = m.host
    THEN [m EXCEPT !.participants = @ \cup {u}, !.state = "active"]
    ELSE [m EXCEPT !.waiting = @ \cup {u}]

\* Mutant: once the meeting is active everybody walks in.
SeatedUnasked(m, u) ==
    IF u = m.host \/ m.state = "active"
    THEN [m EXCEPT !.participants = @ \cup {u}, !.state = "active"]
    ELSE [m EXCEPT !.waiting = @ \cup {u}]

\* The host walks in and activates the meeting; a participant joins again
\* (to get a token); anybody else is put in the waiting room.
Seated(m, u) ==
    IF u = m.host
    THEN [m EXCEPT !.participants = @ \cup {u}, !.state = "active"]
    ELSE IF u \in m.participants
         THEN m
         ELSE [m EXCEPT !.waiting = @ \cup {u}]

Join(t, u, id) ==
    /\ Arrives(t, id)
    /\ ~IsFull(meetings[id])
    /\ Updated(t, "join", u, id, Seated(meetings[id], u), "publish")
    /\ UNCHANGED admitted

JoinFull(t, u, id) ==
    /\ Arrives(t, id)
    /\ IsFull(meetings[id])
    /\ Refused(t, "join", u, id, "bad request")

Admitted(m, v) == [m EXCEPT !.waiting = @ \ {v},
                            !.participants = @ \cup {v},
                            !.state = "active"]

Admit(t, u, v, id) ==
    /\ Arrives(t, id)
    /\ u = meetings[id].host
    /\ v \in meetings[id].waiting
    /\ Updated(t, "admit", u, id, Admitted(meetings[id], v), "publish")
    /\ admitted' = admitted \cup {<<id, v>>}

Reject(t, u, v, id) ==
    /\ Arrives(t, id)
    /\ u = meetings[id].host
    /\ v \in meetings[id].waiting
    /\ Updated(t, "reject", u, id,
               [meetings[id] EXCEPT !.waiting = @ \ {v}], "publish")
    /\ UNCHANGED admitted

\* "participant not waiting": admitted, rejected or gone in the meantime.
NotWaiting(t, op, u, v, id) ==
    /\ Arrives(t, id)
    /\ op \in {"admit", "reject"}
    /\ u = meetings[id].host
    /\ v \notin meetings[id].waiting
    /\ Refused(t, op, u, id, "bad request")

\* What is left of a meeting when u leaves, whatever u was.
Without(m, u) == [m EXCEPT !.participants = @ \ {u}, !.waiting = @ \ {u}]

\* Mutant: the last one out leaves the meeting standing.
AfterLeaveStays(m) == "publish"

\* `destroy` is decided under the lock and acted upon after it.
AfterLeave(m) == IF m.participants = {} THEN "delete" ELSE "publish"

Leave(t, u, id) ==
    /\ Arrives(t, id)
    /\ LET m == Without(meetings[id], u)
       IN  Updated(t, "leave", u, id, m, AfterLeave(m))
    /\ UNCHANGED admitted

Remove(t, u, v, id) ==
    /\ Arrives(t, id)
    /\ u = meetings[id].host
    /\ v # u
    /\ Updated(t, "remove", u, id,
               [meetings[id] EXCEPT !.participants = @ \ {v}], "publish")
    /\ UNCHANGED admitted

RemoveHost(t, u, id) ==
    /\ Arrives(t, id)
    /\ u = meetings[id].host
    /\ Refused(t, "remove", u, id, "bad request")

End(t, u, id) ==
    /\ Arrives(t, id)
    /\ u = meetings[id].host
    /\ Updated(t, "end", u, id, [meetings[id] EXCEPT !.state = "ending"],
               "farewell")
    /\ UNCHANGED admitted

----------------------------------------------------------------------------

At(t, pc) ==
    /\ job[t] # NoJob
    /\ job[t].pc = pc

Goto(t, pc, reply) ==
    job' = [job EXCEPT ![t].pc = pc, ![t].reply = reply]

\* Hub.Broadcast of the snapshot; the reply is written right after it, except
\* by a join that found its user among the snapshot's participants.
Published(j) ==
    IF j.op = "join"
    THEN IF j.user \in j.snap.participants
         THEN [pc |-> "token", reply |-> "none"]
         ELSE [pc |-> "done", reply |-> "waiting"]
    ELSE [pc |-> "done", reply |-> "ok"]

Publish(t) ==
    /\ At(t, "publish")
    /\ Goto(t, Published(job[t]).pc, Published(job[t]).reply)
    /\ UNCHANGED <<meetings, created, admitted, announced, swept>>

\* LiveKit.Token: the token is signed, or 502.  The Update is not undone.
MintToken(t) ==
    /\ At(t, "token")
    /\ \/ Goto(t, "done", "admitted")
       \/ Goto(t, "done", "bad gateway")
    /\ UNCHANGED <<meetings, created, admitted, announced, swept>>

\* Mutant: end forgets to delete.
AfterFarewellSweeps(op) == "sweep"

\* Hub.Broadcast of meeting.ended: before Delete in end, after it in leave.
AfterFarewell(op) == IF op = "end" THEN "delete" ELSE "sweep"

Farewell(t) ==
    /\ At(t, "farewell")
    /\ announced' = announced \cup {job[t].id}
    /\ Goto(t, AfterFarewell(job[t].op), "none")
    /\ UNCHANGED <<meetings, created, admitted, swept>>

\* Mutant: leave forgets to tell the clients.
AfterDeleteSweeps(op) == "sweep"

AfterDelete(op) == IF op = "end" THEN "sweep" ELSE "farewell"

\* Mutant: the meeting is emptied and marked, but stays in the map.
DeleteMarks(t) ==
    /\ At(t, "delete")
    /\ job[t].id \in Live
    /\ meetings' = [meetings EXCEPT ![job[t].id].participants = {},
                                    ![job[t].id].waiting = {},
                                    ![job[t].id].state = "destroyed"]
    /\ Goto(t, AfterDelete(job[t].op), "none")
    /\ UNCHANGED <<created, admitted, announced, swept>>

\* Store.Delete: unconditional, and silent when the meeting is gone already.
Delete(t) ==
    /\ At(t, "delete")
    /\ meetings' = [meetings EXCEPT ![job[t].id] = NoMeeting]
    /\ Goto(t, AfterDelete(job[t].op), "none")
    /\ UNCHANGED <<created, admitted, announced, swept>>

\* 204, then deleteLiveKitRoom starts the cleanup goroutine.
Sweep(t) ==
    /\ At(t, "sweep")
    /\ swept' = swept \cup {job[t].id}
    /\ Goto(t, "done", "ok")
    /\ UNCHANGED <<meetings, created, admitted, announced>>

\* The handler returns: its locals are gone.
Return(t) ==
    /\ At(t, "done")
    /\ job' = [job EXCEPT ![t] = NoJob]
    /\ UNCHANGED <<meetings, created, admitted, announced, swept>>

----------------------------------------------------------------------------

Request(t) ==
    \E u \in User, id \in Id :
        \/ Create(t, u, id)
        \/ Join(t, u, id)
        \/ JoinFull(t, u, id)
        \/ Leave(t, u, id)
        \/ RemoveHost(t, u, id)
        \/ End(t, u, id)
        \/ \E op \in Op : NotFound(t, op, u, id) \/ HostOnly(t, op, u, id)
        \/ \E v \in User :
            \/ Admit(t, u, v, id)
            \/ Reject(t, u, v, id)
            \/ Remove(t, u, v, id)
            \/ \E op \in Op : NotWaiting(t, op, u, v, id)

Continue(t) ==
    \/ Publish(t)
    \/ MintToken(t)
    \/ Farewell(t)
    \/ Delete(t)
    \/ Sweep(t)
    \/ Return(t)

Next == \E t \in Thread : Request(t) \/ Continue(t)

Spec == Init /\ [][Next]_vars

\* The Go scheduler keeps running a handler that has begun: none of its steps
\* waits for anything but a mutex held for a bounded time.  Nothing obliges a
\* client to send a request.
FairSpec == Spec /\ \A t \in Thread : WF_vars(Continue(t))

----------------------------------------------------------------------------

\* Type invariant: every variable stays within the types of models.go and of
\* the handlers' locals.
TypeOK ==
    /\ meetings \in [Id -> Meeting \cup {NoMeeting}]
    /\ created \in SUBSET Id
    /\ job \in [Thread -> Job \cup {NoJob}]
    /\ admitted \in SUBSET (Id \X User)
    /\ announced \in SUBSET Id
    /\ swept \in SUBSET Id

\* Nobody is in the waiting room and in the meeting at once, and the host never
\* waits for an admission only the host can give (join, waitingAction).
SeatsAreExclusive ==
    \A id \in Live :
        /\ meetings[id].participants \cap meetings[id].waiting = {}
        /\ meetings[id].host \notin meetings[id].waiting

\* However joins, admissions and leaves interleave, a meeting never seats more
\* than its capacity: admit moves a person whose place join already counted.
CapacityRespected ==
    \A id \in Live : Cardinality(Seats(meetings[id])) <= Capacity

\* Everybody inside is the host or was let in by the host, in this meeting.
InsideByAdmission ==
    \A id \in Live : \A u \in meetings[id].participants :
        u = meetings[id].host \/ <<id, u>> \in admitted

\* While the state still says "waiting" nobody has come in: the two places that
\* fill Participants (join by the host, admit) also set the state.
WaitingStateMeansEmpty ==
    \A id \in Live :
        meetings[id].state = "waiting" => meetings[id].participants = {}

\* A media token is minted only for the host or for a user some admit let in,
\* although the decision is taken on a clone that may be stale by then
\* (docs/architecture.md: grants are issued "only after admission").
TokenAfterAdmission ==
    \A t \in Thread :
        (job[t] # NoJob /\ (job[t].pc = "token" \/ job[t].reply = "admitted")) =>
            \/ job[t].user = job[t].snap.host
            \/ <<job[t].id, job[t].user>> \in admitted

\* Who is where follows from the store alone: nobody is in two places, the state
\* tells whether somebody has come in.
PlacesAgree == SeatsAreExclusive /\ WaitingStateMeansEmpty

\* Nobody gets a place inside or a media token but by the host's decision, however
\* joins, admits and removals overlap.
OnlyByAdmission == InsideByAdmission /\ TokenAfterAdmission

\* The LiveKit room is swept only once the meeting is out of the store and its
\* clients were told; end and leave take these two steps in opposite orders and
\* may run at once on the same meeting.
SweptRoomIsClosed ==
    swept \subseteq announced \ Live

\* A close of the meeting was accepted, and its handler has not returned.
Closing(id) ==
    \E t \in Thread :
        /\ job[t] # NoJob
        /\ job[t].id = id
        /\ job[t].snap # NoMeeting
        /\ \/ job[t].op = "end"
           \/ job[t].op = "leave" /\ job[t].snap.participants = {}

\* Handler t is at one of the steps pcs of what it does to meeting id.
Owes(t, id, pcs) ==
    /\ job[t] # NoJob
    /\ job[t].id = id
    /\ job[t].pc \in pcs

\* Whatever is left of a close always has a handler that will do it, however the
\* ends and leaves of one meeting overlap: a meeting whose close was accepted or
\* announced is gone or will be, one that is gone was announced and swept or will
\* be.
CloseIsOwned ==
    \A id \in created :
        /\ Closing(id) =>
            id \notin Live \/ \E t \in Thread : Owes(t, id, {"farewell", "delete"})
        /\ id \in announced =>
            id \notin Live \/ \E t \in Thread : Owes(t, id, {"delete"})
        /\ id \notin Live =>
            /\ id \in announced \/ \E t \in Thread : Owes(t, id, {"farewell"})
            /\ \/ id \in swept
               \/ \E t \in Thread : Owes(t, id, {"farewell", "delete", "sweep"})

\* A close takes its steps in an order that is safe, and takes all of them.
CloseIsComplete == SweptRoomIsClosed /\ CloseIsOwned

\* With no request under way, the meetings that were announced and swept are
\* exactly those that were closed.
AtRest == \A t \in Thread : job[t] = NoJob

NothingLeftAtRest ==
    AtRest => announced = created \ Live /\ swept = created \ Live

\* The admission contract, with the places read off the store's maps.
PlaceOf(m, u) ==
    IF u \in m.participants THEN "inside"
    ELSE IF u \in m.waiting THEN "waiting"
    ELSE "outside"

Places == [id \in Id |-> [u \in User |->
                IF id \in Live THEN PlaceOf(meetings[id], u) ELSE "outside"]]

Owners == [id \in Id |-> IF id \in Live THEN meetings[id].host ELSE NoUser]

Contract == INSTANCE Lobby WITH owner <- Owners, place <- Places, used <- created

\* The concurrent handlers implement Lobby: only the owner enters unasked,
\* guests come in from the waiting room only, a seat is taken only below
\* capacity, and a closed id neither seats anybody nor opens again.
ImplementsLobby == Contract!Spec

\* An end the store accepted, and a leave that emptied the meeting, do close the
\* meeting, whatever other handlers put back into it in between.
AcceptedCloseHappens ==
    \A id \in Id : Closing(id) ~> id \notin Live

\* A closed meeting is announced to its clients and its LiveKit room is swept,
\* as long as the server keeps running.
ClosedIsAnnouncedAndSwept ==
    \A id \in Id : (id \in created \ Live) ~> (id \in announced /\ id \in swept)

----------------------------------------------------------------------------
(* What the documentation says and the handlers do not do.                  *)

\* docs/architecture.md: the room is destroyed when "the last active participant
\* invokes leave".  leave decides under one lock and deletes under another, and the
\* host may walk in in between (a join sent just before or after the leave), to be
\* thrown out of an active meeting.
LeaveDestroysAnEmptyRoom ==
    [][\A t \in Thread :
            (/\ At(t, "delete")
             /\ job[t].op = "leave"
             /\ job[t].id \in Live \ Live')
            => meetings[job[t].id].participants = {}]_vars
=============================================================================
