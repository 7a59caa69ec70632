---------------------------- MODULE MatchServer ----------------------------
(***************************************************************************)
(* The match server: client sessions, rooms and their index, quick match,  *)
(* and the handoff of a room to an instance server.                        *)
(*                                                                         *)
(* Every room and the server itself is a JobQueue.  What JobQueue.tla      *)
(* proves of one is taken here as the shape of the model: a queue of jobs  *)
(* per object, run one at a time and in order.  Packet handlers and        *)
(* disconnections run outside the queues, at any time.  What a body works  *)
(* on is its own object's, so it is one step; only the body of a leave     *)
(* reads and then writes what others write as well, the room a session     *)
(* points to, and is two.                                                  *)
(***************************************************************************)
EXTENDS Room

CONSTANTS
    RoomCount,       \* bound: ids RoomManager::Create may hand out
    MaxRooms,        \* settings.maxRooms
    Attempts,        \* settings.quickMatchAttempts
    Locks,           \* whether clients create locked rooms: a subset of BOOLEAN
    InstanceCount,   \* bound: matches that may be started
    Peer,            \* control connections of instance servers
    PeerCapacity,    \* capacity an instance server announces, 0 for unbounded
    Traffic,         \* bound: what the clients do, of the kinds of packet and "drop"
    MaxEvents        \* bound: packets and disconnections after the hellos

ASSUME MatchServerAssumption ==
    /\ RoomCount \in Nat /\ MaxRooms \in Nat /\ Attempts \in Nat
    /\ InstanceCount \in Nat /\ PeerCapacity \in Nat /\ MaxEvents \in Nat
    /\ Locks \subseteq BOOLEAN
    /\ None \notin Peer

RoomId == 1..RoomCount
InstanceId == 1..InstanceCount

VARIABLES
    events,         \* packets handled and connections dropped, for the bound
    conn,           \* a session: not yet hello'd, in, or gone
    roomOf,         \* the session's _roomId
    clearing,       \* rooms whose leave has read _roomId and is about to clear it
    created,        \* rooms created so far: _nextRoomId - 1
    registered,     \* keys of RoomManager::_rooms
    summaries,      \* RoomManager::_summaries
    rooms,          \* the Room objects
    roomJobs,       \* the job queue of each room
    serverJobs,     \* the job queue of the match server
    memberships,    \* _memberships: what chat and voice have been told
    handoffs,       \* _pendingHandoffs
    started,        \* _nextInstanceId - 1
    instances,      \* where each instance is in its life, on the instance server
    peers,          \* a control connection: not yet, in the registry, or gone
    loads           \* _load of each connection

sessionVars == <<events, conn, roomOf, clearing>>
indexVars == <<created, registered, summaries>>
handoffVars == <<memberships, handoffs, started>>
peerVars == <<instances, peers, loads>>
vars == <<events, conn, roomOf, clearing, created, registered, summaries, rooms,
          roomJobs, serverJobs, memberships, handoffs, started, instances, peers, loads>>

Presence == {"new", "in", "gone"}
Phase == {"AwaitingCreate", "AwaitingJoin", "Running"}
Life == {"none", "asked", "created", "told", "live", "over"}
Channel == {<<"room", r>> : r \in RoomId} \cup {<<"instance", i>> : i \in InstanceId}
Handoff ==
    [room : RoomId, phase : Phase, roster : SUBSET Session, peer : Peer, late : BOOLEAN]

ASSUME NoneAssumption == None \notin RoomId \cup Handoff

RoomJob ==
    [op : {"join"}, who : Session, opens : BOOLEAN, via : {"hand", "match", "opened"},
     rest : Seq(RoomId)]
    \cup [op : {"leave", "start"}, who : Session]
    \cup [op : {"kick"}, who : Session, target : Session]
    \cup [op : {"ready"}, who : Session, ready : BOOLEAN]
    \cup [op : {"tickets"}, instance : InstanceId, roster : SUBSET Session]
    \cup [op : {"running"}, roster : SUBSET Session]
    \cup [op : {"failed", "finished"}]

ServerJob ==
    [op : {"enter", "exit"}, who : SUBSET Session, channel : Channel]
    \cup [op : {"closed"}, who : Session]
    \cup [op : {"begin"}, room : RoomId, roster : SUBSET Session]
    \cup [op : {"created"}, instance : InstanceId, ok : BOOLEAN]
    \cup [op : {"live", "over"}, instance : InstanceId]
    \cup [op : {"sweep"}]

TypeOK ==
    /\ events \in 0..MaxEvents
    /\ conn \in [Session -> Presence]
    /\ roomOf \in [Session -> RoomId \cup {None}] /\ clearing \subseteq RoomId
    /\ created \in 0..RoomCount
    /\ registered \subseteq 1..created
    /\ summaries \in [RoomId -> Listing \cup {None}]
    /\ rooms \in [RoomId -> RoomRecord]
    /\ roomJobs \in [RoomId -> Seq(RoomJob)]
    /\ serverJobs \in Seq(ServerJob)
    /\ memberships \subseteq Session \X Channel
    /\ handoffs \in [InstanceId -> Handoff \cup {None}]
    /\ started \in 0..InstanceCount
    /\ instances \in [InstanceId -> Life]
    /\ peers \in [Peer -> Presence]
    /\ loads \in [Peer -> Int]

Init ==
    /\ events = 0
    /\ conn = [s \in Session |-> "new"]
    /\ roomOf = [s \in Session |-> None] /\ clearing = {}
    /\ created = 0
    /\ registered = {}
    /\ summaries = [r \in RoomId |-> None]
    /\ rooms = [r \in RoomId |-> NewRoom(FALSE)]
    /\ roomJobs = [r \in RoomId |-> <<>>]
    /\ serverJobs = <<>>
    /\ memberships = {}
    /\ handoffs = [i \in InstanceId |-> None]
    /\ started = 0
    /\ instances = [i \in InstanceId |-> "none"]
    /\ peers = [p \in Peer |-> "new"]
    /\ loads = [p \in Peer |-> 0]
-----------------------------------------------------------------------------
(***************************************************************************)
(* Queues                                                                  *)
(***************************************************************************)

Post(jobs, r, job) == [jobs EXCEPT ![r] = Append(@, job)]

JoinJob(s, opens, via, rest) ==
    [op |-> "join", who |-> s, opens |-> opens, via |-> via, rest |-> rest]
LeaveJob(s) == [op |-> "leave", who |-> s]
FailedJob == [op |-> "failed"]

\* The roster is who the match was created for, which the job does not carry: it is
\* only compared (MatchIsTheRooms).
RunningJob(roster) == [op |-> "running", roster |-> roster]

\* PushChannelJoin and PushChannelLeave, for players pushed one after the other.
EnterJob(players, channel) == [op |-> "enter", who |-> players, channel |-> channel]
ExitJob(players, channel) == [op |-> "exit", who |-> players, channel |-> channel]

\* The body at the head of a queue is about to run.
Runs(r, op) == roomJobs[r] # <<>> /\ Head(roomJobs[r]).op = op
Popped(r) == [roomJobs EXCEPT ![r] = Tail(@)]
ServerRuns(op) == serverJobs # <<>> /\ Head(serverJobs).op = op
-----------------------------------------------------------------------------
(***************************************************************************)
(* The index: RoomManager                                                  *)
(***************************************************************************)

\* RoomManager::Create, with the join its caller enqueues.  Running out of room
\* ids, a bound of the model, looks like a full server.
Full == Cardinality(registered) >= MaxRooms \/ created = RoomCount

Create(job, jobs) ==
    IF Full
    THEN roomJobs' = jobs /\ UNCHANGED <<created, registered>>
    ELSE /\ created' = created + 1
         /\ registered' = registered \cup {created + 1}
         /\ roomJobs' = Post(jobs, created + 1, job)

\* UpdateSummary: only for rooms still registered.
Publish(r, room) ==
    summaries' = IF r \in registered THEN [summaries EXCEPT ![r] = Summary(room)]
                 ELSE summaries

\* FindQuickMatchCandidates: the fullest first, the oldest of those equally full.
Joinable ==
    {r \in RoomId :
        /\ summaries[r] # None
        /\ summaries[r].state = "Waiting"
        /\ ~summaries[r].locked
        /\ summaries[r].count < Capacity}

Before(q, r) ==
    \/ summaries[q].count > summaries[r].count
    \/ summaries[q].count = summaries[r].count /\ q < r

\* There is one such list.
Candidates ==
    {SubSeq(list, 1, IF Len(list) < Attempts THEN Len(list) ELSE Attempts) :
        list \in {sorted \in SetToSeqs(Joinable) :
            \A i, k \in DOMAIN sorted : i < k => Before(sorted[i], sorted[k])}}
-----------------------------------------------------------------------------
(***************************************************************************)
(* Quick match                                                             *)
(***************************************************************************)

\* Tries the first candidate that has not been closed since, and opens a room
\* when there is none.  jobs is what the room queues hold when it is called.
QuickMatchStep(s, candidates, jobs) ==
    LET open == {n \in DOMAIN candidates : candidates[n] \in registered} IN
    IF conn[s] # "in" \/ roomOf[s] # None
    THEN roomJobs' = jobs /\ UNCHANGED <<created, registered>>
    ELSE IF open = {}
    THEN Create(JoinJob(s, TRUE, "opened", <<>>), jobs)
    ELSE \E n \in open :
         /\ \A k \in open : n <= k
         /\ roomJobs' = Post(jobs, candidates[n],
                JoinJob(s, ~rooms[candidates[n]].locked, "match",
                        SubSeq(candidates, n + 1, Len(candidates))))
         /\ UNCHANGED <<created, registered>>
-----------------------------------------------------------------------------
(***************************************************************************)
(* Client packets                                                          *)
(***************************************************************************)

C_Hello(s) ==
    /\ conn[s] = "new"
    /\ conn' = [conn EXCEPT ![s] = "in"]
    /\ UNCHANGED <<events, roomOf, clearing, indexVars, rooms, roomJobs, serverJobs,
                   handoffVars, peerVars>>

\* Everything else a client does comes after its hello.
Event(s, kind) ==
    /\ conn[s] = "in"
    /\ kind \in Traffic
    /\ events < MaxEvents
    /\ events' = events + 1

Packet(s, kind) == Event(s, kind) /\ UNCHANGED <<conn, roomOf, clearing>>

\* The creator joins through the normal path.
C_RoomCreate(s, locked) ==
    /\ Packet(s, "create") /\ roomOf[s] = None
    /\ Create(JoinJob(s, TRUE, "hand", <<>>), roomJobs)
    /\ rooms' = IF Full THEN rooms ELSE [rooms EXCEPT ![created + 1] = NewRoom(locked)]
    /\ UNCHANGED <<summaries, serverJobs, handoffVars, peerVars>>

\* A packet that only enqueues on a room.
Enqueue(s, r, job) ==
    /\ Packet(s, job.op)
    /\ r \in registered
    /\ roomJobs' = Post(roomJobs, r, job)
    /\ UNCHANGED <<indexVars, rooms, serverJobs, handoffVars, peerVars>>

C_RoomJoin(s, r, right) ==
    /\ roomOf[s] = None
    /\ Enqueue(s, r, JoinJob(s, right \/ ~rooms[r].locked, "hand", <<>>))

C_QuickMatch(s) ==
    /\ Packet(s, "quick") /\ roomOf[s] = None
    /\ \E candidates \in Candidates : QuickMatchStep(s, candidates, roomJobs)
    /\ UNCHANGED <<summaries, rooms, serverJobs, handoffVars, peerVars>>

\* RequireRoom: the packets of a player are for the room the session points to.
ToOwnRoom(s, job) ==
    /\ roomOf[s] # None
    /\ Enqueue(s, roomOf[s], job)

C_RoomLeave(s) == ToOwnRoom(s, LeaveJob(s))
C_RoomKick(s, target) == ToOwnRoom(s, [op |-> "kick", who |-> s, target |-> target])
C_RoomReady(s, ready) == ToOwnRoom(s, [op |-> "ready", who |-> s, ready |-> ready])

C_RoomStart(s) == ToOwnRoom(s, [op |-> "start", who |-> s])

\* ClientSession::OnDisconnected.
OnDisconnected(s) ==
    /\ Event(s, "drop")
    /\ conn' = [conn EXCEPT ![s] = "gone"]
    /\ roomJobs' = IF roomOf[s] \in registered THEN Post(roomJobs, roomOf[s], LeaveJob(s))
                   ELSE roomJobs
    /\ serverJobs' = Append(serverJobs, [op |-> "closed", who |-> s])
    /\ UNCHANGED <<roomOf, clearing, indexVars, rooms, handoffVars, peerVars>>
-----------------------------------------------------------------------------
(***************************************************************************)
(* Room jobs                                                               *)
(***************************************************************************)

\* Whether a kick cooldown is over when a join runs is a matter of time only.
Lapses(r, s) == IF s \in rooms[r].cooldown THEN BOOLEAN ELSE {FALSE}

JoinAdmitted(r) ==
    LET job == Head(roomJobs[r])
        s == job.who
    IN  /\ Runs(r, "join")
        /\ \E lapsed \in Lapses(r, s) : ~Refuses(rooms[r], s, job.opens, lapsed)
        /\ rooms' = [rooms EXCEPT ![r] = Admit(@, s)]
        /\ roomOf' = [roomOf EXCEPT ![s] = r]
        /\ roomJobs' = Popped(r)
        /\ serverJobs' = Append(serverJobs, EnterJob({s}, <<"room", r>>))
        /\ Publish(r, Admit(rooms[r], s))
        /\ UNCHANGED <<events, conn, clearing, created, registered, handoffVars, peerVars>>

\* Only a quick match goes on to the next candidate.
JoinRefused(r) ==
    LET job == Head(roomJobs[r])
        s == job.who
    IN  /\ Runs(r, "join")
        /\ \E lapsed \in Lapses(r, s) :
              /\ Refuses(rooms[r], s, job.opens, lapsed)
              /\ rooms' = IF lapsed /\ rooms[r].state = "Waiting"
                          THEN [rooms EXCEPT ![r] = Lapsed(@, s)] ELSE rooms
        /\ IF job.via = "match"
           THEN QuickMatchStep(s, job.rest, Popped(r))
           ELSE roomJobs' = Popped(r) /\ UNCHANGED <<created, registered>>
        /\ UNCHANGED <<sessionVars, summaries, serverJobs, handoffVars, peerVars>>

\* The leave finds that the session points to the room, which another room may
\* change before it is overwritten: its join then counts for nothing.  That the
\* member is erased before this, and here after, nobody but the room can tell.
Compare(r, s) ==
    /\ r \notin clearing /\ roomOf[s] = r
    /\ clearing' = clearing \cup {r}
    /\ UNCHANGED <<events, conn, roomOf, indexVars, rooms, roomJobs, serverJobs, handoffVars,
                   peerVars>>

\* Wrong: whatever the session points to is overwritten.
UnpointAnyway(r, s) ==
    /\ roomOf' = [roomOf EXCEPT ![s] = None]
    /\ clearing' = clearing \ {r}

\* The second half: the pointer is overwritten if it was the room's when compared.
Unpoint(r, s) ==
    /\ r \in clearing \/ roomOf[s] # r
    /\ roomOf' = IF r \in clearing THEN [roomOf EXCEPT ![s] = None] ELSE roomOf
    /\ clearing' = clearing \ {r}

\* Wrong: the session left pointing at the room.
DepartsUnpointed(r, s, room) ==
    /\ rooms' = [rooms EXCEPT ![r] = room]
    /\ serverJobs' = Append(serverJobs, ExitJob({s}, <<"room", r>>))
    /\ IF room.state = "Closing"
       THEN /\ registered' = registered \ {r}
            /\ summaries' = [summaries EXCEPT ![r] = None]
       ELSE Publish(r, room) /\ UNCHANGED registered
    /\ clearing' = clearing \ {r}
    /\ UNCHANGED roomOf

\* Wrong: chat and voice told only when the room closes.
DepartsUntold(r, s, room) ==
    /\ rooms' = [rooms EXCEPT ![r] = room]
    /\ Unpoint(r, s)
    /\ IF room.state = "Closing"
       THEN /\ registered' = registered \ {r}
            /\ summaries' = [summaries EXCEPT ![r] = None]
            /\ serverJobs' = Append(serverJobs, ExitJob({s}, <<"room", r>>))
       ELSE Publish(r, room) /\ UNCHANGED <<registered, serverJobs>>

\* Wrong: the closed room left with the manager.
DepartsUnremoved(r, s, room) ==
    /\ rooms' = [rooms EXCEPT ![r] = room]
    /\ Unpoint(r, s)
    /\ serverJobs' = Append(serverJobs, ExitJob({s}, <<"room", r>>))
    /\ Publish(r, room)
    /\ UNCHANGED registered

\* A member is gone from the room, which closes behind the last one.
Departs(r, s, room) ==
    /\ rooms' = [rooms EXCEPT ![r] = room]
    /\ Unpoint(r, s)
    /\ serverJobs' = Append(serverJobs, ExitJob({s}, <<"room", r>>))
    /\ IF room.state = "Closing"
       THEN /\ registered' = registered \ {r}
            /\ summaries' = [summaries EXCEPT ![r] = None]
       ELSE Publish(r, room) /\ UNCHANGED registered

\* A room job that turns out to have nothing to do.
Passes(r) ==
    /\ roomJobs' = Popped(r)
    /\ UNCHANGED <<sessionVars, indexVars, rooms, serverJobs, handoffVars, peerVars>>

HandleLeave(r) ==
    LET s == Head(roomJobs[r]).who IN
    /\ Runs(r, "leave")
    /\ \/ s \notin Roster(rooms[r]) /\ Passes(r)
       \/ s \in Roster(rooms[r]) /\ Compare(r, s)
       \/ /\ s \in Roster(rooms[r])
          /\ Departs(r, s, Drop(rooms[r], s))
          /\ roomJobs' = Popped(r)
          /\ UNCHANGED <<events, conn, created, handoffVars, peerVars>>

HandleKick(r) ==
    LET job == Head(roomJobs[r]) IN
    /\ Runs(r, "kick")
    /\ \/ ~MayKick(rooms[r], job.who, job.target) /\ Passes(r)
       \/ MayKick(rooms[r], job.who, job.target) /\ Compare(r, job.target)
       \/ /\ MayKick(rooms[r], job.who, job.target)
          /\ Departs(r, job.target, Kicked(rooms[r], job.target))
          /\ roomJobs' = Popped(r)
          /\ UNCHANGED <<events, conn, created, handoffVars, peerVars>>

HandleReady(r) ==
    LET job == Head(roomJobs[r]) IN
    /\ Runs(r, "ready")
    /\ rooms' = [rooms EXCEPT ![r] = SetReady(@, job.who, job.ready)]
    /\ roomJobs' = Popped(r)
    /\ UNCHANGED <<sessionVars, indexVars, serverJobs, handoffVars, peerVars>>

\* The room takes a new state, with jobs left for the server.
Turns(r, room, jobs) ==
    /\ rooms' = [rooms EXCEPT ![r] = room]
    /\ Publish(r, room)
    /\ serverJobs' = serverJobs \o jobs
    /\ roomJobs' = Popped(r)
    /\ UNCHANGED <<sessionVars, created, registered, handoffVars>>

HandleStart(r) ==
    LET s == Head(roomJobs[r]).who IN
    /\ Runs(r, "start")
    /\ \/ ~MayStart(rooms[r], s) /\ Passes(r)
       \/ /\ MayStart(rooms[r], s)
          /\ Turns(r, [rooms[r] EXCEPT !.state = "Starting"],
                   <<[op |-> "begin", room |-> r, roster |-> Roster(rooms[r])]>>)
          /\ UNCHANGED peerVars

\* EnqueueHandoffReady's body: players still in the room are told where to go.
\* An instance whose players are not all told will never see them all arrive.
HandleTickets(r) ==
    LET job == Head(roomJobs[r]) IN
    /\ Runs(r, "tickets")
    /\ instances' = [instances EXCEPT ![job.instance] =
          IF /\ @ = "created" /\ rooms[r].state = "Starting"
             /\ job.roster \subseteq Roster(rooms[r])
          THEN "told" ELSE @]
    /\ roomJobs' = Popped(r)
    /\ UNCHANGED <<sessionVars, indexVars, rooms, serverJobs, handoffVars, peers, loads>>

\* EnqueueHandoffFailed's body.
HandleFailed(r) ==
    /\ Runs(r, "failed")
    /\ \/ rooms[r].state # "Starting" /\ Passes(r)
       \/ /\ rooms[r].state = "Starting"
          /\ Turns(r, [rooms[r] EXCEPT !.state = "Waiting"], <<>>)
          /\ UNCHANGED peerVars

\* EnqueueInstanceRunning's body.
HandleRunning(r) ==
    /\ Runs(r, "running")
    /\ \/ rooms[r].state # "Starting" /\ Passes(r)
       \/ /\ rooms[r].state = "Starting"
          /\ Turns(r, [rooms[r] EXCEPT !.state = "InGame"], <<>>)
          /\ UNCHANGED peerVars

\* EnqueueInstanceFinished's body.
HandleFinished(r) ==
    /\ Runs(r, "finished")
    /\ \/ rooms[r].state \notin {"InGame", "Starting"} /\ Passes(r)
       \/ /\ rooms[r].state \in {"InGame", "Starting"}
          /\ Turns(r, Returned(rooms[r]), <<>>)
          /\ UNCHANGED peerVars

RoomStep(r) ==
    \/ JoinAdmitted(r) \/ JoinRefused(r)
    \/ HandleLeave(r) \/ HandleKick(r) \/ HandleReady(r) \/ HandleStart(r)
    \/ HandleTickets(r) \/ HandleFailed(r) \/ HandleRunning(r) \/ HandleFinished(r)
-----------------------------------------------------------------------------
(***************************************************************************)
(* Server jobs                                                             *)
(***************************************************************************)

\* P_ServerHello and the loss of a control connection.
PeerHello(p) ==
    /\ peers[p] = "new"
    /\ peers' = [peers EXCEPT ![p] = "in"]
    /\ loads' = [loads EXCEPT ![p] = 0]
    /\ UNCHANGED <<sessionVars, indexVars, rooms, roomJobs, serverJobs, handoffVars, instances>>

PeerDisconnected(p) ==
    /\ peers[p] = "in"
    /\ peers' = [peers EXCEPT ![p] = "gone"]
    /\ UNCHANGED <<sessionVars, indexVars, rooms, roomJobs, serverJobs, handoffVars,
                   instances, loads>>

\* The bodies PushChannelJoin, PushChannelLeave and PushSessionClosed post.
Told(known, job) ==
    CASE job.op = "enter" -> known \cup (job.who \X {job.channel})
      [] job.op = "exit" -> known \ (job.who \X {job.channel})
      [] job.op = "closed" -> {m \in known : m[1] # job.who}
      [] OTHER -> known

TellChannels ==
    /\ ServerRuns("enter") \/ ServerRuns("exit") \/ ServerRuns("closed")
    /\ memberships' = Told(memberships, Head(serverJobs))
    /\ serverJobs' = Tail(serverJobs)
    /\ UNCHANGED <<sessionVars, indexVars, rooms, roomJobs, handoffs, started, peerVars>>

\* PickInstanceServer.
Spare == {p \in Peer : peers[p] = "in" /\ (PeerCapacity = 0 \/ loads[p] < PeerCapacity)}
LeastLoaded == {p \in Spare : \A other \in Spare : loads[p] <= loads[other]}

\* Running out of instance ids, a bound of the model, looks like no server.
NoServer == LeastLoaded = {} \/ started = InstanceCount

\* BeginHandoff's body.
BeginHandoff ==
    LET job == Head(serverJobs) IN
    /\ ServerRuns("begin")
    /\ \/ /\ NoServer
          /\ roomJobs' = Post(roomJobs, job.room, FailedJob)
          /\ UNCHANGED <<handoffs, started, instances, loads>>
       \/ \E p \in LeastLoaded :
          /\ ~NoServer
          /\ started' = started + 1
          /\ handoffs' = [handoffs EXCEPT ![started + 1] =
                [room |-> job.room, phase |-> "AwaitingCreate", roster |-> job.roster,
                 peer |-> p, late |-> FALSE]]
          /\ loads' = [loads EXCEPT ![p] = @ + 1]
          /\ instances' = [instances EXCEPT ![started + 1] = "asked"]
          /\ UNCHANGED roomJobs
    /\ serverJobs' = Tail(serverJobs)
    /\ UNCHANGED <<sessionVars, indexVars, rooms, memberships, peers>>

\* What ends with the handoffs in ended: the load they put on their servers ...
LoadsKept(ended) == loads
LoadsWithout(ended) ==
    [p \in Peer |-> loads[p] - Cardinality({i \in ended : handoffs[i].peer = p})]

\* ... the channels of their matches ...
ChannelsKept(ended) == <<>>
ChannelsLeft(ended) == SetToSeq({ExitJob(handoffs[i].roster, <<"instance", i>>) : i \in ended})

\* ... and the wait of the rooms they were for, if those are still there.
NobodyAnswered(ended, job) == roomJobs
Answered(ended, job) ==
    [r \in RoomId |-> roomJobs[r] \o
        (IF r \in registered
         THEN [n \in 1..Cardinality({i \in ended : handoffs[i].room = r}) |-> job]
         ELSE <<>>)]

\* The job whose instance no handoff is pending for does nothing.
Stale(op) ==
    /\ ServerRuns(op)
    /\ handoffs[Head(serverJobs).instance] = None
    /\ serverJobs' = Tail(serverJobs)
    /\ UNCHANGED <<sessionVars, indexVars, rooms, roomJobs, handoffVars, peerVars>>

\* HandleInstanceCreateAck's body.
HandleInstanceCreateAck ==
    LET job == Head(serverJobs)
        i == job.instance
        handoff == handoffs[i]
        r == handoff.room
        usable == job.ok /\ r \in registered
    IN  \/ Stale("created")
        \/ /\ ServerRuns("created") /\ handoff # None /\ ~usable
           /\ loads' = LoadsWithout({i})
           /\ handoffs' = [handoffs EXCEPT ![i] = None]
           /\ roomJobs' = Answered({i}, FailedJob)
           /\ serverJobs' = Tail(serverJobs)
           /\ UNCHANGED <<sessionVars, indexVars, rooms, memberships, started, instances, peers>>
        \/ /\ ServerRuns("created") /\ handoff # None /\ usable
           /\ handoffs' = [handoffs EXCEPT ![i].phase = "AwaitingJoin", ![i].late = FALSE]
           /\ roomJobs' = Post(roomJobs, r,
                 [op |-> "tickets", instance |-> i, roster |-> handoff.roster])
           /\ serverJobs' = Append(Tail(serverJobs), EnterJob(handoff.roster, <<"instance", i>>))
           /\ UNCHANGED <<sessionVars, indexVars, rooms, memberships, started, peerVars>>

\* HandleInstanceReady's body.
HandleInstanceReady ==
    LET i == Head(serverJobs).instance
    IN  \/ Stale("live")
        \/ /\ ServerRuns("live") /\ handoffs[i] # None
           /\ handoffs' = [handoffs EXCEPT ![i].phase = "Running"]
           /\ roomJobs' = Answered({i}, RunningJob(handoffs[i].roster))
           /\ serverJobs' = Tail(serverJobs)
           /\ UNCHANGED <<sessionVars, indexVars, rooms, memberships, started, peerVars>>

\* HandleInstanceClosed's body: the end of a match, or a failed start.
HandleInstanceClosed ==
    LET i == Head(serverJobs).instance
        handoff == handoffs[i]
        outcome == IF handoff.phase = "Running" THEN [op |-> "finished"] ELSE FailedJob
    IN  \/ Stale("over")
        \/ /\ ServerRuns("over") /\ handoff # None
           /\ handoffs' = [handoffs EXCEPT ![i] = None]
           /\ loads' = LoadsWithout({i})
           /\ roomJobs' = Answered({i}, outcome)
           /\ serverJobs' = Tail(serverJobs) \o ChannelsLeft({i})
           /\ UNCHANGED <<sessionVars, indexVars, rooms, memberships, started, instances, peers>>

Unfinished(i) == handoffs[i] # None /\ handoffs[i].phase # "Running"
Expired == {i \in InstanceId : Unfinished(i) /\ handoffs[i].late}

\* SweepHandoffs' body.  The P_InstanceClosed it sends ends the instance, which
\* InstanceOver allows at any time.
SweepHandoffs ==
    /\ ServerRuns("sweep")
    /\ handoffs' = [i \in InstanceId |-> IF i \in Expired THEN None ELSE handoffs[i]]
    /\ loads' = LoadsWithout(Expired)
    /\ roomJobs' = Answered(Expired, FailedJob)
    /\ serverJobs' = Tail(serverJobs) \o ChannelsLeft(Expired)
    /\ UNCHANGED <<sessionVars, indexVars, rooms, memberships, started, instances, peers>>

ServerStep ==
    \/ TellChannels \/ BeginHandoff
    \/ HandleInstanceCreateAck \/ HandleInstanceReady \/ HandleInstanceClosed
    \/ SweepHandoffs

\* The maintenance timer, looked at when it has something to sweep.
MaintenanceTimer ==
    /\ Expired # {}
    /\ \A n \in DOMAIN serverJobs : serverJobs[n].op # "sweep"
    /\ serverJobs' = Append(serverJobs, [op |-> "sweep"])
    /\ UNCHANGED <<sessionVars, indexVars, rooms, roomJobs, handoffVars, peerVars>>

\* handoffTimeoutMs have passed since the handoff entered its phase.
Overdue(i) ==
    /\ Unfinished(i) /\ ~handoffs[i].late
    /\ handoffs' = [handoffs EXCEPT ![i].late = TRUE]
    /\ UNCHANGED <<sessionVars, indexVars, rooms, roomJobs, serverJobs, memberships, started,
                   peerVars>>
-----------------------------------------------------------------------------
(***************************************************************************)
(* The instance server, as far as the match server can tell.  What it      *)
(* sends arrives while the connection the handoff was given to is up; a    *)
(* report made after that is lost, unless another connection carries it.   *)
(***************************************************************************)

Connected(i) == handoffs[i] # None /\ peers[handoffs[i].peer] = "in"

Moves(i, life) ==
    /\ instances' = [instances EXCEPT ![i] = life]
    /\ UNCHANGED <<sessionVars, indexVars, rooms, roomJobs, handoffVars, peers, loads>>

Reports(i, life, job) ==
    /\ Moves(i, life)
    /\ \/ serverJobs' = Append(serverJobs, job)
       \/ ~Connected(i) /\ UNCHANGED serverJobs

\* P_InstanceCreate.  It is refused when an instance of that id is still there,
\* left from before a restart of the match server.
InstanceCreated(i) ==
    /\ instances[i] = "asked"
    /\ \E ok \in BOOLEAN :
          /\ Moves(i, IF ok THEN "created" ELSE "over")
          /\ serverJobs' = IF Connected(i)
                           THEN Append(serverJobs, [op |-> "created", instance |-> i, ok |-> ok])
                           ELSE serverJobs

\* Everybody connected: ReportInstanceReady.
InstanceLive(i) ==
    /\ instances[i] = "told"
    /\ Reports(i, "live", [op |-> "live", instance |-> i])

\* Join timeout, end of the match or of the last connection, or a sweep:
\* ReportInstanceClosed.
InstanceOver(i) ==
    /\ instances[i] \in {"created", "told", "live"}
    /\ Reports(i, "over", [op |-> "over", instance |-> i])
-----------------------------------------------------------------------------
ClientStep(s) ==
    \/ C_Hello(s)
    \/ \E locked \in Locks : C_RoomCreate(s, locked)
    \/ \E r \in 1..created, right \in BOOLEAN : C_RoomJoin(s, r, right)
    \/ C_QuickMatch(s)
    \/ C_RoomLeave(s)
    \/ \E target \in Session : C_RoomKick(s, target)
    \/ \E ready \in BOOLEAN : C_RoomReady(s, ready)
    \/ C_RoomStart(s)
    \/ OnDisconnected(s)

Next ==
    \/ \E s \in Session : ClientStep(s)
    \/ \E r \in RoomId : RoomStep(r)
    \/ ServerStep
    \/ MaintenanceTimer
    \/ \E i \in InstanceId :
          Overdue(i) \/ InstanceCreated(i) \/ InstanceLive(i) \/ InstanceOver(i)
    \/ \E p \in Peer : PeerHello(p) \/ PeerDisconnected(p)

\* A queue with a job in it is drained (JobQueue.tla, EveryJobRuns), timers fire
\* (JobTimer.tla, TimerFires) and time passes.  Players and instance servers owe
\* the match server nothing.
Fairness ==
    /\ \A r \in RoomId : WF_vars(RoomStep(r))
    /\ WF_vars(ServerStep)
    /\ WF_vars(MaintenanceTimer)
    /\ \A i \in InstanceId : WF_vars(Overdue(i))

Spec == Init /\ [][Next]_vars /\ Fairness
-----------------------------------------------------------------------------
(***************************************************************************)
(* Rooms                                                                   *)
(***************************************************************************)

\* The host is always the longest-present member, through any order of leaves,
\* kicks, disconnections and joins (Room.cpp:494): a room whose host is not one
\* of its members could never be started, configured or cleaned up.
HostIsLongestPresent ==
    \A r \in RoomId : rooms[r].members # <<>> => rooms[r].host = rooms[r].members[1].sid

\* No two members of a room share a slot, which is what the instance tells
\* players apart by.
SlotsDistinct ==
    \A r \in RoomId : \A i, k \in DOMAIN rooms[r].members :
        i # k => rooms[r].members[i].slot # rooms[r].members[k].slot

\* The room a session points to has it as a member.  A pointer left behind would
\* never go: the room's leave does nothing for who is no member (Room.cpp:168), and
\* every other room is refused to who points to one (MatchServer.cpp:108, 143, 162).
PointerIsMember ==
    \A s \in Session : roomOf[s] # None => s \in Roster(rooms[roomOf[s]])

\* A room that keeps a player loses the pointer to another room, or to the leave from
\* another room which had compared the pointer before this room's join set it.
KeepsPointer ==
    \A s \in Session, r \in RoomId :
        roomOf[s] = r /\ roomOf'[s] # r /\ s \in Roster(rooms'[r]) =>
            \/ roomOf'[s] # None
            \/ \E q \in clearing \ {r} : s \in Roster(rooms[q]) \ Roster(rooms'[q])

\* Nobody is locked into a room that does not know them, and nobody is cut off from
\* a room that keeps them, so that their leave and their disconnection find it, but by
\* a lost update: rooms write the pointer from queues of their own (Room.cpp:139,
\* 179-180), and who is in two rooms at once may lose both.
PointerLeads == [][PointerIsMember' /\ KeepsPointer]_vars

\* A room with members is registered, and listed as it is: nobody ends up in a
\* room that was closed while their join was waiting, and no mutation leaves
\* the search index behind (Room.h:96).
ListingIsCurrent ==
    \A r \in RoomId :
        /\ rooms[r].members # <<>> => r \in registered /\ summaries[r] = Summary(rooms[r])
        /\ rooms[r].members = <<>> => summaries[r] = None

\* A room that is registered and empty has a join on its way that it will admit,
\* whatever closes, fills or drops out in between, so no id of maxRooms leaks.
NoRoomLeaks ==
    \A r \in registered : rooms[r].members = <<>> =>
        \E n \in DOMAIN roomJobs[r] : roomJobs[r][n].op = "join" /\ roomJobs[r][n].opens

Enters(job, m) == job.op = "enter" /\ m[1] \in job.who /\ m[2] = job.channel
Removes(job, m) ==
    \/ job.op = "exit" /\ m[1] \in job.who /\ m[2] = job.channel
    \/ job.op = "closed" /\ m[1] = job.who

\* What is known once jobs have run: the last word is that of the last job.
Known(known, jobs) ==
    {m \in Session \X Channel :
        \/ m \in known /\ \A n \in DOMAIN jobs : ~Removes(jobs[n], m)
        \/ \E n \in DOMAIN jobs :
              /\ Enters(jobs[n], m)
              /\ \A k \in DOMAIN jobs : k > n => ~Removes(jobs[k], m)}

ToBeTold == Known(memberships, serverJobs)

\* What chat and voice have been told, and are about to be told, of a room is
\* its roster, except for players whose connection is gone.
RosterIsTold ==
    \A r \in RoomId, s \in Session :
        LET told == <<s, <<"room", r>>>> \in ToBeTold IN
        /\ told => s \in Roster(rooms[r])
        /\ s \in Roster(rooms[r]) /\ conn[s] = "in" => told

(***************************************************************************)
(* Handoff                                                                 *)
(***************************************************************************)

StartPending(r) ==
    \/ \E n \in DOMAIN serverJobs : serverJobs[n].op = "begin" /\ serverJobs[n].room = r
    \/ \E i \in InstanceId : Unfinished(i) /\ handoffs[i].room = r
    \/ \E n \in DOMAIN roomJobs[r] : roomJobs[r][n].op \in {"failed", "running", "finished"}

\* A room that waits for an instance has something left to wait for: whatever
\* is lost, and however old starts cross new ones, no room waits on nothing.
StartingIsPending ==
    \A r \in RoomId : rooms[r].state = "Starting" => StartPending(r)

\* Every start ends: the match runs, or the room is back in the lobby, or it
\* closed (MatchServer.h:26).
StartsResolve ==
    \A r \in RoomId : rooms[r].state = "Starting" ~> rooms[r].state # "Starting"

\* The load of a registered instance server is the number of handoffs that were
\* given to it and have not ended, so it is never passed over for matches that
\* are long gone nor overfilled.
LoadIsPending ==
    \A p \in Peer : peers[p] = "in" =>
        loads[p] = Cardinality({i \in InstanceId : handoffs[i] # None /\ handoffs[i].peer = p})

\* Nobody is left in the chat and voice channels of a match that ended.
MatchChannelsEnd ==
    \A i \in InstanceId, s \in Session :
        <<s, <<"instance", i>>>> \in ToBeTold =>
            handoffs[i] # None /\ handoffs[i].phase # "AwaitingCreate"

\* Room.cpp:335 and Types.h:29: the member list cannot change while a room is
\* Starting, so the players of the match that takes a room to InGame are the
\* players of the room.
MatchIsTheRooms ==
    [][\A r \in RoomId :
          rooms[r].state = "Starting" /\ rooms'[r].state = "InGame" =>
              Head(roomJobs[r]).roster = Roster(rooms[r])]_vars
=============================================================================
