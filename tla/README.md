# Verification of the NHN game backend

TLA+ models of the C++ servers under `src/Server`, checked with TLC on small
instances, and theorems about most of them that hold for instances of any size,
checked with TLAPS.

    tlc -workers 2 -config JobQueue.cfg MCJobQueue      # one line per run of PROJECT.json
    tlapm PoolProofs.tla

## 1. The system

A **match server** accepts players, keeps rooms and hands a room that starts to
an **instance server**, which runs the match. A **chat** and a **voice** server
learn from the match server who is in which room or match. The satellites dial
the match server over a control link. All four are built on **ServerCore**: an
I/O completion port, a pool of identical workers, and objects that serialise
their own work as a `JobQueue`.

| component | state | operations | hard because |
|---|---|---|---|
| job queues (`JobQueue.cpp`, `ThreadManager.cpp`) | `_jobs`, `_jobCount`, the global queue; per thread `tCurrentJobQueue`, `tSliceEndTick` | `Push`, `Execute`, `PumpOnce` | every worker touches every queue with atomics only; exclusion rests on a counter |
| job timers (`JobTimer`) | heap of timers, `_distributing` | `Reserve`, `Distribute` | every worker distributes |
| rooms (`Room.cpp`) | state, members, host, slots, cooldowns | join, leave, kick, ready, start, results of a handoff | jobs wait while the world moves on; members leave in any order |
| sessions, index, quick match (`ClientSession.cpp`, `RoomManager.cpp`, `MatchServer.cpp`) | `_roomId` of a session, `_rooms`, `_summaries` | packets, disconnection, `Create`, `Remove`, `FindQuickMatchCandidates` | handlers run outside the queues and read what job bodies write |
| handoff (`MatchServer.cpp`, `PeerRegistry.cpp`) | `_pendingHandoffs`, `_memberships`, loads | `BeginHandoff`, create-ack, ready, closed, sweep | answers are late, lost, or about a start the room has given up |
| instances (`Instance.cpp`, `InstanceServer.cpp`) | members and connections, state, `_instances`, `_sessionToInstance`, tickets | create, hello, leave, join timeout, close | connections come and go; the match server only hears reports; four things may end a match |
| game (`ShootingGameMode.cpp`, `World.cpp`, `Board.cpp`) | phase, wave, round, players, board, entities, snapshots | tick, fire, member left, end | effects cross waves and rounds; one shot triggers others; shots are judged in the past |
| chat (`Channel.cpp`) | channels, sessions, pending memberships | join, leave, hello, close | client threads race the control link; empty channels are removed |
| voice (`VoiceRouter.cpp`) | peers, endpoints, channels, tickets | hello, data, bye, join, leave, closed, sweep | endpoints move between players; memberships precede and outlive hellos |
| control links (`PeerLink.cpp`, `PeerRegistry.cpp`) | the session, reconnect timer; registered peers | connect, lose, reconnect, replay of memberships | the two ends learn of a loss apart; what was sent meanwhile is lost |
| sockets (`Session.cpp`) | send queue, `_sendRegistered`, `_connected`, receive buffer, operations in flight | accept, send, receive, disconnect and their completions | completions on any worker, errors at any call |
| framing (`PacketSession`, `WebSocket.cpp`) | handshake flag, payload left over | `OnRecv` | packets, frames and receives are cut independently |
| send buffers (`Buffer.cpp`) | chunk per thread, shared pool | `Open`, `Close`, the deleter, `Shutdown` | memory is recycled across threads while packets still lie in it |

`PROJECT.json` lists the rest (rate limiter, configuration, logs, serialisation,
clients, tests) with the reason each is left out, and under `hazards` what in this
code is hard to test, at its line, with the property that covers it.

What makes each correct, beyond its types:

* a queue has one drainer, loses no job, keeps their order, and runs each;
* timers are never early, lost or doubled;
* a room with members is registered, has a host among them, one slot per member,
  and is listed as it is; a session points only to a room it is a member of, and a
  room that keeps it loses the pointer only to another room;
  chat and voice are told the rosters; no room id leaks;
* a start ends; loads add up; the channels of a match end with it;
* an instance reports once that it is live and once, last, that it is over, and is
  over in the end; its game is played once;
* a round is decided by a line on its board; ammunition adds up; shots are judged
  by the moment their player saw; effects end; a match ends;
* a membership that reaches chat early is not lost, and a player can address only
  rooms it is in;
* voice is forwarded only among those the match server lists together, a datagram
  is attributed to who is at its address, and a link that stops failing comes back
  with everything that was missed;
* a connection has one send in flight, delivers in order, hands on each packet
  whole, and lets go of everything when it ends;
* a packet that is held keeps its bytes.

## 2. Modules

### The worker pool

`SerialExecutor` is what a set of job queues promises: a job is waiting in the
order it was accepted, and a finished job was the first one of its queue.

`JobQueue` is how it is done, one shared access per action.

| model | code |
|---|---|
| `pushing`, `handing` | a worker between `fetch_add` and `_jobs.Push`, and between that and `GGlobalQueue->Push` |
| `jobCount`, `jobs`, `parked` | `_jobCount`, `_jobs`, `GGlobalQueue` |
| `current`, `batch`, `popped` | `tCurrentJobQueue`, the popped vector and its length |
| `BeginPush`, `AppendJob`, `Park` | `JobQueue::Push`, lines 10-25 |
| `PopAll`, `FinishJob` | the top and the loop of `Execute` |
| `Release`, `KeepDraining`, `Yield` | `fetch_sub` returning the count, not returning it, and the spent slice |
| `EnterPump`, `TakeParked`, `LeavePump` | `ThreadManager::PumpOnce` |

A job may push other jobs while it runs and a completion handler may push any
number: `BeginPush` is enabled for a worker in either. Whether the slice is
spent is a free choice, because time is. A job is pushed at most once, which
names it and bounds the run.

`JobTimer` extends it with the heap, the flag `_distributing` and a clock that
advances to `MaxTick`. `PoolSpec` says that with timers the pool is still the
pool of `JobQueue`, so what is proved there holds here.

The other server modules take from this that the jobs of one object exclude each
other, run in order and do run; a job body is one step of theirs, and what its
object's queue holds is a sequence.

### The match server

`Room` holds one room as a record and its job bodies as functions. `MatchServer`
is the whole match server over it: sessions, index, the job queue of every room
and of the server, memberships, handoffs, loads, and the instance servers as an
environment. The actions are the packet handlers (`C_...`), `OnDisconnected`,
the job bodies, the maintenance timer, and what instance servers do. A handler
that enqueues and the body that runs later are two actions; in between
everything else may happen.

Bodies of *different* objects and handlers overlap in the code, and touch only what
is behind `RoomManager::_lock`, atomic, or another object's queue. A body is one step,
since it works on its own object, but for one place where it reads and then writes
what others write as well: a leave compares the room its session points to and then
overwrites it (`Room.cpp:179-180`), and in between another room's join may set it
(`:139`). There the body of a leave or kick is two steps, `Compare` and the rest, which
ends in `Unpoint`; `clearing` has the rooms between the two. A check now and its use in
a later job are apart in any case.

What is abstracted: a password is whether it fits; one game mode; the match
configuration is left out; a kick cooldown has or has not passed, freely; running
out of room ids looks like a full server; a job that would tell chat of several
players one after the other is one job with the set of them. A satellite that
is told something receives it: `memberships` is what has been sent, and what
becomes of it on the way is the matter of `VoiceServer`.

`MCMatchServer` adds the symmetry of sessions and `SeatedInit`, a reachable
state with a full, ready room, from which the handoff is explored at depth.

### The instance server and its game

`MatchReports` is what the match server relies on in an instance, and `GameMode`
what an instance relies on in a game mode (`IGameMode`).

`Instance` is the instance server. Packets and disconnections are handled on any
worker and enqueue jobs (`Connected`, `Left`, `Close`); the bodies are
`PlayerConnected`, `ConnectedTooLate`, `PlayerLeft`, `LeftAlready` and
`CloseRequested`. `HandleClose` is not one step, because it calls the manager for
one player after another and other instances write the same map meanwhile:
`BeginClose`, one `ForgetSession` for each member, and `EndClose`. A ticket is of a
player and says nothing of the instance, which is looked up in `routes`, as in
`InstanceManager::FindInstanceForSession`.

`Shooting` is the game: `OnTick` with the phases, `OnFire`, and one `ResolveOne` for
each of the shots that one trigger pull fans out into, with no other step between
them. `Board` has the marks of a round as functions; `MCShooting` checks them against the
definition of a line for every board of three by three and one player's marks, and
`LastMarkDecidesLine` proves them right for boards of any size.
Positions are left out: *which* of the things in the field a shot hits is free,
*whether* a thing was in the field at the moment the shot reaches back to is not. A
wave has no two items of a kind, which is how the code draws them.

### Chat and voice

`Chat` is the chat server. The packets of the control link are handled one at a
time; a player's hello and its disconnection run on other workers. Each of these
threads has a list of calls to make: a call is one section under
`ChannelManager::_lock` or one push to the queue of a channel, and between two
calls of one thread the others act. Every channel object has its job queue. A
channel that is erased from the map stays an object, which those that hold it
can still push to. What the match server may send is taken from `MatchServer`:
one room at a time, a leave only of that room, nothing after `P_SessionClosed`.

`VoiceRouter` has the state of the voice server and one operation per handler, each
under its lock; a hello is two, since the ticket is consumed under another lock.
`PeerLink` is one control link: a dial is a connection of its own, each end of which
finds out by itself that it broke, and packets on their way are lost with the end
they were sent to. `VoiceServer` composes both with the memberships and tickets of the
match server, the replay of `ResyncPeer` and a restart of the process. The jobs that
rooms post may be in any order, so a player may be told into a room before it is
told out of the last, and into two matches: a leave in `Starting` lets the host start
again, and the acknowledgements of both starts list their whole roster, whoever has left
since (`MatchServer.cpp:551-566`). `crossed` remembers who was ever listed in two matches
at once. The chat and instance servers use the same `PeerLink`.

### Sockets and buffers

`Session` is one accepted connection, one access to shared state per step: an
atomic, a section under `_lock`, or a call into the kernel. `pc` says where a thread
is: senders, and one thread each for a completed send, receive and disconnect.
The calls into the kernel may fail at any time; the kernel completes or aborts
what is in flight. `Framing` is what `OnRecv` makes of the bytes, as functions: a
byte is a unit that says what it is the start or the body of and how long that
claims to be. Two loops walk over the bytes, `FramePackets` and `Unwrap`; the end of the
module says once more, without a loop, what packets some bytes carry (`Carries`) and what
bytes the frames after an upgrade carry (`Wraps`). A stream of `Session` is what a peer
sends, `units`, with the bytes of packets in it, `body`, and its `packets`; that they are
those is `StreamsAssumption`, which TLC evaluates. After them there may be bytes that are no
packet. `Pipe` is what `Session` promises to those who call `Send`.

`SendBuffer` is the memory packets are sent from: each thread's chunk, the references
that keep a chunk, and the pool under `gChunkPoolMutex`. `memory` records who last
wrote each unit of a chunk.

In every module the definitions that begin with "Wrong:" in their comment are
mistakes somebody might make in the code; `PROJECT.json` names for each property of
a passing run one that breaks it. `TypeOK` is checked in the run of `JobQueue` and
proved there, in `Session`, `SendBuffer`, `MatchServer`, `VoiceServer`, `Chat`, `Instance`
and `Shooting`; elsewhere it tells the reader the shape of the state. Theorems about a
module are in the one that is named after it and ends in `Proofs`; `PoolProofs` is
about `JobQueue` and `JobTimer`.

## 3. Runs

| run | what it shows | bounds |
|---|---|---|
| `job_queue` | exclusion, conservation of claims, exact counters, refinement of `SerialExecutor`, every job runs | 3 workers, 2 queues, 4 jobs, 2 of them for each queue |
| `job_timer` | no timer early, lost or doubled; each fires; refinement of `JobQueue` | 2 workers, 2 timers, one plain job, clock to 2 |
| `job_timer_order` | refutes the order by due time | the same |
| `lobby` | host, slots, session pointer, listing, memberships, no leaked room | 3 players, 2 rooms, 5 packets or disconnections, rooms of 3 |
| `handoff` | a waiting room has something to wait for and gets it; loads; match channels | a seated room of 2, 2 starts, 3 packets, one instance server that may be lost at any time |
| `handoff_roster` | refutes that the players of a match that goes live are those of its room | a seated room of 3 |
| `chat` | early memberships are replayed, ids are of channels the player is in, joins take effect | one player, 2 rooms, 4 packets of the control link, 3 channel objects |
| `instance` | refinement of `MatchReports` with its liveness; games are played once | 2 players, a match of both and one of one of them, 2 connections |
| `shooting` | rounds, ammunition, lag compensation, effects, refinement of `GameMode` with its liveness | 2 players, 2 rounds of at most 2 waves, 3 cells, 2 items of 3 kinds in a wave, 3 shots for each trigger pull |
| `voice` | the view of the satellite, who is heard, addresses, the link comes back | 2 players, one of whom moves, a room and 2 matches, 2 addresses, 2 connections, 2 joins |
| `session` | one send, framing, refinement of `Pipe`, release | 2 senders, 2 packets sent, 5 streams, a receive buffer of 2 by 2 units, packets to 3, frames to 2 and requests to 3 units |
| `send_buffer` | packets stay intact, chunks have one owner | 2 threads, 3 chunks of 3 units, 4 buffers |

Why these bounds let the interesting cases happen:

* `job_queue`: three workers are one draining, one claiming and one appending; a
  queue and its neighbour give the parking. `job_timer`: a timer due before, with
  and after another.
* `lobby`, `handoff`: packets are counted by `events` up to `MaxEvents` and are of
  the kinds in `Traffic`; hellos and everything the servers do on their own are not
  counted. Five in `lobby` are two creations, a join, a leave and one more, in any
  order and with any of their jobs delayed. Three in `handoff` are a start, a leave
  and a second start, with every answer of the first still to come.
* `chat`: four packets are two rooms entered and left, with the hello and the
  disconnection anywhere among them; its three objects are the global channel and
  one for each time a room's can be created. All of `Chat` but the removal of an empty
  channel concerns one player at a time, so the run has one; the theorems have any
  number.
* `instance`: the two matches share a player, so that the ticket of one leads to the
  other, an old match erases the route of a new one, and of two connections of one
  player the old one may close last. `GivenUp` is the one the match server may take
  back.
* `shooting`: a line of two on three cells can be completed, missed and blocked. Three
  shots are a grenade and its two fragments, either of which may hit the other
  item or a cell. Two rounds of two waves are the least in which wave indexes
  repeat. Two snapshots are exactly what a reach back of one tick needs.
* `voice`: `Roaming` is the player that enters rooms and matches and is closed, the other
  only says hello and falls silent, which is what competes for an address. Two
  connections are a link that is lost once with the process or without it;
  `MaxPushes` joins are a room and a match in either order, two matches at once or one
  after the other, or one channel twice, also after the session is closed; at
  `MaxInFlight` packets the match server pauses.
* `session`: packets of one, two and three units against a buffer that holds four and
  moves what is left to its front, cut at every place; malformed ones; browsers whose
  packets do not line up with frames. Two packets from two senders are one sent and
  one queued behind it, each of which may fail at the call or in flight.
* `send_buffer`: four buffers of up to two units in chunks of three make a thread
  leave a chunk with a packet in it, and take one the other has let go of.

Deadlock is checked in the pool runs, with idle workers going round their
loop. The others rightly have nothing to do when packets, connections or rounds
are used up.

### Fairness

* A worker that can take a step does (`JobQueue!Step`): the operating system
  schedules threads. Weak fairness per worker, and nothing about which queue or
  how long a slice is. The clock advances (`JobTimer`).
* Every room queue, the server's queue and an instance's queue runs its next job:
  that is `EveryJobRuns`, a property checked of `JobQueue`. Maintenance runs while
  there is something to sweep, the join timeout and the tick of the game fire:
  `TimerFires`. A deadline passes in the end.
* A game that is played ends by itself (`Instance!DecidingTick`): that is the liveness
  in `GameMode!Spec`, which the `shooting` run checks of the real one, of its tick alone.
* A thread of the chat server makes the calls it has left, and its channels run
  their jobs (`Chat!Fairness`).
* The timers of a link fire, dials are answered, what is sent to a live end
  arrives, and an end finds out that the other is gone (that is what heartbeats
  are for).
* Threads in `Session` go on with what they have begun; the kernel completes a
  disconnect, and what is pending on a socket that is closed. It owes no
  completion of a send or receive before that.
* Players, instance servers, and connections owe nothing, and nothing has to fail.

### What the violated runs say

* `job_timer_order`: timers of one queue may reach it in the wrong order, since
  `Distribute` drops its flag before it pushes (`JobQueue.h:91` says otherwise).
* `handoff_roster`: leaves are accepted in `Starting` (the comment at
  `Room.cpp:335` and `Types.h:29` say they are not), and reports of an instance
  are applied to whatever start the room is waiting for now. The property compares the
  room that goes live with the roster of the match whose report takes it there, and
  with nothing else; `RunningJob` carries that roster for it, which the code's job does not.

### Further disagreements

Other sentences of the repository that the models, like the code, do not keep. Each
is a hazard in `PROJECT.json`; the properties of the passing runs are stated so
that they hold with these behaviours present, and say what survives them.

* A join still queued when its session drops adds a member that nobody removes
  (`ClientSession.cpp:39`), and a quick match may put a player in a room after it joined another
  (`MatchServer.cpp:249`).
* A stun of a late wave lasts into the next round, because statuses end by wave index
  (`GameTypes.h:148`).
* A player's ticket may lead to the wrong match or nowhere, when the end of an older
  match erases the route of a newer one (`InstanceServer.h:52`).
* A player in two rooms may end with no room pointer at all, when one room's leave
  overwrites what the other room's join has just set (`Room.cpp:179-180`): then neither
  its leave nor its disconnection reaches a room. `PointerLeads` says that a room that
  keeps a player is cut off from it in no other way.
* A player that was listed in two matches is forgotten in the first with the leave of
  the second (`VoiceRouter.cpp:230`, `256`) and is then heard in its room.
  `SpeaksWhereListed` leaves out who was (`crossed`) from what it says of matches.
* A satellite that reconnects without a restart keeps members whose leave was lost
  (`PeerLink.h:34`); in the `voice` run they are the sessions in `missed`.
* A player whose voice peer was swept cannot register again, since its ticket is
  used (`VoiceRouter.cpp:301`).
* A leave handled while a hello applies early memberships finds nothing to
  remove, and the join comes after it (`ChatServer.cpp:83`).

## 4. Proofs

Each module of proofs has one inductive invariant, one lemma for each action that
keeps it, a theorem that puts them together, and the properties as corollaries.
Every invariant was given to TLC in a run of its module before it was proved. The
theorems hold for all values of the constants that satisfy the named assumptions,
so also for any value of the bounds of section 3. The assumptions say that a null
is none of the values it stands beside, and that bounds are numbers; what else
they say is named below.

### The worker pool (`PoolProofs`)

`TypeOK`, `OneWorkerPerQueue`, `CountIsExact` and `AnsweredForOnce`, under
`JobQueueAssumption`: workers are finite and every job has a target.

Exclusion alone is not inductive: that two workers never drain one queue follows
from who may claim it (only a push that finds the count at 0), and that from the
count being exactly the jobs that are waiting, popped and not yet retired, or
counted and not yet appended. The counter is decreased once per batch and not
once per job, so `popped`, which the code keeps in `jobCount`, takes part in the
sum. `IInv` is the conjunction of the four properties and of how a worker's
variables fit together (a worker with a batch has a current queue, one that
hands a queue over has finished pushing, and so on). `AppendingGrows` and
`AppendingShrinks` are about the size of the set of workers inside `Push`.

`ImplementsSerialExecutor` is the safety of `SerialSpec`: under the mapping of the
run, the initial states are initial, and each step accepts a job at the back of its
backlog, finishes the oldest, or is no step. The backlog of a queue is what its
drainer has popped, followed by what is listed. So `IInv` must be joined by
`BatchIsDrained` (a drainer that goes to the list for more has run what it had, or
the newer would overtake) and `PushedOnce` (a job whose push has yet to append it is
nowhere else, or it would be in a backlog twice).

### Timers (`PoolProofs`)

`NeverEarly` and `ReservedOnce`, for any delays and any number of distributors.
`TimedPoolIsAPool` is the safety of `PoolSpec`: every step is one of `JobQueue` or none.
`IInv` and exclusion carry over by it and not by a second proof.

That a timer is never early is a matter of the clock a distributor reads when it
calls, of what it takes by that clock and of when it pushes it, at three moments
between which the clock moves on: `HeldIsDue` says it of what a distributor holds.
`OnePlace` says that a reserved timer is in the heap, held, or issued; that two
distributors do not take the same one needs `OneDistributor`, which is the flag. The
flag is dropped before the pushes, so a second distributor may be at work during
them; that `OnePlace` survives it is why timers are not doubled though their order
is lost (`job_timer_order`).

### The lobby of the match server (`MatchServerProofs`)

`TypeOK`, `HostIsLongestPresent`, `SlotsDistinct`, `NoRoomLeaks`, `PointerLeads`,
`ListingIsCurrent` and `RosterIsTold`, under `RoomAssumption` (a room has a place),
`MatchServerAssumption` and `NoneAssumption`, for every step of the match server, those
of the handoff included.

None of these is inductive. `LobbyInv` has `Index`: every room in it is well-formed
(`RoomOK`: members and slots differ, the first member is the host, and a room
without members is closing or as new), registered unless it is closing, and listed
as it is. `Queues`: a room that is registered and empty has in its queue the join that
opens it, and the jobs before that leave a room as new as it is. `PointerIsMember`,
half of `PointerLeads`: only a join that puts a player in the room points it there, and
a room that takes a player out overwrites the pointer unless it leads elsewhere. More
cannot be said of the state: a join that waited admits a player that another room has
admitted since, because only the packet handlers look at the pointer and `HandleJoin`
does not, and of two rooms one may overwrite the other's. So the other half is about
steps: a room that keeps a player loses its pointer only to the join of another room, or
to a leave from another that had compared before (`PointersKept`, from
`WhoWritesPointers`). `AllTold`: what chat and voice will know is what they were told,
changed by the whole server queue, the last job for a player and channel
deciding. The functions of `Room` have lemmas of their own (`NewRoomIsOK` and those
after it), which say what each body does to a well-formed room.

### The handoff (`MatchServerProofs`)

`StartingIsPending`, `LoadIsPending` and `MatchChannelsEnd`, over `LobbyInv`.

All three depend on the order in which the server hears of an instance, which no
handler checks. `HandoffInv` says of every instance that what is queued about it
is in the order of its life: asked for before acknowledged, acknowledged once,
and ready only after that (`NotYetStarted`, `Ordered`); that a handoff is
on a connection that has said hello (`ServedByKnown`); and that a match channel holds
only the players it was made for (`Rostered`). The load of a server is a
cardinality, and each answer removes exactly one element of that set, because it
comes once.

### Chat (`ChatProofs`)

`TypeOK`, `NothingHeldBack` and `AddressedIsJoined`, for any number of players, rooms
and channel objects. The two properties turn out to be nearly inductive: what they need
is `Mapped`, that the manager has a channel under its own key, so that a created
object never changes the room it is of, and the types of the calls that threads
have left to make. So they do not depend on which thread goes first, which is the point
of taking the early memberships under the lock that registers the player.

### The voice server and its link (`VoiceProofs`)

`TypeOK`, `EndpointIsItsPeers`, `ViewIsCurrent` and `SpeaksWhereListed`, under
`LinkAssumption`, `RouterAssumption` and `VoiceAssumption`, for any number of players,
addresses, channels, connections and restarts.

`EndpointIsItsPeers` needs only `HeardAtItsAddress`; `SpeaksWhereListed` needs
`ActiveIsMember` too, and for its second half `OneInstance` (below). `ViewIsCurrent` is about a quiet link, and what makes it true is
what is on its way when it is not. `EndIsComing`: of a membership the match server no
longer lists, an end is on its way if the satellite has it, and an end follows each
join that is on its way; or the end went down with a connection (`missed`).
`UpToDate`: of one it lists, a join is on its way that nothing behind it displaces, or
the satellite has it and nothing on its way displaces it. A packet displaces a membership by
ending it, and where a player is heard also by joining it to another match. The second
counts only for a player that was never in two at once, hence the parameter `one` of
`Displaces`, `InPlace` and `JoinIsLast`: without it they speak of membership alone and
hold of everybody. That the replay, whose order is any, does not displace what it has
just joined is `OneInstance`: outside `crossed` a player is in one match. Packets on one connection are all
there are because a satellite has one at a time (`OneEnd`).

### Sessions (`SessionProofs`)

`TypeOK`, `OneSend`, `HandledAsSent`, that `OnDisconnected` runs at most once
(`DisconnectedOnce`), and the safety of `PipeSpec` (`ImplementsPipe`), for any senders,
streams and sizes, under `FramingAssumption`, `SessionAssumption`, `StreamsAssumption` and
`BufferAssumption`. The last says that what may have to wait for more of it fits the
receive buffer: a packet of `kMaxPacketSize` (16 KiB), a frame (64 KiB) or a request (8 KiB)
in 640 KiB (`Types.h:47`, `WebSocket.cpp:22`, `Buffer.h:37`).

*Sending.* The flag `_sendRegistered` is set in `Send` and cleared after a completion or in
one of three places where a call fails. `OneHolder` says that who may clear it is one
thread, or the send in flight, at a time; `Attended`, that on a live connection something
that is queued has such a holder or a thread about to disconnect. `Numbered` says that the
queue and the event together hold consecutive numbers, the event the smaller ones; with
`InOrder` a completed batch is then the next one of the pipe, whole. Nothing is needed of the
receiving side but that its thread holds no flag.

*Framing.* `FramePackets` and `Unwrap` are recursive functions. That there is a function with
their equation is proved first (`FrameLoopIs`, `UnwrapLoopIs`), by building it from the end of
the bytes, since a step looks only ahead. `FramePacketsIs` is about the bytes of a stream
between any two places `a` and `b`, `a` where a packet begins: the loop hands on those packets
that end by `b`, keeps the bytes after them, and meets a bad size only where the stream has
no more packets. `UnwrapIs` says the same of frames. Both go by induction from the last
packet, or frame, to the first. The induction theorems of the library take an operator, which
the provers cannot instantiate; `Induction` and `DownInduction` take a set in its place and
are proved from well-foundedness.

*Receiving.* `ReadUpto` is what the session knows of a stream of which so much has arrived:
a native client's packets are handed on up to there and `data` is what is left; a browser
that has not shaken hands has sent no whole request; after it `data` is what is left of the
frames and `payload` what is left of the packets in them. It holds while `Receives`, that is
until `OnRecv` has asked for a disconnection: after an error the buffer is not looked at
again, and what was handed on stays a prefix (`HandedSome`). A step of `ProcessRecv` keeps
it whatever the number of units that arrive (`OnRecvAnswers`). `ReadFits` says that what
is left is always less than the buffer, and `CleanLeavesRoom` that `Clean` turns that into
room for the next receive, which is why no session is dropped for a full buffer.

*The end.* `EndsOnce`: at most one thread is on its way to `OnDisconnected`, and none when the
operation is in flight or has completed; while the session is connected, nobody.

### The instance server (`InstanceProofs`)

`TypeOK`, `GamesArePlayedOnce`, and the safety of `InstancesReport`
(`ImplementsMatchReports`), for any players, instances, rosters and connections, under
`InstanceAssumption`.

The end of a match is asked for by the timer, by the last player to leave, by the match
server and by the game, and carried out in many steps. What keeps it single is the state:
`Phases` says for each state of an instance whether it is registered, what was told of
it and where its game is. An instance stays registered from the moment it is finished
until its end is reported (`Ending`), and while it is, its queue runs nothing else; that
is the lock of the queue seen from outside. An instance whose end was reported may still
have the jobs of late players in its queue, and they run, which is why `Ending` is about
instances no longer registered too. A step that posts a job, or breaks a connection, changes nothing the
match server sees (`NothingSeen`), so `Seen` is short: nothing, or one instance opens, goes
live, or is over.

### The game (`ShootingProofs`)

`TypeOK`, `RoundIsItsLine`, `AmmoIsAccounted`, `RewindIsKept`, `EffectsExpire`, and the
safety of `ModeSpec` (`ImplementsGameMode`), for any players, board, durations, items and
limits, under `BoardAssumption` and `ShootingAssumption`. The latter says of the constants
of the code that a shot reaches back less far than snapshots are kept, which they satisfy
(`kMaxRewindMs` is 15 ticks, `GameTypes.h:30`; `kSnapshotCount` is 16, `World.h:127`).

`LastMarkDecidesLine` is about `Board` alone: if no player had a line, then after a mark
`CompletesLine`, which counts from that mark both ways along four axes, says yes exactly
when the marks have a line somewhere. `CountRun` is the length of the longest run, a
maximum over a set and not a recursion, so that it can be reasoned about: a line that
goes through the mark lies within the two runs, and the runs with the mark contain a line.
From it follows `RoundIsItsLine`, whose induction needs that a round is left as soon as it
is decided (`Undecided`). `GInv` also has `Working` (shots are resolved only while the wave
is on, or one that ends the round would let the next mark its board), `Scored` (a score is
at most the rounds that were played, so it stays within its type) and `Recorded` (how many
snapshots there are at each tick of a wave, from which `RewindIsKept` follows).

### Send buffers (`SendBufferProofs`)

`TypeOK`, `PacketsStayIntact` and `OneOwner`, for any threads, chunks, chunk size, sizes
of reservations and number of buffers, under `SendBufferAssumption`: a reservation
fits a chunk.

That held packets keep their bytes is not inductive. A thread writes over nothing
that is held only because it carves at the mark of the chunk (`CarvesAtTheMark`),
what is held lies below the mark (`HeldBelowTheMark`), and nobody else carves from
it (`OwnChunk`). A recycled chunk is reset, mark and all, which is right only if
nothing refers to it: what is referred to is in use (`ReferencedIsUsed`), and the
pool has only chunks that are pooled, each once (`PoolIsPooled`), so that the one
taken from it is not also about to be taken by another.

### Only model-checked

* All liveness: `EveryJobRuns`, `TimerFires`, `StartsResolve`, `JoinsTakeEffect`,
  `LinkHeals`, `Released`, and the fairness in `SerialSpec`, `PoolSpec`, `PipeSpec`,
  `InstancesReport` and `ModeSpec`, whose safety is proved. The provers have no rule for
  it.

Every other property of a passing run is a theorem. What TLC alone checks holds within the bounds of section 3.

## 5. Not modelled

* `ClearJobs`, `JobTimer::Clear`; `pushOnly`, which nobody sets; the shutdown of
  anything but send buffers.
* Unknown game modes: no room of one is made (`RoomManager.cpp:31`), so `OnStart` never
  finds one (`ShootingGameMode.cpp:41`).
* `HandleSetConfig` and the clamping of a configuration, search pages, pings,
  nicknames, the limit on sessions.
* The reconnection of an instance server's control link: `MatchServer` lets it come up once.
  The consequences of one that comes back are hazards in `PROJECT.json`.
* The motion of the things in the field, hit tests and pushes, which are floating
  point, and the snapshots sent to clients.
* What is said in chat, its notices and rate limits, channels of type Instance, a
  second player in a channel.
* Heartbeats: a silent peer may be dropped at any time, whether or not it is silent.
* The slots of `Listener`, `UdpSocket`, `RateLimiter`, `NetAddress`; masking, base64
  and SHA-1 of WebSocket; serialisation; configuration, logs and the fatal handler:
  sequential code, conversions and calls of the operating system.
* The test client, the Unity client and the web client: the servers trust nothing
  a client decides, so a client is any sequence of packets.

## 6. Plan

In order of what matters most next:

1. `Chat` with a second player: who hears a message when a channel was removed
   and created again, and closed sessions that stay members (`Channel.cpp:220`).
2. `MatchServer` over `PeerLink`: loads and handoffs across a reconnection of the
   instance server.
3. `Listener`: the accept slots; configuration as functions in `Room`.
