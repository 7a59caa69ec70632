-------------------------------- MODULE Chat --------------------------------
(***************************************************************************)
(* The chat server: ChannelManager and the channels it owns.               *)
(*                                                                         *)
(* Three kinds of thread act on them: the worker that handles the packets  *)
(* of the control link, one after the other; the worker that handles a     *)
(* player's hello; and the one that runs OnDisconnected.  What each has    *)
(* left to do is a sequence of calls.  A call is one section under _lock   *)
(* or one push to the queue of a channel, and between two calls of one     *)
(* thread the others may act.  A channel runs its jobs in order            *)
(* (JobQueue.tla), each body one step.                                     *)
(***************************************************************************)
EXTENDS Integers, SequencesExt

CONSTANTS
    Session,        \* players; a player connects to the chat server once
    Room,           \* channel ids of type Room
    Global,         \* the key of the global channel
    None,
    MaxChannels,    \* bound: Channel objects ever created
    MaxPackets      \* bound: packets of the control link

ASSUME ChatAssumption ==
    /\ MaxChannels \in Nat \ {0} /\ MaxPackets \in Nat
    /\ Global \notin Room /\ None \notin Nat \cup Room \cup Session \cup {Global}

Key == Room \cup {Global}
Object == 1..MaxChannels
Link == <<"link", None>>
Thread == {Link} \cup {"hello", "gone"} \X Session

VARIABLES
    packets,    \* packets of the control link so far, for the bound
    told,       \* the room the link was last told a player is in
    ended,      \* players of whom a P_SessionClosed was received
    socket,     \* the chat connection of a player: new, in, or gone
    work,       \* the calls each thread has left to make
    sessions,   \* keys of _sessions
    pending,    \* _pending
    channels,   \* _channels: the object of each key
    keyOf,      \* _type and _id of the objects created so far
    members,    \* _members of each object
    jobs,       \* the job queue of each object
    roomId      \* _roomChannelId of the player's ChatSession

outside == <<packets, told, ended>>
managerVars == <<sessions, pending, channels, keyOf>>
channelVars == <<members, jobs, roomId>>
vars == <<packets, told, ended, socket, work, sessions, pending, channels, keyOf,
          members, jobs, roomId>>

ChannelJob == [op : {"join", "leave"}, who : Session]

\* A call of a thread: about a room, about all of a player's, or a push to a queue.
CallRecord ==
    [op : {"hear", "create", "unhear", "leave", "trim"}, who : Session, key : Room]
        \cup [op : {"hangup", "forget", "take"}, who : Session, key : {None}]
        \cup [op : {"push"}, object : Object, job : ChannelJob]

TypeOK ==
    /\ packets \in 0..MaxPackets
    /\ told \in [Session -> Room \cup {None}]
    /\ ended \subseteq Session /\ sessions \subseteq Session
    /\ socket \in [Session -> {"new", "in", "gone"}]
    /\ work \in [Thread -> Seq(CallRecord)]
    /\ pending \in [Session -> Seq(Room)]
    /\ channels \in [Key -> Object \cup {None}]
    /\ keyOf \in [Object -> Key \cup {None}]
    /\ members \in [Object -> SUBSET Session]
    /\ jobs \in [Object -> Seq(ChannelJob)]
    /\ roomId \in [Session -> Room \cup {None}]

\* ChannelManager::Init: the global channel is there from the start.
Init ==
    /\ packets = 0
    /\ told = [s \in Session |-> None]
    /\ ended = {} /\ sessions = {}
    /\ socket = [s \in Session |-> "new"]
    /\ work = [t \in Thread |-> <<>>]
    /\ pending = [s \in Session |-> <<>>]
    /\ channels = [k \in Key |-> IF k = Global THEN 1 ELSE None]
    /\ keyOf = [o \in Object |-> IF o = 1 THEN Global ELSE None]
    /\ members = [o \in Object |-> {}]
    /\ jobs = [o \in Object |-> <<>>]
    /\ roomId = [s \in Session |-> None]
-----------------------------------------------------------------------------
(***************************************************************************)
(* The calls handlers are made of                                          *)
(***************************************************************************)

Call(op, s, k) == [op |-> op, who |-> s, key |-> k]
Push(o, op, s) == [op |-> "push", object |-> o, job |-> [op |-> op, who |-> s]]

\* A packet of the control link is handled when the one before it has been.
Receive(s, calls) ==
    /\ work[Link] = <<>>
    /\ packets < MaxPackets
    /\ s \notin ended
    /\ packets' = packets + 1
    /\ work' = [work EXCEPT ![Link] = calls]
    /\ UNCHANGED <<socket, managerVars, channelVars>>

\* The match server tells of one room at a time.
P_ChannelJoin(s, r) ==
    /\ told[s] = None
    /\ Receive(s, <<Call("hear", s, r)>>)
    /\ told' = [told EXCEPT ![s] = r]
    /\ UNCHANGED ended

P_ChannelLeave(s) ==
    /\ told[s] # None
    /\ Receive(s, <<Call("unhear", s, told[s]), Call("leave", s, told[s]), Call("trim", s, told[s])>>)
    /\ told' = [told EXCEPT ![s] = None]
    /\ UNCHANGED ended

P_SessionClosed(s) ==
    /\ Receive(s, <<Call("hangup", s, None), Call("forget", s, None)>>)
    /\ told' = [told EXCEPT ![s] = None]
    /\ ended' = ended \cup {s}

\* A ticket is good once, and Authenticate is all that comes before the calls.
C_ChatHello(s) ==
    /\ socket[s] = "new"
    /\ socket' = [socket EXCEPT ![s] = "in"]
    /\ work' = [work EXCEPT ![<<"hello", s>>] = <<Call("take", s, None)>>]
    /\ UNCHANGED <<packets, told, ended, managerVars, channelVars>>

\* ChatSession::OnDisconnected, of a connection that said hello.
OnDisconnected(s) ==
    /\ socket[s] = "in"
    /\ socket' = [socket EXCEPT ![s] = "gone"]
    /\ work' = [work EXCEPT ![<<"gone", s>>] = <<Call("forget", s, None)>>]
    /\ UNCHANGED <<packets, told, ended, managerVars, channelVars>>

\* A thread is about to make a call, and what comes of it.
Calls(t, op) == work[t] # <<>> /\ Head(work[t]).op = op
Becomes(t, calls) == work' = [work EXCEPT ![t] = calls \o Tail(@)]

\* ApplyChannelJoin under the lock: held back until the player has said hello.
Hear(t) ==
    LET c == Head(work[t]) IN
    /\ Calls(t, "hear")
    /\ \/ /\ c.who \in sessions
          /\ Becomes(t, <<Call("create", c.who, c.key)>>)
          /\ UNCHANGED pending
       \/ /\ c.who \notin sessions
          /\ pending' = [pending EXCEPT ![c.who] = Append(@, c.key)]
          /\ Becomes(t, <<>>)
    /\ UNCHANGED <<outside, socket, sessions, channels, keyOf, channelVars>>

\* FindOrCreate, whose result a join is then pushed to.
FindOrCreate(t) ==
    LET c == Head(work[t])
        fresh == {o \in Object : keyOf[o] = None}
    IN  /\ Calls(t, "create")
        /\ \E o \in IF channels[c.key] = None THEN fresh ELSE {channels[c.key]} :
              /\ \A other \in fresh : o <= other \/ keyOf[o] # None
              /\ channels' = [channels EXCEPT ![c.key] = o]
              /\ keyOf' = [keyOf EXCEPT ![o] = c.key]
              /\ Becomes(t, <<Push(o, "join", c.who)>>)
        /\ UNCHANGED <<outside, socket, sessions, pending, channelVars>>

\* What is left of a list without r, in its order.
Erased(list, r) ==
    LET kept == {at \in SetToSeqs({n \in DOMAIN list : list[n] # r}) :
                    \A m, n \in DOMAIN at : m < n => at[m] < at[n]}
    IN  {[n \in DOMAIN at |-> list[at[n]]] : at \in kept}

\* ApplyChannelLeave under the lock, and then with the channel it finds.
Unhear(t) ==
    LET c == Head(work[t]) IN
    /\ Calls(t, "unhear")
    /\ \E rest \in Erased(pending[c.who], c.key) : pending' = [pending EXCEPT ![c.who] = rest]
    /\ Becomes(t, <<>>)
    /\ UNCHANGED <<outside, socket, sessions, channels, keyOf, channelVars>>

Leave(t) ==
    LET c == Head(work[t]) IN
    /\ Calls(t, "leave")
    /\ Becomes(t, IF channels[c.key] = None THEN <<>>
                  ELSE <<Push(channels[c.key], "leave", c.who)>>)
    /\ UNCHANGED <<outside, socket, managerVars, channelVars>>

RemoveIfEmpty(t) ==
    LET c == Head(work[t])
        o == channels[c.key]
    IN  /\ Calls(t, "trim")
        /\ channels' = IF o # None /\ members[o] = {}
                       THEN [channels EXCEPT ![c.key] = None] ELSE channels
        /\ Becomes(t, <<>>)
        /\ UNCHANGED <<outside, socket, sessions, pending, keyOf, channelVars>>

\* Wrong: the early memberships looked up and left where they are.
TakePendingKept(t) ==
    LET s == Head(work[t]).who IN
    /\ Calls(t, "take")
    /\ sessions' = sessions \cup {s}
    /\ Becomes(t, <<Push(1, "join", s)>> \o
                  [n \in DOMAIN pending[s] |-> Call("create", s, pending[s][n])])
    /\ UNCHANGED <<outside, socket, pending, channels, keyOf, channelVars>>

\* Wrong: the early memberships dropped.
TakePendingLost(t) ==
    LET s == Head(work[t]).who IN
    /\ Calls(t, "take")
    /\ sessions' = sessions \cup {s}
    /\ pending' = [pending EXCEPT ![s] = <<>>]
    /\ Becomes(t, <<Push(1, "join", s)>>)
    /\ UNCHANGED <<outside, socket, channels, keyOf, channelVars>>

\* OnSessionAuthenticated: registered and handed its early memberships under
\* one lock; applied after it.
TakePending(t) ==
    LET s == Head(work[t]).who IN
    /\ Calls(t, "take")
    /\ sessions' = sessions \cup {s}
    /\ pending' = [pending EXCEPT ![s] = <<>>]
    /\ Becomes(t, <<Push(1, "join", s)>> \o
                  [n \in DOMAIN pending[s] |-> Call("create", s, pending[s][n])])
    /\ UNCHANGED <<outside, socket, channels, keyOf, channelVars>>

\* OnSessionClosed: a leave for every channel there is at that moment.
Forget(t) ==
    LET s == Head(work[t]).who
        present == {k \in Key : channels[k] # None}
    IN  /\ Calls(t, "forget")
        /\ sessions' = sessions \ {s}
        /\ pending' = [pending EXCEPT ![s] = <<>>]
        /\ \E keys \in SetToSeqs(present) :
              Becomes(t, [n \in DOMAIN keys |-> Push(channels[keys[n]], "leave", s)])
        /\ UNCHANGED <<outside, socket, channels, keyOf, channelVars>>

\* The connection of a player the match server saw go is closed, if it is known.
HangUp(t) ==
    LET s == Head(work[t]).who
        closes == s \in sessions /\ socket[s] = "in"
    IN  /\ Calls(t, "hangup")
        /\ socket' = IF closes THEN [socket EXCEPT ![s] = "gone"] ELSE socket
        /\ work' = [work EXCEPT ![t] = Tail(@),
                                ![<<"gone", s>>] = IF closes THEN <<Call("forget", s, None)>> ELSE @]
        /\ UNCHANGED <<outside, managerVars, channelVars>>

PushJob(t) ==
    LET c == Head(work[t]) IN
    /\ Calls(t, "push")
    /\ jobs' = [jobs EXCEPT ![c.object] = Append(@, c.job)]
    /\ Becomes(t, <<>>)
    /\ UNCHANGED <<outside, socket, managerVars, members, roomId>>

ThreadStep(t) ==
    \/ Hear(t) \/ FindOrCreate(t) \/ Unhear(t) \/ Leave(t) \/ RemoveIfEmpty(t)
    \/ TakePending(t) \/ Forget(t) \/ HangUp(t) \/ PushJob(t)
-----------------------------------------------------------------------------
(***************************************************************************)
(* Channel jobs                                                            *)
(***************************************************************************)

Runs(o, op) == jobs[o] # <<>> /\ Head(jobs[o]).op = op

\* SetChannelId keeps an id for rooms and none for the global channel.
Joined(o) ==
    LET job == Head(jobs[o]) IN
    /\ Runs(o, "join")
    /\ members' = [members EXCEPT ![o] = @ \cup {job.who}]
    /\ roomId' = IF keyOf[o] = Global THEN roomId ELSE [roomId EXCEPT ![job.who] = keyOf[o]]
    /\ jobs' = [jobs EXCEPT ![o] = Tail(@)]
    /\ UNCHANGED <<outside, socket, work, managerVars>>

\* Wrong: the player removed, its channel id left as it is.
LeftAddressed(o) ==
    LET job == Head(jobs[o]) IN
    /\ Runs(o, "leave")
    /\ members' = [members EXCEPT ![o] = @ \ {job.who}]
    /\ jobs' = [jobs EXCEPT ![o] = Tail(@)]
    /\ UNCHANGED <<outside, socket, work, managerVars, roomId>>

Left(o) ==
    LET job == Head(jobs[o]) IN
    /\ Runs(o, "leave")
    /\ members' = [members EXCEPT ![o] = @ \ {job.who}]
    /\ roomId' = IF job.who \notin members[o] \/ keyOf[o] = Global THEN roomId
                 ELSE [roomId EXCEPT ![job.who] = None]
    /\ jobs' = [jobs EXCEPT ![o] = Tail(@)]
    /\ UNCHANGED <<outside, socket, work, managerVars>>

ChannelStep(o) == Joined(o) \/ Left(o)
-----------------------------------------------------------------------------
Next ==
    \/ \E s \in Session :
          \/ \E r \in Room : P_ChannelJoin(s, r)
          \/ P_ChannelLeave(s) \/ P_SessionClosed(s)
          \/ C_ChatHello(s) \/ OnDisconnected(s)
    \/ \E t \in Thread : ThreadStep(t)
    \/ \E o \in Object : ChannelStep(o)

\* Handlers that were started go on, and channels drain (JobQueue.tla).
Fairness ==
    /\ \A t \in Thread : WF_vars(ThreadStep(t))
    /\ \A o \in Object : WF_vars(ChannelStep(o))

Spec == Init /\ [][Next]_vars /\ Fairness
-----------------------------------------------------------------------------
\* s is in a channel of the room, though perhaps not in the one the map has.
In(s, r) == \E o \in Object : keyOf[o] = r /\ s \in members[o]

\* A membership that came before the hello is not held back once the session is
\* known (Channel.h:62), whoever gets the lock first.
NothingHeldBack == \A s \in sessions : pending[s] = <<>>

\* A player who can address a room is a member of a channel of that room
\* (Channel.cpp:54): jobs of several channels write the one id of the session.
AddressedIsJoined ==
    \A s \in Session : roomId[s] # None => In(s, roomId[s])

\* A player told to be in a room, and connected, joins a channel, whether the
\* packet or the hello came first (Channel.h:62).
JoinsTakeEffect ==
    \A s \in Session, r \in Room :
        told[s] = r /\ socket[s] = "in" ~> In(s, r) \/ told[s] # r \/ socket[s] = "gone"
=============================================================================
