---------------------------- MODULE VoiceServer ----------------------------
(***************************************************************************)
(* The voice server behind its control link: what the match server holds   *)
(* (memberships, tickets) reaches VoiceRouter through PeerLink, and both   *)
(* ends, the link between them and the process itself may fail.            *)
(***************************************************************************)
EXTENDS PeerLink, VoiceRouter

CONSTANTS
    Roaming,        \* bound: sessions that enter rooms and matches, or are closed
    MaxPushes,      \* bound: joins the match server pushes
    MaxInFlight     \* bound: packets on their way at which it pushes no more

ASSUME VoiceAssumption == MaxPushes \in Nat /\ MaxInFlight \in Nat

VARIABLES
    memberships,    \* MatchServer::_memberships
    players,        \* sessions of the match server: "new", "here", "gone"
    pushes,         \* joins so far, for the bound
    missed,         \* sessions this process was not told the end of a membership of
    byed,           \* sessions that took themselves off with a Bye
    crossed         \* sessions listed in a match while they were in another

matchVars == <<memberships, players, pushes>>
ghosts == <<missed, byed, crossed>>
vars == <<linkVars, routerVars, matchVars, ghosts>>

\* What the match server sends
Message ==
    {"ticket", "closed"} \X Session \cup {"join", "leave"} \X Session \X Channel

TypeOK ==
    /\ LinkTypeOK /\ RouterTypeOK
    /\ \A c \in Conn : conns[c].toSelf \in Seq(Message)
    /\ memberships \subseteq Session \X Channel
    /\ players \in [Session -> {"new", "here", "gone"}]
    /\ pushes \in 0..MaxPushes
    /\ missed \subseteq Session /\ byed \subseteq Session /\ crossed \subseteq Session

Init ==
    /\ LinkInit /\ RouterInit
    /\ memberships = {} /\ players = [s \in Session |-> "new"] /\ pushes = 0
    /\ missed = {} /\ byed = {} /\ crossed = {}
-----------------------------------------------------------------------------
(***************************************************************************)
(* The match server.  The bodies of its jobs run one at a time, and the    *)
(* order in which they were posted is any: the rooms post from workers of  *)
(* their own.                                                              *)
(***************************************************************************)
Listed(s) == {k \in Channel : <<s, k>> \in memberships}
Matches(s) == {k \in Listed(s) : k[1] = "Instance"}

\* IssueClientTickets
C_Hello(s) ==
    /\ players[s] = "new"
    /\ players' = [players EXCEPT ![s] = "here"]
    /\ conns' = SentToAll(<<"ticket", s>>)
    /\ UNCHANGED <<link, resyncs, routerVars, memberships, pushes, ghosts>>

\* Rooms push for whom they admit and handoffs for a roster, whoever is in how many
\* rooms and matches by then, and whether or not the session is still there: a join
\* that waited, and the create-ack of a start that was called off, look at neither
\* (Room.cpp:94, MatchServer.cpp:551-566).
MayJoin(s, k) == s \in Roaming /\ players[s] # "new" /\ k \notin Listed(s)

PushChannelJoin(s, k) ==
    /\ MayJoin(s, k) /\ pushes < MaxPushes
    /\ pushes' = pushes + 1
    /\ memberships' = memberships \cup {<<s, k>>}
    /\ conns' = SentToAll(<<"join", s, k>>)
    /\ crossed' = IF k[1] = "Instance" /\ Matches(s) # {} THEN crossed \cup {s} ELSE crossed
    /\ UNCHANGED <<link, resyncs, routerVars, players, missed, byed>>

\* A satellite no connection carries the end of a membership to has missed it.
MissedUnlessSent(s) ==
    IF (\E c \in Conn : Reaches(c)) \/ Listed(s) = {} THEN missed ELSE missed \cup {s}

PushChannelLeave(s, k) ==
    /\ k \in Listed(s)
    /\ memberships' = memberships \ {<<s, k>>}
    /\ conns' = SentToAll(<<"leave", s, k>>)
    /\ missed' = MissedUnlessSent(s)
    /\ UNCHANGED <<link, resyncs, routerVars, players, pushes, byed, crossed>>

PushSessionClosed(s) ==
    /\ s \in Roaming /\ players[s] = "here"
    /\ players' = [players EXCEPT ![s] = "gone"]
    /\ memberships' = memberships \ ({s} \X Channel)
    /\ conns' = SentToAll(<<"closed", s>>)
    /\ missed' = MissedUnlessSent(s)
    /\ UNCHANGED <<link, resyncs, routerVars, pushes, byed, crossed>>

\* Membership::operator<
Before(m, n) ==
    \/ m[1] < n[1]
    \/ m[1] = n[1] /\ m[2][1] = "Room" /\ n[2][1] = "Instance"
    \/ m[1] = n[1] /\ m[2][1] = n[2][1] /\ m[2][2] < n[2][2]

\* The set is walked in its order.
Walk == {ms \in SetToSeqs(memberships) :
            \A i, j \in DOMAIN ms : i < j => Before(ms[i], ms[j])}

Replay(ms) == [n \in DOMAIN ms |-> <<"join", ms[n][1], ms[n][2]>>]

ResyncPeer(c) ==
    /\ \E ms \in Walk : Resync(c, Replay(ms))
    /\ UNCHANGED <<routerVars, matchVars, ghosts>>

Quiet == \A c \in Conn : Len(conns[c].toSelf) < MaxInFlight

MatchServer ==
    \/ Quiet /\ \E s \in Session :
                          \/ C_Hello(s) \/ PushSessionClosed(s)
                          \/ \E k \in Channel : PushChannelJoin(s, k) \/ PushChannelLeave(s, k)
    \/ \E c \in Conn : ResyncPeer(c)
-----------------------------------------------------------------------------
(***************************************************************************)
(* The voice server: RegisterPeerHandlers, and the link's own life.        *)
(***************************************************************************)
Handle(msg) ==
    CASE msg[1] = "ticket" -> /\ Add(msg[2])
                              /\ UNCHANGED <<redeemed, peers, endpointToSession, channels>>
      [] msg[1] = "join" -> ApplyChannelJoin(msg[2], msg[3])
      [] msg[1] = "leave" -> ApplyChannelLeave(msg[2], msg[3])
      [] msg[1] = "closed" -> RemoveSession(msg[2])

\* HandlePacket
Receive(c) ==
    /\ conns[c].self = "up" /\ conns[c].toSelf # <<>>
    /\ conns' = Delivered(c)
    /\ Handle(Head(conns[c].toSelf))
    /\ UNCHANGED <<link, resyncs, matchVars, ghosts>>

\* What is lost with an end of a connection: ends of memberships on their way.
Undelivered(c) ==
    {msg[2] : msg \in {m \in Range(conns[c].toSelf) : m[1] \in {"leave", "closed"}}}

LinkOnly(step) == step /\ UNCHANGED <<routerVars, matchVars, ghosts>>

LinkLost(c) ==
    /\ SelfLoses(c)
    /\ missed' = missed \cup Undelivered(c)
    /\ UNCHANGED <<routerVars, matchVars, byed, crossed>>

LinkStep ==
    \/ LinkOnly(TryConnect)
    \/ \E c \in Conn : \/ LinkOnly(DialSucceeds(c)) \/ LinkOnly(DialFails(c))
                       \/ LinkOnly(P_ServerHello(c)) \/ LinkOnly(PeerLost(c))
                       \/ LinkLost(c)

\* A new process knows nothing.
Restart ==
    /\ LinkRestarts
    /\ tickets' = {} /\ redeemed' = {}
    /\ peers' = <<>> /\ endpointToSession' = <<>> /\ channels' = <<>>
    /\ missed' = {} /\ byed' = {}
    /\ UNCHANGED <<matchVars, crossed>>

Router ==
    /\ Datagram \/ Maintenance
    /\ byed' = byed \cup (DOMAIN peers \ DOMAIN peers')
    /\ UNCHANGED <<linkVars, matchVars, missed, crossed>>

Next ==
    \/ MatchServer \/ LinkStep \/ Restart \/ Router
    \/ \E c \in Conn : Receive(c)

\* The timers of the link fire, a dial is answered, what is sent arrives, jobs run,
\* and an end finds out that the other is gone.  Nobody has to speak, to come or to
\* leave, and nothing has to fail.
Fairness ==
    /\ WF_vars(LinkOnly(TryConnect))
    /\ \A c \in Conn : /\ WF_vars(LinkOnly(DialSucceeds(c)) \/ LinkOnly(DialFails(c)))
                       /\ WF_vars(LinkOnly(P_ServerHello(c)))
                       /\ WF_vars(conns[c].peer = "down" /\ LinkLost(c))
                       /\ WF_vars(Receive(c))
                       /\ WF_vars(ResyncPeer(c))

Spec == Init /\ [][Next]_vars /\ Fairness
-----------------------------------------------------------------------------
\* The satellite has registered, what it had to be told is told.
SettledOn(c) ==
    /\ conns[c].self = "up" /\ conns[c].peer = "registered"
    /\ c \notin resyncs /\ conns[c].toSelf = <<>>

Settled == \E c \in Conn : SettledOn(c)

\* ResyncPeer and the pushes together lose no membership and leave none behind but
\* what the link lost: once the link is quiet, whoever the match server lists is in
\* the channel, and a member it does not list is one whose leave or close went down
\* with a connection, whichever of the pushes, the hello, the replay, a lost
\* connection and a restart came first (MatchServer.cpp:463-476).
ViewIsCurrent ==
    Settled =>
        /\ \A m \in memberships : m[1] \in MembersOf(m[2]) \cup byed
        /\ \A k \in DOMAIN channels : \A s \in channels[k] :
               <<s, k>> \in memberships \/ s \in missed

\* Nobody is heard in a channel they are not in (VoiceRouter.cpp:208): it has them
\* as a member, and the match server lists them.  Whoever is listed in a match is
\* heard there and not in their room, unless they were ever listed in two at once:
\* the router keeps one id, and forgets it with the leave of the later match
\* (VoiceRouter.cpp:230, 256).  The rooms' joins and leaves may arrive out of order,
\* be replayed, come before the voice hello or after the session is closed.
SpeaksWhereListed ==
    /\ \A s \in DOMAIN peers : \A k \in ActiveChannel(peers[s]) :
           /\ s \in MembersOf(k)
           /\ Settled => <<s, k>> \in memberships \/ s \in missed
    /\ Settled => \A s \in Session \ (missed \cup byed \cup crossed) : \A k \in Matches(s) :
                      s \in DOMAIN peers /\ ActiveChannel(peers[s]) = {k}

\* A datagram is attributed to a session that was last heard at its address
\* (VoiceRouter.cpp:98), whoever says hello from wherever, falls silent, is swept,
\* leaves or is closed in between.
EndpointIsItsPeers ==
    \A e \in DOMAIN endpointToSession :
        /\ endpointToSession[e] \in DOMAIN peers
        /\ peers[endpointToSession[e]].endpoint = e

\* A link that stops failing comes back, and the satellite is told all it missed.
LinkHeals == <>[]Settled
=============================================================================
