------------------------------ MODULE PeerLink ------------------------------
(***************************************************************************)
(* The control link of a satellite to the match server: PeerLink dials,    *)
(* says P_ServerHello and dials again when the connection is lost; the     *)
(* match server registers the peer (PeerRegistry) and replays what it      *)
(* must know (ResyncPeer).                                                 *)
(*                                                                         *)
(* Each dial is a connection of its own.  Its ends find out that it broke  *)
(* one after the other, and what was sent and not yet handled is lost with *)
(* the end it was sent to.  The heartbeats are left out: they only tell    *)
(* the registry when to drop a silent peer, which it may here at any time. *)
(***************************************************************************)
EXTENDS Integers, FiniteSets, SequencesExt

CONSTANTS
    MaxConns,   \* bound: connections dialled
    NoConn

ASSUME LinkAssumption == MaxConns \in Nat \ {0} /\ NoConn \notin Nat

Conn == 1..MaxConns

VARIABLES
    conns,      \* the connections
    link,       \* PeerLink: _session, _connected and the timers it has pending
    resyncs     \* connections ResyncPeer posted a job for

linkVars == <<conns, link, resyncs>>

\* Of a connection, self is the satellite's end and peer the match server's.
LinkTypeOK ==
    /\ DOMAIN conns = Conn
    /\ \A c \in Conn : /\ conns[c].self \in {"unused", "dialling", "up", "down"}
                       /\ conns[c].peer \in {"none", "up", "registered", "down"}
                       /\ conns[c].toMatch \in {<<>>, <<"hello">>}
    /\ link \in [session : Conn \cup {NoConn}, connected : BOOLEAN,
                 reconnects : 0..1]
    /\ resyncs \subseteq Conn

Unused == [self |-> "unused", peer |-> "none", toMatch |-> <<>>, toSelf |-> <<>>]
Idle == [session |-> NoConn, connected |-> FALSE, reconnects |-> 0]

Fresh == {c \in Conn : conns[c].self = "unused"}
NextConn == CHOOSE c \in Fresh : \A d \in Fresh : c <= d

\* Start, whose TryConnect dials at once.
LinkInit ==
    /\ conns = [c \in Conn |-> IF c = 1 THEN [Unused EXCEPT !.self = "dialling"] ELSE Unused]
    /\ link = Idle
    /\ resyncs = {}
-----------------------------------------------------------------------------
\* The satellite's end

\* Start failing on the spot schedules the next attempt: nothing has changed.
TryConnect ==
    /\ link.reconnects > 0 /\ Fresh # {}
    /\ link' = [link EXCEPT !.reconnects = @ - 1]
    /\ conns' = [conns EXCEPT ![NextConn].self = "dialling"]
    /\ UNCHANGED resyncs

ScheduleReconnect(l) == [l EXCEPT !.reconnects = @ + 1]

HandleConnected(c, l) == [l EXCEPT !.session = c, !.connected = TRUE]

\* Wrong: a connection that is lost is not dialled again.
LostForGood(c, l) ==
    IF l.session = c THEN [l EXCEPT !.session = NoConn, !.connected = FALSE] ELSE l

HandleDisconnected(c, l) ==
    IF l.session = c
    THEN ScheduleReconnect([l EXCEPT !.session = NoConn, !.connected = FALSE])
    ELSE l

DialSucceeds(c) ==
    /\ conns[c].self = "dialling"
    /\ conns' = [conns EXCEPT ![c].self = "up", ![c].peer = "up", ![c].toMatch = <<"hello">>]
    /\ link' = HandleConnected(c, link)
    /\ UNCHANGED resyncs

\* ProcessConnect is not told that ConnectEx failed: the link takes itself to be
\* connected until the hello it sends fails, which ends in HandleDisconnected.
DialFails(c) ==
    /\ conns[c].self = "dialling" /\ Fresh # {}
    /\ conns' = [conns EXCEPT ![c].self = "down"]
    /\ link' = HandleDisconnected(c, HandleConnected(c, link))
    /\ UNCHANGED resyncs

\* The satellite's end goes down; the last connection allowed stays.
SelfLoses(c) ==
    /\ conns[c].self = "up" /\ (conns[c].peer = "down" \/ Fresh # {})
    /\ conns' = [conns EXCEPT ![c].self = "down", ![c].toSelf = <<>>]
    /\ link' = HandleDisconnected(c, link)
    /\ UNCHANGED resyncs

\* The process ends and is started again.
LinkRestarts ==
    /\ Fresh # {}
    /\ conns' = [c \in Conn |->
                    CASE conns[c].self = "up" -> [conns[c] EXCEPT !.self = "down", !.toSelf = <<>>]
                      [] conns[c].self = "dialling" -> [conns[c] EXCEPT !.self = "down"]
                      [] c = NextConn -> [conns[c] EXCEPT !.self = "dialling"]
                      [] OTHER -> conns[c]]
    /\ link' = Idle
    /\ UNCHANGED resyncs

Delivered(c) == [conns EXCEPT ![c].toSelf = Tail(@)]
-----------------------------------------------------------------------------
\* The match server's end

Registered == {c \in Conn : conns[c].peer = "registered"}

\* What is sent to an end that is down is lost.
Reaches(c) == c \in Registered /\ conns[c].self = "up"

\* PeerRegistry::SendToAll
SentToAll(msg) ==
    [c \in Conn |-> IF Reaches(c) THEN [conns[c] EXCEPT !.toSelf = Append(@, msg)]
                    ELSE conns[c]]

\* Wrong: what the satellite missed is replayed to the first connection only.
ResyncFirstOnly(c) == IF c = 1 THEN {c} ELSE {}

\* The job ResyncPeer posts
ResyncOf(c) == {c}

P_ServerHello(c) ==
    /\ conns[c].peer = "up" /\ conns[c].toMatch # <<>>
    /\ conns' = [conns EXCEPT ![c].peer = "registered", ![c].toMatch = Tail(@)]
    /\ resyncs' = resyncs \cup ResyncOf(c)
    /\ UNCHANGED link

\* OnDisconnected or DropSilentPeers: the registry forgets the peer.  An end the
\* satellite has left follows; the last connection allowed stays.
PeerLost(c) ==
    /\ conns[c].peer \in {"up", "registered"}
    /\ conns[c].self = "down" \/ Fresh # {}
    /\ conns' = [conns EXCEPT ![c].peer = "down", ![c].toMatch = <<>>]
    /\ UNCHANGED <<link, resyncs>>

\* The body of ResyncPeer: packets in the order the set is walked.
Resync(c, replay) ==
    /\ c \in resyncs
    /\ resyncs' = resyncs \ {c}
    /\ conns' = IF Reaches(c) THEN [conns EXCEPT ![c].toSelf = @ \o replay] ELSE conns
    /\ UNCHANGED link
-----------------------------------------------------------------------------
Live == {c \in Conn : conns[c].self = "up"}
Dialling == {c \in Conn : conns[c].self = "dialling"}
=============================================================================
