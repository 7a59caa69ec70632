---------------------------- MODULE VoiceRouter ----------------------------
(***************************************************************************)
(* The voice server: the tickets it was sent (TicketTable) and VoiceRouter,*)
(* which forwards a datagram of a speaker to the others of its channel.    *)
(*                                                                         *)
(* A handler is one step under _lock, except HandleHello, which consumes   *)
(* the ticket under the lock of the table before it takes its own.         *)
(* A ticket is named by the session it was issued for: there is one each.  *)
(***************************************************************************)
EXTENDS Integers, Functions

CONSTANTS
    Session,        \* session ids
    Endpoint,       \* addresses datagrams come from
    RoomId,         \* channel ids of type Room
    InstanceId,     \* channel ids of type Instance
    None

ASSUME RouterAssumption == None \notin Endpoint \cup RoomId \cup InstanceId

VARIABLES
    tickets,            \* _tickets
    redeemed,           \* hellos between Consume and _lock
    peers,              \* _peers
    endpointToSession,  \* _endpointToSession
    channels            \* _channels

routerVars == <<tickets, redeemed, peers, endpointToSession, channels>>

\* MakeChannelKey
Channel == {"Room"} \X RoomId \cup {"Instance"} \X InstanceId

\* heard: lastSeenAt is not zero.
Peer == [endpoint : Endpoint \cup {None}, heard : BOOLEAN,
         Room : RoomId \cup {None}, Instance : InstanceId \cup {None}]

RouterTypeOK ==
    /\ tickets \subseteq Session
    /\ redeemed \subseteq Endpoint \X Session
    /\ DOMAIN peers \subseteq Session /\ Range(peers) \subseteq Peer
    /\ DOMAIN endpointToSession \subseteq Endpoint
    /\ Range(endpointToSession) \subseteq Session
    /\ DOMAIN channels \subseteq Channel /\ Range(channels) \subseteq SUBSET Session

RouterInit ==
    /\ tickets = {} /\ redeemed = {}
    /\ peers = <<>> /\ endpointToSession = <<>> /\ channels = <<>>

Without(f, S) == Restrict(f, DOMAIN f \ S)

\* map[x] = v, which makes an entry when there is none
Put(map, x, v) == [y \in DOMAIN map \cup {x} |-> IF y = x THEN v ELSE map[y]]

NewPeer == [endpoint |-> None, heard |-> FALSE, Room |-> None, Instance |-> None]

\* _peers[s], which makes an entry when there is none
PeerOf(s) == IF s \in DOMAIN peers THEN peers[s] ELSE NewPeer

MembersOf(k) == IF k \in DOMAIN channels THEN channels[k] ELSE {}
-----------------------------------------------------------------------------
\* The ticket table

Add(s) == tickets' = tickets \cup {s}

\* A hello leaves no entry behind: Consume erases one that has expired as well,
\* and then says no.
Consume(from, s) ==
    /\ s \in tickets
    /\ tickets' = tickets \ {s}
    /\ redeemed' \in {redeemed, redeemed \cup {<<from, s>>}}
    /\ UNCHANGED <<peers, endpointToSession, channels>>

PurgeExpired == \E expired \in SUBSET tickets : tickets' = tickets \ expired
-----------------------------------------------------------------------------
\* Datagrams

HandleHello(from, s) ==
    /\ <<from, s>> \in redeemed
    /\ redeemed' = redeemed \ {<<from, s>>}
    /\ endpointToSession' =
           Put(Without(endpointToSession, {PeerOf(s).endpoint}), from, s)
    /\ peers' = Put(peers, s, [PeerOf(s) EXCEPT !.endpoint = from, !.heard = TRUE])
    /\ UNCHANGED <<tickets, channels>>

\* HandleData and HandlePing: whoever the address belongs to was seen.
HandleData(from) ==
    /\ from \in DOMAIN endpointToSession /\ endpointToSession[from] \in DOMAIN peers
    /\ peers' = [peers EXCEPT ![endpointToSession[from]].heard = TRUE]
    /\ UNCHANGED <<tickets, redeemed, endpointToSession, channels>>

HandleBye(from) ==
    /\ from \in DOMAIN endpointToSession
    /\ LET s == endpointToSession[from]
       IN  /\ endpointToSession' = Without(endpointToSession, {from})
           /\ peers' = Without(peers, {s})
           /\ channels' = [k \in DOMAIN channels |-> channels[k] \ {s}]
    /\ UNCHANGED <<tickets, redeemed>>

\* ResolveActiveChannel, as a set of at most one channel
ActiveChannel(p) ==
    CASE p.Instance # None -> {<<"Instance", p.Instance>>}
      [] p.Instance = None /\ p.Room # None -> {<<"Room", p.Room>>}
      [] OTHER -> {}
-----------------------------------------------------------------------------
\* Packets of the control link

NonEmpty(c) == Restrict(c, {k \in DOMAIN c : c[k] # {}})

ApplyChannelJoin(s, k) ==
    /\ peers' = Put(peers, s, [PeerOf(s) EXCEPT ![k[1]] = k[2]])
    /\ channels' = Put(channels, k, MembersOf(k) \cup {s})
    /\ UNCHANGED <<tickets, redeemed, endpointToSession>>

\* Wrong: only the channel is told of the leave, and not the peer.
AfterChannelsLeave(p, k) == p

\* The leave of a channel that was left for another does not touch the other.
AfterLeave(p, k) == IF p[k[1]] = k[2] THEN [p EXCEPT ![k[1]] = None] ELSE p

ApplyChannelLeave(s, k) ==
    /\ channels' = IF k \in DOMAIN channels
                   THEN LET left == [channels EXCEPT ![k] = @ \ {s}]
                        IN  IF left[k] = {} THEN Without(left, {k}) ELSE left
                   ELSE channels
    /\ IF s \in DOMAIN peers
       THEN LET p == AfterLeave(peers[s], k)
                forget == p.Room = None /\ p.Instance = None /\ ~p.heard
            IN  peers' = IF forget THEN Without(peers, {s}) ELSE [peers EXCEPT ![s] = p]
       ELSE UNCHANGED peers
    /\ UNCHANGED <<tickets, redeemed, endpointToSession>>

RemovedFromAll(s) == NonEmpty([k \in DOMAIN channels |-> channels[k] \ {s}])

\* Wrong: datagrams from the address of a session that closed still find it.
StillMapped(s) == endpointToSession

Unmapped(s) == Without(endpointToSession, {PeerOf(s).endpoint})

RemoveSession(s) ==
    /\ endpointToSession' = Unmapped(s)
    /\ peers' = Without(peers, {s})
    /\ channels' = RemovedFromAll(s)
    /\ UNCHANGED <<tickets, redeemed>>
-----------------------------------------------------------------------------
\* Of the peers that were heard any may have been silent since for too long.
\* Membership stays: the match server still has them in the room.
SweepIdlePeers ==
    \E stale \in SUBSET {s \in DOMAIN peers : peers[s].heard} :
        /\ endpointToSession' =
               Without(endpointToSession, {peers[s].endpoint : s \in stale})
        /\ peers' = [s \in DOMAIN peers |->
                        IF s \in stale
                        THEN [peers[s] EXCEPT !.endpoint = None, !.heard = FALSE]
                        ELSE peers[s]]

\* The body of the timer: first the tickets, then the peers.
Maintenance ==
    /\ PurgeExpired /\ SweepIdlePeers
    /\ UNCHANGED <<redeemed, channels>>

Datagram ==
    \E from \in Endpoint :
        \/ \E s \in Session : Consume(from, s) \/ HandleHello(from, s)
        \/ HandleData(from) \/ HandleBye(from)
=============================================================================
