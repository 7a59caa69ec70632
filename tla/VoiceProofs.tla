---------------------------- MODULE VoiceProofs ----------------------------
(***************************************************************************)
(* For any players, addresses, rooms and instances, and however often the  *)
(* link is lost and the process restarted: a datagram is attributed to who *)
(* is at its address, a player is heard in a channel it is in, and once    *)
(* the link is quiet the voice server's view is the match server's.        *)
(***************************************************************************)
EXTENDS VoiceServer, FiniteSetTheorems, WellFoundedInduction, TLAPS

(***************************************************************************)
(* The inductive invariant                                                 *)
(***************************************************************************)

Connection ==
    [self : {"unused", "dialling", "up", "down"},
     peer : {"none", "up", "registered", "down"},
     toMatch : {<<>>, <<"hello">>}, toSelf : Seq(Message)]

LinkRecord == [session : Conn \cup {NoConn}, connected : BOOLEAN, reconnects : 0..1]

LinkTyped == conns \in [Conn -> Connection] /\ link \in LinkRecord /\ resyncs \subseteq Conn

RouterTyped ==
    /\ tickets \subseteq Session /\ redeemed \subseteq Endpoint \X Session
    /\ DOMAIN peers \subseteq Session /\ \A s \in DOMAIN peers : peers[s] \in Peer
    /\ DOMAIN endpointToSession \subseteq Endpoint
    /\ \A e \in DOMAIN endpointToSession : endpointToSession[e] \in Session
    /\ DOMAIN channels \subseteq Channel
    /\ \A k \in DOMAIN channels : channels[k] \subseteq Session

MatchTyped ==
    /\ memberships \subseteq Session \X Channel /\ IsFiniteSet(memberships)
    /\ players \in [Session -> {"new", "here", "gone"}]
    /\ pushes \in 0..MaxPushes
    /\ missed \subseteq Session /\ byed \subseteq Session /\ crossed \subseteq Session

\* The satellite has one connection at a time, and dials only when it has none.
Connected == {c \in Conn : conns[c].self \in {"dialling", "up"}}

OneEnd ==
    /\ \A c, d \in Connected : c = d
    /\ Connected # {} => link.reconnects = 0
    /\ \A c \in Conn : conns[c].self # "up" => conns[c].toSelf = <<>>

\* A player that was never listed in two matches at once is in one.
OneInstance == \A s \in Session \ crossed : \A k, l \in Matches(s) : k = l

\* The address of a peer that was heard may have passed to another, but an
\* address leads to a peer that was heard there.
HeardAtItsAddress ==
    \A e \in DOMAIN endpointToSession :
        /\ endpointToSession[e] \in DOMAIN peers
        /\ peers[endpointToSession[e]].endpoint = e
        /\ peers[endpointToSession[e]].heard

\* The channels a peer names have it as a member.
ActiveIsMember ==
    \A s \in DOMAIN peers, k \in Channel : peers[s][k[1]] = k[2] => s \in MembersOf(k)

\* msg ends the membership of s in k.
Ends(msg, s, k) == msg = <<"closed", s>> \/ msg = <<"leave", s, k>>

EndIn(q, s, k) == \E i \in DOMAIN q : Ends(q[i], s, k)

EndFollows(q, s, k) ==
    \A i \in DOMAIN q : q[i] = <<"join", s, k>> =>
        \E j \in DOMAIN q : j > i /\ Ends(q[j], s, k)

\* Of a membership the match server does not list, the voice server is still to
\* be told the end, whether it has it or is about to be told of it first; or it
\* has missed it.
EndIsComing ==
    \A s \in Session, k \in Channel : <<s, k>> \in memberships \/ s \in missed \/
        /\ s \in MembersOf(k) => \E c \in Conn : EndIn(conns[c].toSelf, s, k)
        /\ \A c \in Conn : EndFollows(conns[c].toSelf, s, k)

\* msg undoes what a join of s to k has done.  With one, s is in no second match: then
\* its join to a match also says where it is heard.
Displaces(msg, s, k, one) ==
    \/ Ends(msg, s, k)
    \/ /\ one /\ k[1] = "Instance" /\ msg[1] = "join" /\ msg[2] = s
       /\ msg[3] # k /\ msg[3][1] = "Instance"

InPlace(s, k, one) ==
    /\ s \in MembersOf(k)
    /\ one /\ k[1] = "Instance" => s \in DOMAIN peers /\ peers[s].Instance = k[2]

\* After the packets of q, s is in k: it is there and none of them undoes that, or
\* one of them joins it and none after that does.
JoinIsLast(q, s, k, there, one) ==
    \/ there /\ \A i \in DOMAIN q : ~Displaces(q[i], s, k, one)
    \/ \E i \in DOMAIN q : /\ q[i] = <<"join", s, k>>
                           /\ \A j \in DOMAIN q : j > i => ~Displaces(q[j], s, k, one)

\* What is on its way to a satellite that was resynced leaves it where the match
\* server lists it, but for who took themselves off.
UpToDate ==
    \A c \in Conn : Reaches(c) /\ c \notin resyncs =>
        \A s \in Session \ byed, k \in Channel, one \in BOOLEAN :
            <<s, k>> \in memberships /\ (one => s \notin crossed) =>
                JoinIsLast(conns[c].toSelf, s, k, InPlace(s, k, one), one)

VInv ==
    /\ LinkTyped /\ RouterTyped /\ MatchTyped
    /\ OneEnd /\ OneInstance /\ HeardAtItsAddress /\ ActiveIsMember
    /\ EndIsComing /\ UpToDate
-----------------------------------------------------------------------------
(***************************************************************************)
(* Channels, packets and peers                                             *)
(***************************************************************************)

\* A channel key is a type and an id of it.
LEMMA ChannelIsPair ==
    ASSUME NEW k \in Channel
    PROVE  /\ k = <<k[1], k[2]>> /\ k[2] # None
           /\ \/ k[1] = "Room" /\ k[2] \in RoomId
              \/ k[1] = "Instance" /\ k[2] \in InstanceId
<1>1. CASE k \in {"Room"} \X RoomId
  BY <1>1, RouterAssumption
<1>2. CASE k \in {"Instance"} \X InstanceId
  BY <1>2, RouterAssumption
<1> QED  BY <1>1, <1>2 DEF Channel

\* Two channels of a type differ in their id.
LEMMA SameChannel ==
    ASSUME NEW k \in Channel, NEW l \in Channel, k[1] = l[1], k[2] = l[2]
    PROVE  k = l
BY ChannelIsPair

\* The four packets there are.
LEMMA MessageIsOneOf ==
    ASSUME NEW m \in Message
    PROVE  \/ \E s \in Session : m = <<"ticket", s>> \/ m = <<"closed", s>>
           \/ \E s \in Session, k \in Channel : m = <<"join", s, k>> \/ m = <<"leave", s, k>>
BY DEF Message
\* What the match server sends is a packet.
LEMMA IsMessage ==
    ASSUME NEW s \in Session
    PROVE  /\ <<"ticket", s>> \in Message /\ <<"closed", s>> \in Message
           /\ \A k \in Channel : <<"join", s, k>> \in Message /\ <<"leave", s, k>> \in Message
BY DEF Message

\* Joining a channel of one type leaves the other, and the address, alone.
LEMMA PeerJoins ==
    ASSUME NEW p \in Peer, NEW k \in Channel
    PROVE  LET q == [p EXCEPT ![k[1]] = k[2]]
           IN  /\ q \in Peer /\ q.endpoint = p.endpoint /\ q.heard = p.heard
               /\ q[k[1]] = k[2]
               /\ k[1] = "Room" => q.Instance = p.Instance
               /\ k[1] = "Instance" => q.Room = p.Room
BY SMT DEF Peer, Channel

\* Leaving a channel of one type leaves the other, and the address, alone.
LEMMA PeerLeaves ==
    ASSUME NEW p \in Peer, NEW k \in Channel
    PROVE  LET q == AfterLeave(p, k)
           IN  /\ q \in Peer /\ q.endpoint = p.endpoint /\ q.heard = p.heard
               /\ q[k[1]] # k[2]
               /\ p[k[1]] # k[2] => q = p
               /\ k[1] = "Room" => q.Instance = p.Instance
               /\ k[1] = "Instance" => q.Room = p.Room
<1>1. k[2] # None
  BY ChannelIsPair
<1> QED  BY <1>1, SMT DEF Peer, Channel, AfterLeave
\* An entry that is there or is made.
LEMMA PeerOfIsPeer ==
    ASSUME RouterTyped, NEW s \in Session
    PROVE  PeerOf(s) \in Peer
BY DEF RouterTyped, PeerOf, NewPeer, Peer

\* Whatever channel a new peer names, it is none.
LEMMA NewPeerIsNowhere ==
    ASSUME NEW k \in Channel
    PROVE  NewPeer[k[1]] # k[2]
BY ChannelIsPair DEF NewPeer
-----------------------------------------------------------------------------

(***************************************************************************)
(* What is on its way                                                      *)
(***************************************************************************)

\* What a packet that displaces nothing does not change.
LEMMA AppendKeepsJoin ==
    ASSUME NEW q \in Seq(Message), NEW msg \in Message, NEW s, NEW k, NEW one,
           NEW there \in BOOLEAN, JoinIsLast(q, s, k, there, one), ~Displaces(msg, s, k, one)
    PROVE  JoinIsLast(Append(q, msg), s, k, there, one)
<1> DEFINE r == Append(q, msg)
<1>1. /\ DOMAIN q = 1..Len(q) /\ DOMAIN r = 1..(Len(q) + 1) /\ Len(q) \in Nat
      /\ \A i \in 1..Len(q) : r[i] = q[i]
      /\ r[Len(q) + 1] = msg
  OBVIOUS
<1> HIDE DEF r
<1>2. CASE there /\ \A i \in DOMAIN q : ~Displaces(q[i], s, k, one)
  BY <1>1, <1>2 DEF JoinIsLast
<1>3. ASSUME NEW i \in DOMAIN q, q[i] = <<"join", s, k>>,
             \A j \in DOMAIN q : j > i => ~Displaces(q[j], s, k, one)
      PROVE  JoinIsLast(r, s, k, there, one)
  <2>1. i \in DOMAIN r /\ r[i] = <<"join", s, k>>
    BY <1>1, <1>3
  <2>2. ASSUME NEW j \in DOMAIN r, j > i PROVE ~Displaces(r[j], s, k, one)
    <3>1. CASE j = Len(q) + 1
      BY <1>1, <3>1
    <3>2. CASE j \in DOMAIN q
      BY <1>1, <1>3, <2>2, <3>2
    <3> QED  BY <1>1, <3>1, <3>2
  <2> QED  BY <2>1, <2>2 DEF JoinIsLast
<1> QED  BY <1>2, <1>3 DEF JoinIsLast, r

\* What follows the packets on their way joins s to k, and does not undo it.
LEMMA ConcatJoins ==
    ASSUME NEW q \in Seq(Message), NEW r \in Seq(Message), NEW s, NEW k, NEW one, NEW there,
           NEW n \in DOMAIN r, r[n] = <<"join", s, k>>,
           \A i \in DOMAIN r : ~Displaces(r[i], s, k, one)
    PROVE  JoinIsLast(q \o r, s, k, there, one)
<1> DEFINE t == q \o r
<1>1. /\ DOMAIN r = 1..Len(r) /\ DOMAIN t = 1..(Len(q) + Len(r))
      /\ Len(q) \in Nat /\ Len(r) \in Nat
      /\ \A i \in 1..Len(r) : t[Len(q) + i] = r[i]
  OBVIOUS
<1> HIDE DEF t
<1>2. Len(q) + n \in DOMAIN t /\ t[Len(q) + n] = <<"join", s, k>>
  BY <1>1
<1>3. ASSUME NEW j \in DOMAIN t, j > Len(q) + n PROVE ~Displaces(t[j], s, k, one)
  <2>1. j - Len(q) \in DOMAIN r /\ t[j] = r[j - Len(q)]
    <3>1. j - Len(q) \in 1..Len(r) /\ j = Len(q) + (j - Len(q))
      BY <1>1, <1>3
    <3> QED  BY <1>1, <3>1
  <2> QED  BY <2>1
<1> QED  BY <1>2, <1>3 DEF JoinIsLast, t
\* A join that is sent last is last.
LEMMA AppendJoins ==
    ASSUME NEW q \in Seq(Message), NEW s \in Session, NEW k \in Channel, NEW one, NEW there
    PROVE  JoinIsLast(Append(q, <<"join", s, k>>), s, k, there, one)
<1> DEFINE r == Append(q, <<"join", s, k>>)
<1>1. /\ DOMAIN r = 1..(Len(q) + 1) /\ Len(q) \in Nat
      /\ r[Len(q) + 1] = <<"join", s, k>>
  BY IsMessage
<1> HIDE DEF r
<1>2. Len(q) + 1 \in DOMAIN r /\ \A j \in DOMAIN r : ~(j > Len(q) + 1)
  BY <1>1
<1> QED  BY <1>1, <1>2 DEF JoinIsLast, r

\* The first packet is taken: it joins s to k, or leaves it there.
LEMMA TailKeepsJoin ==
    ASSUME NEW q \in Seq(Message), q # <<>>, NEW s, NEW k, NEW one,
           NEW there \in BOOLEAN, NEW then \in BOOLEAN, JoinIsLast(q, s, k, there, one),
           Head(q) = <<"join", s, k>> => then,
           there /\ ~Displaces(Head(q), s, k, one) => then
    PROVE  JoinIsLast(Tail(q), s, k, then, one)
<1> DEFINE r == Tail(q)
<1>1. /\ DOMAIN q = 1..Len(q) /\ DOMAIN r = 1..(Len(q) - 1) /\ Len(q) \in Nat \ {0}
      /\ Head(q) = q[1]
      /\ \A i \in 1..(Len(q) - 1) : r[i] = q[i + 1]
  OBVIOUS
<1> HIDE DEF r
<1>2. \A i \in DOMAIN r : i + 1 \in DOMAIN q /\ r[i] = q[i + 1]
  BY <1>1
<1>3. CASE there /\ \A i \in DOMAIN q : ~Displaces(q[i], s, k, one)
  <2>1. then
    BY <1>1, <1>3
  <2>2. \A i \in DOMAIN r : ~Displaces(r[i], s, k, one)
    BY <1>2, <1>3
  <2> QED  BY <2>1, <2>2 DEF JoinIsLast, r
<1>4. ASSUME NEW i \in DOMAIN q, q[i] = <<"join", s, k>>,
             \A j \in DOMAIN q : j > i => ~Displaces(q[j], s, k, one)
      PROVE  JoinIsLast(r, s, k, then, one)
  <2>1. \A j \in DOMAIN r : j > i - 1 => ~Displaces(r[j], s, k, one)
    BY <1>1, <1>2, <1>4
  <2>2. CASE i = 1
    <3>1. then
      BY <1>1, <1>4, <2>2
    <3>2. \A j \in DOMAIN r : ~Displaces(r[j], s, k, one)
      BY <1>1, <2>1, <2>2
    <3> QED  BY <3>1, <3>2 DEF JoinIsLast
  <2>3. CASE i # 1
    <3>1. i - 1 \in DOMAIN r /\ r[i - 1] = q[i]
      <4>1. i - 1 \in 1..(Len(q) - 1) /\ (i - 1) + 1 = i
        BY <1>1, <1>4, <2>3
      <4> QED  BY <1>1, <4>1
    <3> QED  BY <1>4, <2>1, <3>1 DEF JoinIsLast
  <2> QED  BY <2>2, <2>3
<1> QED  BY <1>3, <1>4 DEF JoinIsLast, r

\* A packet more: an end ends, and what is not a join needs none.
LEMMA AppendEnds ==
    ASSUME NEW q \in Seq(Message), NEW msg \in Message, NEW s, NEW k
    PROVE  /\ EndIn(q, s, k) => EndIn(Append(q, msg), s, k)
           /\ Ends(msg, s, k) => EndIn(Append(q, msg), s, k)
           /\ Ends(msg, s, k) => EndFollows(Append(q, msg), s, k)
           /\ EndFollows(q, s, k) /\ msg # <<"join", s, k>> => EndFollows(Append(q, msg), s, k)
<1> DEFINE r == Append(q, msg)
<1>1. /\ DOMAIN q = 1..Len(q) /\ DOMAIN r = 1..(Len(q) + 1) /\ Len(q) \in Nat
      /\ \A i \in 1..Len(q) : r[i] = q[i]
      /\ r[Len(q) + 1] = msg
  OBVIOUS
<1> HIDE DEF r
<1>2. EndIn(q, s, k) => EndIn(r, s, k)
  BY <1>1 DEF EndIn
<1>3. ASSUME Ends(msg, s, k) PROVE EndIn(r, s, k) /\ EndFollows(r, s, k)
  <2>1. Len(q) + 1 \in DOMAIN r /\ Ends(r[Len(q) + 1], s, k)
    BY <1>1, <1>3
  <2>2. \A i \in DOMAIN r : r[i] = <<"join", s, k>> => Len(q) + 1 > i
    BY <1>1, <1>3 DEF Ends
  <2> QED  BY <2>1, <2>2 DEF EndIn, EndFollows
<1>4. ASSUME EndFollows(q, s, k), msg # <<"join", s, k>> PROVE EndFollows(r, s, k)
  <2>1. SUFFICES ASSUME NEW i \in DOMAIN r, r[i] = <<"join", s, k>>
                 PROVE  \E j \in DOMAIN r : j > i /\ Ends(r[j], s, k)
    BY DEF EndFollows
  <2>2. i \in DOMAIN q /\ q[i] = <<"join", s, k>>
    <3>1. CASE i = Len(q) + 1
      BY <1>1, <1>4, <2>1, <3>1
    <3>2. CASE i # Len(q) + 1
      BY <1>1, <2>1, <3>2
    <3> QED  BY <3>1, <3>2
  <2>3. PICK j \in DOMAIN q : j > i /\ Ends(q[j], s, k)
    BY <1>4, <2>2 DEF EndFollows
  <2> QED  BY <1>1, <2>3
<1> QED  BY <1>2, <1>3, <1>4 DEF r

\* Joins of others, or of the listed, after what is on its way.
LEMMA ConcatEnds ==
    ASSUME NEW q \in Seq(Message), NEW r \in Seq(Message), NEW s, NEW k,
           \A i \in DOMAIN r : r[i] # <<"join", s, k>>
    PROVE  /\ EndIn(q, s, k) => EndIn(q \o r, s, k)
           /\ EndFollows(q, s, k) => EndFollows(q \o r, s, k)
<1> DEFINE t == q \o r
<1>1. /\ DOMAIN q = 1..Len(q) /\ DOMAIN r = 1..Len(r) /\ DOMAIN t = 1..(Len(q) + Len(r))
      /\ Len(q) \in Nat /\ Len(r) \in Nat
      /\ \A i \in 1..Len(q) : t[i] = q[i]
      /\ \A i \in 1..Len(r) : t[Len(q) + i] = r[i]
  OBVIOUS
<1> HIDE DEF t
<1>2. EndIn(q, s, k) => EndIn(t, s, k)
  BY <1>1 DEF EndIn
<1>3. ASSUME EndFollows(q, s, k) PROVE EndFollows(t, s, k)
  <2>1. SUFFICES ASSUME NEW i \in DOMAIN t, t[i] = <<"join", s, k>>
                 PROVE  \E j \in DOMAIN t : j > i /\ Ends(t[j], s, k)
    BY DEF EndFollows
  <2>2. i \in DOMAIN q /\ q[i] = <<"join", s, k>>
    <3>1. CASE i > Len(q)
      <4>1. i - Len(q) \in 1..Len(r) /\ i = Len(q) + (i - Len(q))
        BY <1>1, <2>1, <3>1
      <4> QED  BY <1>1, <2>1, <4>1
    <3> QED  BY <1>1, <2>1, <3>1
  <2>3. PICK j \in DOMAIN q : j > i /\ Ends(q[j], s, k)
    BY <1>3, <2>2 DEF EndFollows
  <2> QED  BY <1>1, <2>3
<1> QED  BY <1>2, <1>3 DEF t

\* The first packet is taken: an end is still to come unless it was that one, and
\* one is still to come after a join.
LEMMA TailEnds ==
    ASSUME NEW q \in Seq(Message), q # <<>>, NEW s, NEW k
    PROVE  /\ EndIn(q, s, k) => EndIn(Tail(q), s, k) \/ Ends(Head(q), s, k)
           /\ EndFollows(q, s, k) =>
                 /\ EndFollows(Tail(q), s, k)
                 /\ Head(q) = <<"join", s, k>> => EndIn(Tail(q), s, k)
<1> DEFINE r == Tail(q)
<1>1. /\ DOMAIN q = 1..Len(q) /\ DOMAIN r = 1..(Len(q) - 1) /\ Len(q) \in Nat \ {0}
      /\ Head(q) = q[1]
      /\ \A i \in 1..(Len(q) - 1) : r[i] = q[i + 1]
  OBVIOUS
<1> HIDE DEF r
<1>2. \A i \in DOMAIN q : i > 1 => i - 1 \in DOMAIN r /\ r[i - 1] = q[i]
  <2>1. SUFFICES ASSUME NEW i \in DOMAIN q, i > 1
                 PROVE  i - 1 \in DOMAIN r /\ r[i - 1] = q[i]
    OBVIOUS
  <2>2. i - 1 \in 1..(Len(q) - 1) /\ (i - 1) + 1 = i
    BY <1>1, <2>1
  <2> QED  BY <1>1, <2>2
<1>3. \A i \in DOMAIN r : i + 1 \in DOMAIN q /\ r[i] = q[i + 1]
  BY <1>1
<1>4. EndIn(q, s, k) => EndIn(r, s, k) \/ Ends(Head(q), s, k)
  BY <1>1, <1>2 DEF EndIn
<1>5. ASSUME EndFollows(q, s, k) PROVE EndFollows(r, s, k)
  <2>1. SUFFICES ASSUME NEW i \in DOMAIN r, r[i] = <<"join", s, k>>
                 PROVE  \E j \in DOMAIN r : j > i /\ Ends(r[j], s, k)
    BY DEF EndFollows
  <2>2. PICK j \in DOMAIN q : j > i + 1 /\ Ends(q[j], s, k)
    BY <1>3, <1>5, <2>1 DEF EndFollows
  <2>3. j > 1 /\ j - 1 > i
    BY <1>1, <2>2
  <2> QED  BY <1>2, <2>2, <2>3
<1>6. ASSUME EndFollows(q, s, k), Head(q) = <<"join", s, k>> PROVE EndIn(r, s, k)
  <2>1. PICK j \in DOMAIN q : j > 1 /\ Ends(q[j], s, k)
    BY <1>1, <1>6 DEF EndFollows
  <2> QED  BY <1>2, <2>1 DEF EndIn
<1> QED  BY <1>4, <1>5, <1>6 DEF r
-----------------------------------------------------------------------------

(***************************************************************************)
(* The link                                                                *)
(***************************************************************************)

\* A set of numbers has a least one.
LEMMA LeastElement ==
    ASSUME NEW S, S \subseteq Nat, S # {}
    PROVE  \E least \in S : \A other \in S : least <= other
<1> DEFINE T == {1..n : n \in S}
<1>1. IsWellFoundedOn(StrictSubsetOrdering(Nat), FiniteSubsetsOf(Nat))
  BY FS_StrictSubsetOrderingWellFounded
<1>2. T \subseteq FiniteSubsetsOf(Nat) /\ T # {}
  <2>1. \A n \in S : 1..n \subseteq Nat /\ IsFiniteSet(1..n)
    BY FS_Interval
  <2> QED  BY <2>1 DEF FiniteSubsetsOf
<1>3. PICK x \in T : \A y \in T : ~ (<<y, x>> \in StrictSubsetOrdering(Nat))
  <2> HIDE DEF T
  <2> QED  BY <1>1, <1>2, WFMin, Zenon
<1>4. PICK m \in S : x = 1..m
  OBVIOUS
<1>5. ASSUME NEW k \in S, k < m PROVE FALSE
  <2>1. 1..k \in T /\ 1..k \subseteq Nat /\ 1..m \subseteq Nat
    OBVIOUS
  <2>2. m \in 1..m /\ m \notin 1..k
    BY <1>5
  <2>3. 1..k \subseteq 1..m /\ 1..k # 1..m
    BY <1>5, <2>2
  <2> HIDE DEF T
  <2> QED  BY <1>3, <1>4, <2>1, <2>3 DEF StrictSubsetOrdering
<1> QED  BY <1>5
\* A dial is of a connection that was not used before.
LEMMA NextConnIsFresh ==
    ASSUME Fresh # {}
    PROVE  NextConn \in Fresh
<1>1. Fresh \subseteq Nat
  BY LinkAssumption DEF Fresh, Conn
<1>2. \E c \in Fresh : \A d \in Fresh : c <= d
  BY <1>1, LeastElement
<1> QED  BY <1>2 DEF NextConn

\* What SendToAll does to each connection, and that it is a link as before.
LEMMA SentToAllSends ==
    ASSUME LinkTyped, OneEnd, NEW msg \in Message,
           conns' = SentToAll(msg), UNCHANGED <<link, resyncs>>
    PROVE  /\ LinkTyped' /\ OneEnd'
           /\ \A c \in Conn : /\ conns[c].toSelf \in Seq(Message)
                              /\ Reaches(c)' <=> Reaches(c)
                              /\ Reaches(c) => conns'[c].toSelf = Append(conns[c].toSelf, msg)
                              /\ ~Reaches(c) => conns'[c].toSelf = conns[c].toSelf
<1>1. ASSUME NEW c \in Conn
      PROVE  /\ conns[c] \in Connection /\ conns'[c] \in Connection
             /\ conns'[c].self = conns[c].self /\ conns'[c].peer = conns[c].peer
             /\ Reaches(c) => conns'[c].toSelf = Append(conns[c].toSelf, msg)
             /\ ~Reaches(c) => conns'[c].toSelf = conns[c].toSelf
  <2>1. conns[c] \in Connection /\ conns'[c] = IF Reaches(c)
              THEN [conns[c] EXCEPT !.toSelf = Append(@, msg)] ELSE conns[c]
    BY <1>1 DEF SentToAll, LinkTyped
  <2>2. Append(conns[c].toSelf, msg) \in Seq(Message)
    BY <2>1 DEF Connection
  <2>3. CASE Reaches(c)
    BY <2>1, <2>2, <2>3 DEF Connection
  <2>4. CASE ~Reaches(c)
    BY <2>1, <2>4
  <2> QED  BY <2>3, <2>4
<1>2. conns' \in [Conn -> Connection]
  <2>1. conns' = [c \in Conn |-> conns'[c]]
    BY DEF SentToAll
  <2> QED  BY <1>1, <2>1
<1>3. \A c \in Conn : Reaches(c)' <=> Reaches(c)
  BY <1>1 DEF Reaches, Registered
<1>4. Connected' = Connected
  BY <1>1 DEF Connected
<1>5. \A c \in Conn : Reaches(c) => conns[c].self = "up"
  BY DEF Reaches
<1> QED  BY <1>1, <1>2, <1>3, <1>4, <1>5 DEF LinkTyped, OneEnd, Connection
-----------------------------------------------------------------------------

(***************************************************************************)
(* The pushes of the match server                                          *)
(***************************************************************************)

\* What is said of the voice server alone holds while it does nothing.
LEMMA RouterStands ==
    ASSUME RouterTyped, HeardAtItsAddress, ActiveIsMember, UNCHANGED routerVars
    PROVE  /\ RouterTyped' /\ HeardAtItsAddress' /\ ActiveIsMember'
           /\ \A s, k, one : InPlace(s, k, one)' <=> InPlace(s, k, one)
           /\ \A k : MembersOf(k)' = MembersOf(k)
<1> USE DEF routerVars
<1>1. RouterTyped' /\ HeardAtItsAddress' /\ (\A k : MembersOf(k)' = MembersOf(k))
  BY DEF RouterTyped, HeardAtItsAddress, MembersOf
<1>2. ActiveIsMember'
  BY <1>1 DEF ActiveIsMember
<1>3. \A s, k, one : InPlace(s, k, one)' <=> InPlace(s, k, one)
  BY <1>1 DEF InPlace
<1> QED  BY <1>1, <1>2, <1>3

\* A push that tells of what it changes, or misses the satellite, keeps the
\* invariant.
LEMMA PushKeeps ==
    ASSUME VInv, NEW msg \in Message, conns' = SentToAll(msg),
           UNCHANGED <<link, resyncs, routerVars, byed>>,
           MatchTyped', OneInstance', missed \subseteq missed', crossed \subseteq crossed',
           \A s \in Session, k \in Channel :
              /\ <<s, k>> \in memberships /\ <<s, k>> \notin memberships' =>
                    Ends(msg, s, k) /\ (s \in missed' \/ \E c \in Conn : Reaches(c))
              /\ msg = <<"join", s, k>> => <<s, k>> \in memberships'
              /\ <<s, k>> \in memberships' =>
                    msg = <<"join", s, k>> \/ <<s, k>> \in memberships
              /\ \A one \in BOOLEAN : <<s, k>> \in memberships' /\ (one => s \notin crossed') =>
                    msg = <<"join", s, k>> \/ ~Displaces(msg, s, k, one)
    PROVE  VInv'
<1>1. /\ LinkTyped' /\ OneEnd'
      /\ \A c \in Conn : /\ conns[c].toSelf \in Seq(Message)
                         /\ Reaches(c)' <=> Reaches(c)
                         /\ Reaches(c) => conns'[c].toSelf = Append(conns[c].toSelf, msg)
                         /\ ~Reaches(c) => conns'[c].toSelf = conns[c].toSelf
  BY SentToAllSends DEF VInv
<1>2. /\ RouterTyped' /\ HeardAtItsAddress' /\ ActiveIsMember'
      /\ \A s, k, one : InPlace(s, k, one)' <=> InPlace(s, k, one)
      /\ \A k : MembersOf(k)' = MembersOf(k)
  BY RouterStands DEF VInv
<1>3. \A c, d \in Conn : Reaches(c) /\ d # c => conns[d].toSelf = <<>>
  BY DEF VInv, OneEnd, Connected, Reaches
<1>4. EndIsComing'
  <2>1. SUFFICES ASSUME NEW s \in Session, NEW k \in Channel,
                        <<s, k>> \notin memberships', s \notin missed'
                 PROVE  /\ s \in MembersOf(k)' => \E c \in Conn : EndIn(conns'[c].toSelf, s, k)
                        /\ \A c \in Conn : EndFollows(conns'[c].toSelf, s, k)
    BY DEF EndIsComing
  <2>2. msg # <<"join", s, k>> /\ s \notin missed
    BY <2>1
  <2>3. \A c \in Conn :
           /\ EndIn(conns[c].toSelf, s, k) => EndIn(conns'[c].toSelf, s, k)
           /\ EndFollows(conns[c].toSelf, s, k) => EndFollows(conns'[c].toSelf, s, k)
    BY <1>1, <2>2, AppendEnds
  <2>4. CASE <<s, k>> \notin memberships
    <3>1. /\ s \in MembersOf(k) => \E c \in Conn : EndIn(conns[c].toSelf, s, k)
          /\ \A c \in Conn : EndFollows(conns[c].toSelf, s, k)
      BY <2>2, <2>4 DEF VInv, EndIsComing
    <3> QED  BY <1>2, <2>3, <3>1
  <2>5. CASE <<s, k>> \in memberships
    <3>1. PICK c \in Conn : Reaches(c)
      BY <2>1, <2>5
    <3>2. Ends(msg, s, k)
      BY <2>1, <2>5
    <3>3. EndIn(conns'[c].toSelf, s, k) /\ EndFollows(conns'[c].toSelf, s, k)
      BY <1>1, <3>1, <3>2, AppendEnds
    <3>4. \A d \in Conn : d # c => EndFollows(conns'[d].toSelf, s, k)
      <4>1. SUFFICES ASSUME NEW d \in Conn, d # c
                     PROVE  EndFollows(conns'[d].toSelf, s, k)
        OBVIOUS
      <4>2. conns[d].toSelf = <<>> /\ ~Reaches(d)
        BY <1>3, <3>1, <4>1 DEF VInv, OneEnd, Connected, Reaches
      <4>3. conns'[d].toSelf = <<>>
        BY <1>1, <4>2
      <4> QED  BY <4>3 DEF EndFollows
    <3> QED  BY <3>3, <3>4
  <2> QED  BY <2>4, <2>5
<1>5. UpToDate'
  <2>1. SUFFICES ASSUME NEW c \in Conn, Reaches(c)', c \notin resyncs',
                        NEW s \in Session \ byed', NEW k \in Channel, NEW one \in BOOLEAN,
                        <<s, k>> \in memberships', one => s \notin crossed'
                 PROVE  JoinIsLast(conns'[c].toSelf, s, k, InPlace(s, k, one)', one)
    BY DEF UpToDate
  <2>2. /\ Reaches(c) /\ c \notin resyncs /\ s \notin byed
        /\ InPlace(s, k, one)' <=> InPlace(s, k, one)
    BY <1>1, <1>2, <2>1
  <2>3. InPlace(s, k, one) \in BOOLEAN /\ InPlace(s, k, one)' \in BOOLEAN
    BY DEF InPlace
  <2>4. conns'[c].toSelf = Append(conns[c].toSelf, msg)
    BY <1>1, <2>2
  <2>5. CASE msg = <<"join", s, k>>
    BY <1>1, <2>4, <2>5, AppendJoins
  <2>6. CASE <<s, k>> \in memberships /\ ~Displaces(msg, s, k, one)
    <3>1. JoinIsLast(conns[c].toSelf, s, k, InPlace(s, k, one), one)
      <4>1. one => s \notin crossed
        BY <2>1
      <4> QED  BY <2>2, <2>6, <4>1 DEF VInv, UpToDate
    <3> DEFINE there == InPlace(s, k, one)
               then == InPlace(s, k, one)'
    <3>2. there \in BOOLEAN /\ then \in BOOLEAN /\ (then <=> there)
      BY <2>2, <2>3
    <3>3. JoinIsLast(conns[c].toSelf, s, k, there, one)
      BY <3>1
    <3> HIDE DEF there, then
    <3>4. then = there
      BY <3>2
    <3>5. JoinIsLast(Append(conns[c].toSelf, msg), s, k, there, one)
      BY <1>1, <2>6, <3>2, <3>3, AppendKeepsJoin
    <3>6. JoinIsLast(conns'[c].toSelf, s, k, then, one)
      BY <2>4, <3>4, <3>5
    <3> QED  BY <3>6 DEF then
  <2> QED  BY <2>1, <2>5, <2>6
<1> QED  BY <1>1, <1>2, <1>4, <1>5 DEF VInv

\* Nobody's membership changes: the packet is not about memberships.
LEMMA HelloKeeps ==
    ASSUME VInv, NEW s \in Session, C_Hello(s)
    PROVE  VInv'
<1>1. /\ conns' = SentToAll(<<"ticket", s>>) /\ players' = [players EXCEPT ![s] = "here"]
      /\ UNCHANGED <<link, resyncs, routerVars, memberships, pushes, missed, byed, crossed>>
  BY DEF C_Hello, ghosts
<1>2. MatchTyped' /\ OneInstance'
  BY <1>1 DEF VInv, MatchTyped, OneInstance, Matches, Listed
<1>3. \A t \in Session, k \in Channel, one \in BOOLEAN :
         ~Displaces(<<"ticket", s>>, t, k, one) /\ <<"ticket", s>> # <<"join", t, k>>
  BY DEF Displaces, Ends
<1>4. <<"ticket", s>> \in Message
  BY IsMessage
<1> QED  BY <1>1, <1>2, <1>3, <1>4, PushKeeps

\* Who is told into a match is in no other, or has been in two.
LEMMA JoinPushKeeps ==
    ASSUME VInv, NEW s \in Session, NEW k \in Channel, PushChannelJoin(s, k)
    PROVE  VInv'
<1> DEFINE msg == <<"join", s, k>>
<1>1. /\ conns' = SentToAll(msg) /\ memberships' = memberships \cup {<<s, k>>}
      /\ MayJoin(s, k) /\ pushes < MaxPushes /\ pushes' = pushes + 1
      /\ crossed \subseteq crossed' /\ crossed' \subseteq Session
      /\ k[1] = "Instance" /\ Matches(s) # {} => s \in crossed'
      /\ UNCHANGED <<link, resyncs, routerVars, players, missed, byed>>
  BY DEF PushChannelJoin, VInv, MatchTyped
<1>2. MatchTyped'
  <2>1. IsFiniteSet(memberships')
    BY <1>1, FS_AddElement DEF VInv, MatchTyped
  <2>2. memberships' \subseteq Session \X Channel /\ pushes' \in 0..MaxPushes
    BY <1>1, VoiceAssumption DEF VInv, MatchTyped
  <2> QED  BY <1>1, <2>1, <2>2 DEF VInv, MatchTyped
<1>3. s \notin crossed' /\ k[1] = "Instance" => Matches(s) = {}
  BY <1>1
<1>4. \A t \in Session :
         Matches(t)' = IF t = s /\ k[1] = "Instance" THEN Matches(s) \cup {k} ELSE Matches(t)
  BY <1>1 DEF Matches, Listed
<1>5. OneInstance'
  BY <1>1, <1>3, <1>4 DEF VInv, OneInstance
<1>6. msg \in Message
  BY IsMessage
<1>7. ASSUME NEW t \in Session, NEW l \in Channel, NEW one \in BOOLEAN,
             <<t, l>> \in memberships, one => t \notin crossed'
      PROVE  ~Displaces(msg, t, l, one)
  <2>1. t = s /\ l[1] = "Instance" => l \in Matches(s)
    BY <1>7 DEF Matches, Listed
  <2> QED  BY <1>3, <1>7, <2>1 DEF Displaces, Ends
<1>8. \A t \in Session, l \in Channel :
         /\ <<t, l>> \in memberships' => msg = <<"join", t, l>> \/ <<t, l>> \in memberships
         /\ msg = <<"join", t, l>> => <<t, l>> \in memberships'
         /\ <<t, l>> \in memberships => <<t, l>> \in memberships'
  BY <1>1
<1> HIDE DEF msg
<1>9. \A t \in Session, l \in Channel, one \in BOOLEAN :
         <<t, l>> \in memberships' /\ (one => t \notin crossed') =>
            msg = <<"join", t, l>> \/ ~Displaces(msg, t, l, one)
  BY <1>7, <1>8
<1>10. missed \subseteq missed'
  BY <1>1
<1> QED  BY <1>1, <1>2, <1>5, <1>6, <1>8, <1>9, <1>10, PushKeeps

\* Whose membership ends is told so, or the satellite has missed it.
LEMMA EndPushKeeps ==
    ASSUME VInv, NEW s \in Session, NEW msg \in Message,
           conns' = SentToAll(msg), memberships' \subseteq memberships,
           players' \in [Session -> {"new", "here", "gone"}],
           missed' = MissedUnlessSent(s),
           \A t \in Session, k \in Channel :
              /\ Ends(msg, t, k) => t = s
              /\ <<t, k>> \in memberships => (Ends(msg, t, k) <=> <<t, k>> \notin memberships')
              /\ msg # <<"join", t, k>>,
           msg[1] # "join",
           UNCHANGED <<link, resyncs, routerVars, pushes, byed, crossed>>
    PROVE  VInv'
<1>1. missed \subseteq missed' /\ missed' \subseteq Session
  BY DEF MissedUnlessSent, VInv, MatchTyped
<1>2. MatchTyped'
  <2>1. IsFiniteSet(memberships')
    BY FS_Subset DEF VInv, MatchTyped
  <2> QED  BY <1>1, <2>1 DEF VInv, MatchTyped
<1>3. OneInstance'
  BY DEF VInv, OneInstance, Matches, Listed
<1>4. ASSUME NEW t \in Session, NEW k \in Channel,
             <<t, k>> \in memberships, <<t, k>> \notin memberships'
      PROVE  Ends(msg, t, k) /\ (t \in missed' \/ \E c \in Conn : Reaches(c))
  <2>1. Ends(msg, t, k) /\ t = s /\ k \in Listed(s)
    BY <1>4 DEF Listed
  <2> QED  BY <2>1 DEF MissedUnlessSent
<1>5. \A t \in Session, k \in Channel, one \in BOOLEAN :
         <<t, k>> \in memberships' => <<t, k>> \in memberships /\ ~Displaces(msg, t, k, one)
  BY DEF Displaces
<1> QED  BY <1>1, <1>2, <1>3, <1>4, <1>5, PushKeeps
\* A leave ends one membership.
LEMMA LeavePushKeeps ==
    ASSUME VInv, NEW s \in Session, NEW k \in Channel, PushChannelLeave(s, k)
    PROVE  VInv'
<1> DEFINE msg == <<"leave", s, k>>
<1>1. /\ conns' = SentToAll(msg) /\ memberships' = memberships \ {<<s, k>>}
      /\ missed' = MissedUnlessSent(s)
      /\ UNCHANGED <<link, resyncs, routerVars, players, pushes, byed, crossed>>
  BY DEF PushChannelLeave
<1>2. players' \in [Session -> {"new", "here", "gone"}]
  BY <1>1 DEF VInv, MatchTyped
<1>3. msg \in Message /\ msg[1] # "join"
  BY IsMessage
<1>4. \A t \in Session, l \in Channel :
         /\ Ends(msg, t, l) <=> t = s /\ l = k
         /\ msg # <<"join", t, l>>
  BY DEF Ends
<1> HIDE DEF msg
<1> QED  BY <1>1, <1>2, <1>3, <1>4, EndPushKeeps
\* A session that is closed ends all of its memberships.
LEMMA ClosedPushKeeps ==
    ASSUME VInv, NEW s \in Session, PushSessionClosed(s)
    PROVE  VInv'
<1> DEFINE msg == <<"closed", s>>
<1>1. /\ conns' = SentToAll(msg) /\ memberships' = memberships \ ({s} \X Channel)
      /\ missed' = MissedUnlessSent(s) /\ players' = [players EXCEPT ![s] = "gone"]
      /\ UNCHANGED <<link, resyncs, routerVars, pushes, byed, crossed>>
  BY DEF PushSessionClosed
<1>2. players' \in [Session -> {"new", "here", "gone"}]
  BY <1>1 DEF VInv, MatchTyped
<1>3. msg \in Message /\ msg[1] # "join"
  BY IsMessage
<1>4. \A t \in Session, l \in Channel :
         /\ Ends(msg, t, l) <=> t = s
         /\ msg # <<"join", t, l>>
  BY DEF Ends
<1> HIDE DEF msg
<1> QED  BY <1>1, <1>2, <1>3, <1>4, EndPushKeeps
-----------------------------------------------------------------------------

(***************************************************************************)
(* The steps of the link                                                   *)
(***************************************************************************)

\* A step that delivers nothing, replays nothing, and counts as missed what it
\* loses keeps the invariant.
LEMMA LinkStepKeeps ==
    ASSUME VInv, LinkTyped', OneEnd', UNCHANGED <<routerVars, matchVars, byed, crossed>>,
           missed \subseteq missed', missed' \subseteq Session,
           \A c \in Conn :
              /\ \/ conns'[c].toSelf = conns[c].toSelf
                 \/ /\ conns'[c].toSelf = <<>>
                    /\ \A s \in Session, k \in Channel : EndIn(conns[c].toSelf, s, k) => s \in missed'
              /\ Reaches(c)' /\ c \notin resyncs' =>
                    Reaches(c) /\ c \notin resyncs /\ conns'[c].toSelf = conns[c].toSelf
    PROVE  VInv'
<1> USE DEF matchVars
<1>1. /\ RouterTyped' /\ HeardAtItsAddress' /\ ActiveIsMember'
      /\ \A s, k, one : InPlace(s, k, one)' <=> InPlace(s, k, one)
      /\ \A k : MembersOf(k)' = MembersOf(k)
  BY RouterStands DEF VInv
<1>2. MatchTyped' /\ OneInstance'
  BY DEF VInv, MatchTyped, OneInstance, Matches, Listed
<1>3. EndIsComing'
  <2>1. SUFFICES ASSUME NEW s \in Session, NEW k \in Channel,
                        <<s, k>> \notin memberships, s \notin missed'
                 PROVE  /\ s \in MembersOf(k) => \E c \in Conn : EndIn(conns'[c].toSelf, s, k)
                        /\ \A c \in Conn : EndFollows(conns'[c].toSelf, s, k)
    BY <1>1 DEF EndIsComing
  <2>2. /\ s \in MembersOf(k) => \E c \in Conn : EndIn(conns[c].toSelf, s, k)
        /\ \A c \in Conn : EndFollows(conns[c].toSelf, s, k)
    BY <2>1 DEF VInv, EndIsComing
  <2>3. \A c \in Conn : EndIn(conns[c].toSelf, s, k) => EndIn(conns'[c].toSelf, s, k)
    BY <2>1
  <2>4. \A c \in Conn : EndFollows(conns'[c].toSelf, s, k)
    BY <2>2 DEF EndFollows
  <2> QED  BY <2>2, <2>3, <2>4
<1>4. UpToDate'
  <2>1. SUFFICES ASSUME NEW c \in Conn, Reaches(c)', c \notin resyncs',
                        NEW s \in Session \ byed, NEW k \in Channel, NEW one \in BOOLEAN,
                        <<s, k>> \in memberships, one => s \notin crossed
                 PROVE  JoinIsLast(conns'[c].toSelf, s, k, InPlace(s, k, one)', one)
    BY DEF UpToDate
  <2>2. /\ JoinIsLast(conns[c].toSelf, s, k, InPlace(s, k, one), one)
        /\ conns'[c].toSelf = conns[c].toSelf
    BY <2>1 DEF VInv, UpToDate
  <2>3. InPlace(s, k, one)' <=> InPlace(s, k, one)
    BY <1>1
  <2> QED  BY <2>2, <2>3 DEF JoinIsLast
<1> QED  BY <1>1, <1>2, <1>3, <1>4 DEF VInv

\* A dial comes of a reconnection that was due, so nothing else is connected.
LEMMA TryConnectKeeps ==
    ASSUME VInv, LinkOnly(TryConnect)
    PROVE  VInv'
<1>1. /\ link.reconnects > 0 /\ Fresh # {}
      /\ link' = [link EXCEPT !.reconnects = @ - 1]
      /\ conns' = [conns EXCEPT ![NextConn].self = "dialling"]
      /\ UNCHANGED <<resyncs, routerVars, matchVars, missed, byed, crossed>>
  BY DEF LinkOnly, TryConnect, ghosts
<1>2. NextConn \in Conn /\ conns[NextConn].self = "unused"
  BY <1>1, NextConnIsFresh DEF Fresh
<1>3. link' \in LinkRecord /\ link'.reconnects = 0
  BY <1>1 DEF VInv, LinkTyped, LinkRecord
<1>4. LinkTyped'
  BY <1>1, <1>2, <1>3 DEF VInv, LinkTyped, Connection
<1>5. \A c \in Conn : /\ conns'[c].self = IF c = NextConn THEN "dialling" ELSE conns[c].self
                      /\ conns'[c].peer = conns[c].peer
                      /\ conns'[c].toSelf = conns[c].toSelf
  BY <1>1, <1>2 DEF VInv, LinkTyped, Connection
<1>6. Connected = {}
  BY <1>1 DEF VInv, OneEnd, LinkTyped, LinkRecord
<1>7. Connected' = {NextConn}
  BY <1>2, <1>5, <1>6 DEF Connected
<1>8. \A c \in Conn : conns'[c].self # "up" => conns'[c].toSelf = <<>>
  BY <1>2, <1>5 DEF VInv, OneEnd
<1>9. OneEnd'
  BY <1>3, <1>7, <1>8 DEF OneEnd
<1>10. \A c \in Conn : Reaches(c)' => Reaches(c)
  BY <1>5 DEF Reaches, Registered
<1>11. missed \subseteq missed' /\ missed' \subseteq Session
  BY <1>1 DEF VInv, MatchTyped
<1> QED  BY <1>1, <1>4, <1>5, <1>9, <1>10, <1>11, LinkStepKeeps

\* A link that was lost has one reconnection due.
LEMMA DisconnectedIsLink ==
    ASSUME NEW c \in Conn, NEW l \in LinkRecord, l.reconnects = 0
    PROVE  HandleDisconnected(c, l) \in LinkRecord
<1> DEFINE m == [l EXCEPT !.session = NoConn, !.connected = FALSE]
<1>1. m \in LinkRecord /\ m.reconnects = 0
  BY DEF LinkRecord
<1>2. ASSUME NEW n \in LinkRecord, n.reconnects = 0
      PROVE  [n EXCEPT !.reconnects = @ + 1] \in LinkRecord
  BY <1>2 DEF LinkRecord
<1> HIDE DEF m
<1>3. [m EXCEPT !.reconnects = @ + 1] \in LinkRecord
  BY <1>1, <1>2
<1> QED  BY <1>3 DEF HandleDisconnected, ScheduleReconnect, m

\* What the two ends of a dial become.
LEMMA DialKeeps ==
    ASSUME VInv, NEW c \in Conn, LinkOnly(DialSucceeds(c)) \/ LinkOnly(DialFails(c))
    PROVE  VInv'
<1>1. /\ conns[c].self = "dialling" /\ conns[c] \in Connection /\ link \in LinkRecord
      /\ UNCHANGED <<resyncs, routerVars, matchVars, missed, byed, crossed>>
  BY DEF LinkOnly, DialSucceeds, DialFails, ghosts, VInv, LinkTyped
<1>2. c \in Connected /\ link.reconnects = 0
  BY <1>1 DEF Connected, VInv, OneEnd
<1>3. /\ LinkTyped'
      /\ \A d \in Conn : /\ conns'[d].toSelf = conns[d].toSelf
                         /\ d # c => conns'[d] = conns[d]
      /\ conns'[c].peer # "registered" \/ conns'[c].self = "down"
      /\ \/ conns'[c].self = "up" /\ link'.reconnects = 0
         \/ conns'[c].self = "down"
  <2>1. CASE DialSucceeds(c)
    <3>1. /\ conns' = [conns EXCEPT ![c].self = "up", ![c].peer = "up", ![c].toMatch = <<"hello">>]
          /\ link' = [link EXCEPT !.session = c, !.connected = TRUE]
      BY <2>1 DEF DialSucceeds, HandleConnected
    <3>2. link' \in LinkRecord /\ link'.reconnects = 0
      BY <1>1, <1>2, <3>1 DEF LinkRecord
    <3> QED  BY <1>1, <3>1, <3>2 DEF VInv, LinkTyped, Connection
  <2>2. CASE DialFails(c)
    <3>1. /\ conns' = [conns EXCEPT ![c].self = "down"]
          /\ link' = HandleDisconnected(c, HandleConnected(c, link))
      BY <2>2 DEF DialFails
    <3>2. link' \in LinkRecord
      <4>1. HandleConnected(c, link) \in LinkRecord /\ HandleConnected(c, link).reconnects = 0
        BY <1>1, <1>2 DEF LinkRecord, HandleConnected
      <4> QED  BY <3>1, <4>1, DisconnectedIsLink
    <3> QED  BY <1>1, <3>1, <3>2 DEF VInv, LinkTyped, Connection
  <2> QED  BY <2>1, <2>2 DEF LinkOnly
<1>4. \A d \in Conn : d # c => d \notin Connected /\ d \notin Connected'
  BY <1>2, <1>3 DEF VInv, OneEnd, Connected
<1>5. Connected' # {} => link'.reconnects = 0
  BY <1>3, <1>4 DEF Connected
<1>6. \A d \in Conn : conns'[d].self # "up" => conns'[d].toSelf = <<>>
  BY <1>1, <1>3 DEF VInv, OneEnd
<1>7. OneEnd'
  <2>1. \A d, e \in Connected' : d = e
    BY <1>4 DEF Connected
  <2> QED  BY <1>5, <1>6, <2>1 DEF OneEnd
<1>8. \A d \in Conn : Reaches(d)' => Reaches(d)
  BY <1>3 DEF Reaches, Registered
<1>9. missed \subseteq missed' /\ missed' \subseteq Session
  BY <1>1 DEF VInv, MatchTyped
<1> QED  BY <1>1, <1>3, <1>7, <1>8, <1>9, LinkStepKeeps

\* The peer that registers is to be resynced; a peer that is dropped is not told.
LEMMA PeerKeeps ==
    ASSUME VInv, NEW c \in Conn, LinkOnly(P_ServerHello(c)) \/ LinkOnly(PeerLost(c))
    PROVE  VInv'
<1>1. /\ conns[c] \in Connection /\ c \in Conn
      /\ UNCHANGED <<link, routerVars, matchVars, missed, byed, crossed>>
  BY DEF LinkOnly, P_ServerHello, PeerLost, ghosts, VInv, LinkTyped
<1>2. /\ LinkTyped'
      /\ \A d \in Conn : /\ conns'[d].self = conns[d].self
                         /\ conns'[d].toSelf = conns[d].toSelf
                         /\ Reaches(d)' /\ d \notin resyncs' => Reaches(d) /\ d \notin resyncs
  <2>1. CASE P_ServerHello(c)
    <3>1. /\ conns' = [conns EXCEPT ![c].peer = "registered", ![c].toMatch = Tail(@)]
          /\ conns[c].toMatch # <<>> /\ resyncs' = resyncs \cup {c}
      BY <2>1 DEF P_ServerHello, ResyncOf
    <3>2. conns[c].toMatch = <<"hello">> /\ Tail(conns[c].toMatch) = <<>>
      <4>1. conns[c].toMatch \in {<<>>, <<"hello">>}
        BY <1>1 DEF Connection
      <4>2. Tail(<<"hello">>) = <<>>
        OBVIOUS
      <4> QED  BY <3>1, <4>1, <4>2
    <3>3. LinkTyped'
      BY <1>1, <3>1, <3>2 DEF VInv, LinkTyped, Connection
    <3>4. \A d \in Conn : /\ conns'[d].self = conns[d].self
                          /\ conns'[d].toSelf = conns[d].toSelf
                          /\ d # c => conns'[d] = conns[d]
      BY <1>1, <3>1 DEF VInv, LinkTyped, Connection
    <3> QED  BY <3>1, <3>3, <3>4 DEF Reaches, Registered
  <2>2. CASE PeerLost(c)
    <3>1. /\ conns' = [conns EXCEPT ![c].peer = "down", ![c].toMatch = <<>>]
          /\ resyncs' = resyncs
      BY <2>2 DEF PeerLost
    <3> QED  BY <1>1, <3>1 DEF VInv, LinkTyped, Connection, Reaches, Registered
  <2> QED  BY <2>1, <2>2 DEF LinkOnly
<1>3. Connected' = Connected
  BY <1>2 DEF Connected
<1>4. OneEnd'
  BY <1>1, <1>2, <1>3 DEF VInv, OneEnd
<1>5. missed \subseteq missed' /\ missed' \subseteq Session
  BY <1>1 DEF VInv, MatchTyped
<1> QED  BY <1>1, <1>2, <1>4, <1>5, LinkStepKeeps

\* The ends of memberships that go down with a connection are missed.
LEMMA LinkLostKeeps ==
    ASSUME VInv, NEW c \in Conn, LinkLost(c)
    PROVE  VInv'
<1>1. /\ conns[c].self = "up" /\ conns[c] \in Connection /\ link \in LinkRecord
      /\ conns' = [conns EXCEPT ![c].self = "down", ![c].toSelf = <<>>]
      /\ link' = HandleDisconnected(c, link)
      /\ missed' = missed \cup Undelivered(c)
      /\ UNCHANGED <<resyncs, routerVars, matchVars, byed, crossed>>
  BY DEF LinkLost, SelfLoses, VInv, LinkTyped
<1>2. c \in Connected /\ link.reconnects = 0
  BY <1>1 DEF Connected, VInv, OneEnd
<1>3. link' \in LinkRecord
  BY <1>1, <1>2, DisconnectedIsLink
<1>4. LinkTyped'
  <2>1. <<>> \in Seq(Message) /\ conns \in [Conn -> Connection] /\ resyncs \subseteq Conn
    BY DEF VInv, LinkTyped
  <2>2. [conns[c] EXCEPT !.self = "down", !.toSelf = <<>>] \in Connection
    BY <1>1, <2>1 DEF Connection
  <2>3. conns' = [conns EXCEPT ![c] = [conns[c] EXCEPT !.self = "down", !.toSelf = <<>>]]
    BY <1>1, <2>1
  <2> QED  BY <1>1, <1>3, <2>1, <2>2, <2>3 DEF LinkTyped
<1>5. \A d \in Conn : /\ d # c => conns'[d] = conns[d]
                      /\ conns'[c].self = "down" /\ conns'[c].toSelf = <<>>
  BY <1>1 DEF VInv, LinkTyped, Connection
<1>6. Connected' = {}
  BY <1>2, <1>5 DEF Connected, VInv, OneEnd
<1>7. OneEnd'
  BY <1>5, <1>6 DEF VInv, OneEnd
<1>8. \A d \in Conn : Reaches(d)' => Reaches(d) /\ d # c
  BY <1>5 DEF Reaches, Registered
<1>9. Undelivered(c) \subseteq Session
  <2>1. SUFFICES ASSUME NEW m \in Range(conns[c].toSelf) PROVE m[2] \in Session
    BY DEF Undelivered
  <2>2. conns[c].toSelf \in Seq(Message)
    BY <1>1 DEF Connection
  <2>3. m \in Message
    BY <2>1, <2>2 DEF Range
  <2> QED  BY <2>3, MessageIsOneOf
<1>10. ASSUME NEW s \in Session, NEW k \in Channel, EndIn(conns[c].toSelf, s, k)
       PROVE  s \in missed'
  <2>1. PICK i \in DOMAIN conns[c].toSelf : Ends(conns[c].toSelf[i], s, k)
    BY <1>10 DEF EndIn
  <2> DEFINE m == conns[c].toSelf[i]
  <2>2. m \in Range(conns[c].toSelf)
    BY <2>1 DEF Range
  <2>3. m[1] \in {"leave", "closed"} /\ m[2] = s
    BY <2>1 DEF Ends
  <2> HIDE DEF m
  <2> QED  BY <1>1, <2>2, <2>3 DEF Undelivered
<1>11. missed \subseteq missed' /\ missed' \subseteq Session
  BY <1>1, <1>9 DEF VInv, MatchTyped
<1> QED  BY <1>1, <1>4, <1>5, <1>7, <1>8, <1>10, <1>11, LinkStepKeeps
-----------------------------------------------------------------------------

(***************************************************************************)
(* A new process, and the replay to a satellite that registers             *)
(***************************************************************************)

\* A new process is in no channel and has nothing on its way.
LEMMA RestartKeeps ==
    ASSUME VInv, Restart
    PROVE  VInv'
<1>1. /\ Fresh # {} /\ link' = Idle
      /\ UNCHANGED <<resyncs, memberships, players, pushes, crossed>>
      /\ tickets' = {} /\ redeemed' = {}
      /\ peers' = <<>> /\ endpointToSession' = <<>> /\ channels' = <<>>
      /\ missed' = {} /\ byed' = {}
  BY DEF Restart, LinkRestarts, matchVars
<1>2. NextConn \in Conn /\ conns[NextConn].self = "unused"
  BY <1>1, NextConnIsFresh DEF Fresh
<1>3. conns' = [c \in Conn |->
                   CASE conns[c].self = "up" -> [conns[c] EXCEPT !.self = "down", !.toSelf = <<>>]
                     [] conns[c].self = "dialling" -> [conns[c] EXCEPT !.self = "down"]
                     [] c = NextConn -> [conns[c] EXCEPT !.self = "dialling"]
                     [] OTHER -> conns[c]]
  BY DEF Restart, LinkRestarts
<1>4. ASSUME NEW c \in Conn
      PROVE  /\ conns'[c] \in Connection /\ conns'[c].toSelf = <<>>
             /\ conns'[c].self = IF c = NextConn THEN "dialling"
                                 ELSE IF conns[c].self = "unused" THEN "unused" ELSE "down"
  <2>1. conns[c] \in Connection /\ (conns[c].self # "up" => conns[c].toSelf = <<>>)
    BY DEF VInv, LinkTyped, OneEnd
  <2>2. CASE conns[c].self = "up"
    <3>1. conns'[c] = [conns[c] EXCEPT !.self = "down", !.toSelf = <<>>] /\ c # NextConn
      BY <1>2, <1>3, <2>2
    <3>2. <<>> \in Seq(Message)
      OBVIOUS
    <3> QED  BY <2>1, <2>2, <3>1, <3>2 DEF Connection
  <2>3. CASE conns[c].self = "dialling"
    <3>1. conns'[c] = [conns[c] EXCEPT !.self = "down"] /\ c # NextConn
      BY <1>2, <1>3, <2>3
    <3> QED  BY <2>1, <2>3, <3>1 DEF Connection
  <2>4. CASE c = NextConn
    <3>1. conns'[c] = [conns[c] EXCEPT !.self = "dialling"]
      BY <1>2, <1>3, <2>4
    <3> QED  BY <1>2, <2>1, <2>4, <3>1 DEF Connection
  <2>5. CASE c # NextConn /\ conns[c].self \notin {"up", "dialling"}
    <3>1. conns'[c] = conns[c]
      BY <1>3, <2>5
    <3> QED  BY <2>1, <2>5, <3>1 DEF Connection
  <2> QED  BY <2>2, <2>3, <2>4, <2>5
<1>5. LinkTyped'
  <2>1. link' \in LinkRecord
    BY <1>1 DEF Idle, LinkRecord
  <2>2. conns' \in [Conn -> Connection]
    <3> DEFINE f(c) == CASE conns[c].self = "up" -> [conns[c] EXCEPT !.self = "down", !.toSelf = <<>>]
                         [] conns[c].self = "dialling" -> [conns[c] EXCEPT !.self = "down"]
                         [] c = NextConn -> [conns[c] EXCEPT !.self = "dialling"]
                         [] OTHER -> conns[c]
    <3>1. conns' = [c \in Conn |-> f(c)]
      BY <1>3
    <3> HIDE DEF f
    <3>2. \A c \in Conn : conns'[c] = f(c)
      BY <3>1
    <3> QED  BY <1>4, <3>1, <3>2
  <2> QED  BY <1>1, <2>1, <2>2 DEF VInv, LinkTyped
<1>6. OneEnd'
  <2>1. Connected' = {NextConn}
    BY <1>2, <1>4 DEF Connected
  <2>2. link'.reconnects = 0
    BY <1>1 DEF Idle
  <2> QED  BY <1>4, <2>1, <2>2 DEF OneEnd
<1>7. DOMAIN peers' = {} /\ DOMAIN endpointToSession' = {} /\ DOMAIN channels' = {}
  BY <1>1
<1>8. RouterTyped' /\ HeardAtItsAddress' /\ ActiveIsMember'
  BY <1>1, <1>7 DEF RouterTyped, HeardAtItsAddress, ActiveIsMember
<1>9. MatchTyped' /\ OneInstance'
  BY <1>1 DEF VInv, MatchTyped, OneInstance, Matches, Listed
<1>10. \A c \in Conn : ~Reaches(c)'
  BY <1>4 DEF Reaches
<1>11. EndIsComing'
  <2>1. \A k : MembersOf(k)' = {}
    BY <1>7 DEF MembersOf
  <2>2. \A c \in Conn : DOMAIN conns'[c].toSelf = {}
    BY <1>4
  <2> QED  BY <2>1, <2>2 DEF EndIsComing, EndFollows
<1> QED  BY <1>5, <1>6, <1>8, <1>9, <1>10, <1>11 DEF VInv, UpToDate

\* A walk meets every membership.
LEMMA WalkMeetsAll ==
    ASSUME MatchTyped, NEW ms \in Walk
    PROVE  /\ ms \in Seq(memberships)
           /\ \A m \in memberships : \E i \in DOMAIN ms : ms[i] = m
<1> DEFINE n == Cardinality(memberships)
<1>1. IsFiniteSet(memberships) /\ n \in Nat
  BY FS_CardinalityType DEF MatchTyped
<1>2. ms \in [1..n -> memberships] /\ \A i, j \in 1..n : i # j => ms[i] # ms[j]
  BY DEF Walk, SetToSeqs
<1>3. Cardinality(1..n) = n
  BY <1>1, FS_Interval
<1> HIDE DEF n
<1>4. ms \in Injection(1..n, memberships)
  BY <1>2 DEF Injection, IsInjective
<1>5. ms \in Surjection(1..n, memberships)
  BY <1>1, <1>3, <1>4, FS_Injection DEF n
<1>6. \A m \in memberships : \E i \in 1..n : ms[i] = m
  BY <1>5 DEF Surjection
<1> QED  BY <1>1, <1>2, <1>6

\* The replay joins who is listed, and nobody else.
LEMMA ReplayIsJoins ==
    ASSUME MatchTyped, NEW ms \in Walk
    PROVE  /\ Replay(ms) \in Seq(Message)
           /\ \A i \in DOMAIN Replay(ms) : \E s \in Session, k \in Channel :
                 <<s, k>> \in memberships /\ Replay(ms)[i] = <<"join", s, k>>
           /\ \A s \in Session, k \in Channel : <<s, k>> \in memberships =>
                 \E i \in DOMAIN Replay(ms) : Replay(ms)[i] = <<"join", s, k>>
<1> DEFINE r == Replay(ms)
<1>1. ms \in Seq(memberships) /\ \A m \in memberships : \E i \in DOMAIN ms : ms[i] = m
  BY WalkMeetsAll
<1>2. DOMAIN r = DOMAIN ms /\ \A i \in DOMAIN ms : r[i] = <<"join", ms[i][1], ms[i][2]>>
  BY DEF Replay
<1>3. ASSUME NEW m \in memberships
      PROVE  m[1] \in Session /\ m[2] \in Channel /\ m = <<m[1], m[2]>>
  BY <1>3 DEF MatchTyped
<1>4. \A i \in DOMAIN ms : ms[i] \in memberships
  BY <1>1
<1>5. \A i \in DOMAIN ms : \E s \in Session, k \in Channel :
         <<s, k>> \in memberships /\ r[i] = <<"join", s, k>>
  BY <1>2, <1>3, <1>4
<1>6. r \in Seq(Message)
  <2>1. Len(ms) \in Nat /\ DOMAIN ms = 1..Len(ms)
    BY <1>1
  <2>2. \A i \in 1..Len(ms) : r[i] \in Message
    BY <1>5, <2>1, IsMessage
  <2>3. r = [i \in 1..Len(ms) |-> r[i]]
    BY <1>2, <2>1 DEF Replay
  <2> HIDE DEF r
  <2> QED  BY <2>1, <2>2, <2>3
<1>7. \A s \in Session, k \in Channel : <<s, k>> \in memberships =>
         \E i \in DOMAIN r : r[i] = <<"join", s, k>>
  <2>1. SUFFICES ASSUME NEW s \in Session, NEW k \in Channel, <<s, k>> \in memberships
                 PROVE  \E i \in DOMAIN r : r[i] = <<"join", s, k>>
    OBVIOUS
  <2>2. PICK i \in DOMAIN ms : ms[i] = <<s, k>>
    BY <1>1, <2>1
  <2> QED  BY <1>2, <2>2
<1>8. \A i \in DOMAIN r : \E s \in Session, k \in Channel :
         <<s, k>> \in memberships /\ r[i] = <<"join", s, k>>
  BY <1>2, <1>5
<1> HIDE DEF r
<1> QED  BY <1>6, <1>7, <1>8 DEF r

\* After the replay a satellite is told all it has to know.
LEMMA ResyncKeeps ==
    ASSUME VInv, NEW c \in Conn, ResyncPeer(c)
    PROVE  VInv'
<1>1. PICK ms \in Walk : Resync(c, Replay(ms))
  BY DEF ResyncPeer
<1> DEFINE r == Replay(ms)
<1>2. /\ c \in resyncs /\ resyncs' = resyncs \ {c}
      /\ conns' = IF Reaches(c) THEN [conns EXCEPT ![c].toSelf = @ \o r] ELSE conns
      /\ UNCHANGED <<link, routerVars, matchVars, missed, byed, crossed>>
  BY <1>1 DEF Resync, ResyncPeer, ghosts
<1>3. /\ r \in Seq(Message)
      /\ \A i \in DOMAIN r : \E s \in Session, k \in Channel :
            <<s, k>> \in memberships /\ r[i] = <<"join", s, k>>
      /\ \A s \in Session, k \in Channel : <<s, k>> \in memberships =>
            \E i \in DOMAIN r : r[i] = <<"join", s, k>>
  BY ReplayIsJoins DEF VInv
<1> HIDE DEF r
<1>4. CASE ~Reaches(c)
  <2>1. conns' = conns
    BY <1>2, <1>4
  <2>2. LinkTyped' /\ OneEnd'
    BY <1>2, <2>1 DEF VInv, LinkTyped, OneEnd, Connected
  <2>3. \A d \in Conn : Reaches(d)' /\ d \notin resyncs' => Reaches(d) /\ d \notin resyncs
    BY <1>2, <1>4, <2>1 DEF Reaches, Registered
  <2>4. missed \subseteq missed' /\ missed' \subseteq Session
    BY <1>2 DEF VInv, MatchTyped
  <2> QED  BY <1>2, <2>1, <2>2, <2>3, <2>4, LinkStepKeeps
<1>5. CASE Reaches(c)
  <2> DEFINE q == conns[c].toSelf
  <2>1. conns' = [conns EXCEPT ![c].toSelf = q \o r] /\ conns[c] \in Connection
        /\ q \in Seq(Message) /\ conns[c].self = "up"
    BY <1>2, <1>5 DEF VInv, LinkTyped, Connection, Reaches
  <2>2. q \o r \in Seq(Message)
    BY <1>3, <2>1
  <2> HIDE DEF q
  <2>3. /\ conns'[c].toSelf = q \o r
        /\ \A d \in Conn : /\ conns'[d].self = conns[d].self /\ conns'[d].peer = conns[d].peer
                           /\ d # c => conns'[d] = conns[d]
    BY <2>1 DEF VInv, LinkTyped, Connection
  <2>4. LinkTyped'
    <3>1. [conns[c] EXCEPT !.toSelf = q \o r] \in Connection
      BY <2>1, <2>2 DEF Connection
    <3>2. conns' = [conns EXCEPT ![c] = [conns[c] EXCEPT !.toSelf = q \o r]]
      BY <2>1 DEF VInv, LinkTyped
    <3> QED  BY <1>2, <3>1, <3>2 DEF VInv, LinkTyped
  <2>5. OneEnd'
    <3>1. Connected' = Connected
      BY <2>3 DEF Connected
    <3>2. \A d \in Conn : conns'[d].self # "up" => conns'[d].toSelf = <<>>
      BY <2>1, <2>3 DEF VInv, OneEnd
    <3> QED  BY <1>2, <3>1, <3>2 DEF VInv, OneEnd
  <2>6. /\ RouterTyped' /\ HeardAtItsAddress' /\ ActiveIsMember'
        /\ \A s, k, one : InPlace(s, k, one)' <=> InPlace(s, k, one)
        /\ \A k : MembersOf(k)' = MembersOf(k)
    BY <1>2, RouterStands DEF VInv
  <2>7. MatchTyped' /\ OneInstance'
    BY <1>2 DEF VInv, MatchTyped, OneInstance, Matches, Listed, matchVars
  <2>8. memberships' = memberships /\ UNCHANGED <<missed, byed, crossed>>
    BY <1>2 DEF matchVars
  <2>9. EndIsComing'
    <3>1. SUFFICES ASSUME NEW s \in Session, NEW k \in Channel,
                          <<s, k>> \notin memberships, s \notin missed
                   PROVE  /\ s \in MembersOf(k) => \E d \in Conn : EndIn(conns'[d].toSelf, s, k)
                          /\ \A d \in Conn : EndFollows(conns'[d].toSelf, s, k)
      BY <2>6, <2>8 DEF EndIsComing
    <3>2. /\ s \in MembersOf(k) => \E d \in Conn : EndIn(conns[d].toSelf, s, k)
          /\ \A d \in Conn : EndFollows(conns[d].toSelf, s, k)
      BY <3>1 DEF VInv, EndIsComing
    <3>3. ASSUME NEW i \in DOMAIN r PROVE r[i] # <<"join", s, k>>
      <4>1. PICK t \in Session, l \in Channel :
                  <<t, l>> \in memberships /\ r[i] = <<"join", t, l>>
        BY <1>3, <3>3
      <4> QED  BY <3>1, <4>1
    <3>4. /\ EndIn(q, s, k) => EndIn(q \o r, s, k)
          /\ EndFollows(q, s, k) => EndFollows(q \o r, s, k)
      BY <1>3, <2>1, <3>3, ConcatEnds
    <3>5. \A d \in Conn : /\ EndIn(conns[d].toSelf, s, k) => EndIn(conns'[d].toSelf, s, k)
                          /\ EndFollows(conns[d].toSelf, s, k) => EndFollows(conns'[d].toSelf, s, k)
      BY <2>3, <3>4 DEF q
    <3> QED  BY <3>2, <3>5
  <2>10. UpToDate'
    <3>1. SUFFICES ASSUME NEW d \in Conn, Reaches(d)', d \notin resyncs',
                          NEW s \in Session \ byed, NEW k \in Channel, NEW one \in BOOLEAN,
                          <<s, k>> \in memberships, one => s \notin crossed
                   PROVE  JoinIsLast(conns'[d].toSelf, s, k, InPlace(s, k, one)', one)
      BY <2>8 DEF UpToDate
    <3>2. d = c
      BY <1>5, <2>3, <3>1 DEF VInv, OneEnd, Connected, Reaches
    <3>3. PICK i \in DOMAIN r : r[i] = <<"join", s, k>>
      BY <1>3, <3>1
    <3>4. ASSUME NEW j \in DOMAIN r PROVE ~Displaces(r[j], s, k, one)
      <4>1. PICK t \in Session, l \in Channel :
                  <<t, l>> \in memberships /\ r[j] = <<"join", t, l>>
        BY <1>3, <3>4
      <4>2. t = s /\ k[1] = "Instance" /\ l[1] = "Instance" =>
               k \in Matches(s) /\ l \in Matches(s)
        BY <3>1, <4>1 DEF Matches, Listed
      <4>3. one /\ t = s /\ k[1] = "Instance" /\ l[1] = "Instance" => k = l
        BY <3>1, <4>2 DEF VInv, OneInstance
      <4> QED  BY <4>1, <4>3 DEF Displaces, Ends
    <3>5. JoinIsLast(q \o r, s, k, InPlace(s, k, one)', one)
      BY <1>3, <2>1, <3>3, <3>4, ConcatJoins
    <3> QED  BY <2>3, <3>2, <3>5
  <2> QED  BY <2>4, <2>5, <2>6, <2>7, <2>9, <2>10 DEF VInv
<1> QED  BY <1>4, <1>5
-----------------------------------------------------------------------------

(***************************************************************************)
(* The handlers of the voice server                                        *)
(***************************************************************************)

RouterOK == RouterTyped /\ HeardAtItsAddress /\ ActiveIsMember

\* What a packet may do to who is in which channel.
Obeys(msg) ==
    \A s \in Session, k \in Channel :
        /\ s \in MembersOf(k)' => s \in MembersOf(k) \/ msg = <<"join", s, k>>
        /\ Ends(msg, s, k) => s \notin MembersOf(k)'
        /\ \A one \in BOOLEAN :
               /\ msg = <<"join", s, k>> => InPlace(s, k, one)'
               /\ InPlace(s, k, one) /\ ~Displaces(msg, s, k, one) => InPlace(s, k, one)'
\* A ticket changes no peer and no channel.
LEMMA TicketHandled ==
    ASSUME RouterOK, NEW s \in Session, Handle(<<"ticket", s>>)
    PROVE  RouterOK' /\ Obeys(<<"ticket", s>>)
<1>1. tickets' = tickets \cup {s} /\ UNCHANGED <<redeemed, peers, endpointToSession, channels>>
  BY DEF Handle, Add
<1>2. \A k : MembersOf(k)' = MembersOf(k)
  BY <1>1 DEF MembersOf
<1>3. \A t, k, one : InPlace(t, k, one)' <=> InPlace(t, k, one)
  BY <1>1, <1>2 DEF InPlace
<1>4. RouterTyped' /\ HeardAtItsAddress'
  BY <1>1 DEF RouterOK, RouterTyped, HeardAtItsAddress
<1>5. ActiveIsMember'
  BY <1>1, <1>2 DEF RouterOK, ActiveIsMember
<1> QED  BY <1>2, <1>3, <1>4, <1>5 DEF RouterOK, Obeys, Ends
\* A join puts who it names in the channel and takes nobody out of another.
LEMMA JoinHandled ==
    ASSUME RouterOK, NEW s \in Session, NEW k \in Channel, Handle(<<"join", s, k>>)
    PROVE  RouterOK' /\ Obeys(<<"join", s, k>>)
<1> DEFINE p == [PeerOf(s) EXCEPT ![k[1]] = k[2]]
<1>1. /\ peers' = Put(peers, s, p) /\ channels' = Put(channels, k, MembersOf(k) \cup {s})
      /\ UNCHANGED <<tickets, redeemed, endpointToSession>>
  BY DEF Handle, ApplyChannelJoin
<1>2. /\ PeerOf(s) \in Peer /\ p \in Peer
      /\ p.endpoint = PeerOf(s).endpoint /\ p.heard = PeerOf(s).heard
      /\ p[k[1]] = k[2]
      /\ k[1] = "Room" => p.Instance = PeerOf(s).Instance
      /\ k[1] = "Instance" => p.Room = PeerOf(s).Room
  BY PeerOfIsPeer, PeerJoins DEF RouterOK
<1> HIDE DEF p
<1>3. /\ DOMAIN peers' = DOMAIN peers \cup {s} /\ peers'[s] = p
      /\ \A t \in DOMAIN peers : t # s => peers'[t] = peers[t]
      /\ s \in DOMAIN peers => PeerOf(s) = peers[s]
      /\ s \notin DOMAIN peers => PeerOf(s) = NewPeer
  BY <1>1 DEF Put, PeerOf
<1>4. \A l : MembersOf(l)' = IF l = k THEN MembersOf(k) \cup {s} ELSE MembersOf(l)
  BY <1>1 DEF MembersOf, Put
<1>5. RouterTyped'
  <2>1. \A l \in DOMAIN channels' : channels'[l] = MembersOf(l)'
    BY DEF MembersOf
  <2>2. \A l \in Channel : MembersOf(l) \subseteq Session
    BY DEF MembersOf, RouterOK, RouterTyped
  <2>3. DOMAIN channels' \subseteq Channel
    BY <1>1 DEF Put, RouterOK, RouterTyped
  <2>4. \A l \in DOMAIN channels' : channels'[l] \subseteq Session
    BY <1>4, <2>1, <2>2, <2>3
  <2> QED  BY <1>1, <1>2, <1>3, <2>3, <2>4 DEF RouterOK, RouterTyped
<1>6. HeardAtItsAddress'
  BY <1>1, <1>2, <1>3 DEF RouterOK, HeardAtItsAddress
<1>7. ActiveIsMember'
  <2>1. SUFFICES ASSUME NEW t \in DOMAIN peers', NEW l \in Channel, peers'[t][l[1]] = l[2]
                 PROVE  t \in MembersOf(l)'
    BY DEF ActiveIsMember
  <2>2. CASE t # s
    BY <1>3, <1>4, <2>1, <2>2 DEF RouterOK, ActiveIsMember
  <2>3. CASE t = s /\ l[1] = k[1]
    <3>1. l = k
      BY <1>2, <1>3, <2>1, <2>3, SameChannel
    <3> QED  BY <1>4, <2>3, <3>1
  <2>4. CASE t = s /\ l[1] # k[1]
    <3>1. PeerOf(s)[l[1]] = l[2]
      BY <1>2, <1>3, <2>1, <2>4, ChannelIsPair
    <3>2. s \in DOMAIN peers
      BY <1>3, <3>1, NewPeerIsNowhere
    <3> QED  BY <1>3, <1>4, <2>4, <3>1, <3>2 DEF RouterOK, ActiveIsMember
  <2> QED  BY <2>2, <2>3, <2>4
<1>8. \A one \in BOOLEAN : InPlace(s, k, one)'
  BY <1>2, <1>3, <1>4 DEF InPlace
<1>9. ASSUME NEW t \in Session, NEW l \in Channel, NEW one \in BOOLEAN,
             InPlace(t, l, one), ~Displaces(<<"join", s, k>>, t, l, one)
      PROVE  InPlace(t, l, one)'
  <2>1. t \in MembersOf(l)'
    BY <1>4, <1>9 DEF InPlace
  <2>2. ASSUME one, l[1] = "Instance"
        PROVE  t \in DOMAIN peers' /\ peers'[t].Instance = l[2]
    <3>1. t \in DOMAIN peers /\ peers[t].Instance = l[2]
      BY <1>9, <2>2 DEF InPlace
    <3>2. t = s => k = l \/ k[1] # "Instance"
      BY <1>9, <2>2 DEF Displaces
    <3>3. t = s => p.Instance = l[2]
      BY <1>2, <1>3, <2>2, <3>1, <3>2, ChannelIsPair
    <3> QED  BY <1>3, <3>1, <3>3
  <2> QED  BY <2>1, <2>2 DEF InPlace
<1>10. \A t \in Session, l \in Channel :
          /\ t \in MembersOf(l)' => t \in MembersOf(l) \/ <<"join", s, k>> = <<"join", t, l>>
          /\ ~Ends(<<"join", s, k>>, t, l)
          /\ <<"join", s, k>> = <<"join", t, l>> => t = s /\ l = k
  BY <1>4 DEF Ends
<1> DEFINE msg == <<"join", s, k>>
<1> QED  BY <1>5, <1>6, <1>7, <1>8, <1>9, <1>10 DEF RouterOK, Obeys
\* A leave takes who it names out of that channel only.
LEMMA LeaveHandled ==
    ASSUME RouterOK, NEW s \in Session, NEW k \in Channel, Handle(<<"leave", s, k>>)
    PROVE  RouterOK' /\ Obeys(<<"leave", s, k>>)
<1>1. ApplyChannelLeave(s, k)
  BY DEF Handle
<1>2. UNCHANGED <<tickets, redeemed, endpointToSession>>
  BY <1>1 DEF ApplyChannelLeave
<1>3. /\ DOMAIN channels' \subseteq DOMAIN channels
      /\ \A l : MembersOf(l)' = IF l = k THEN MembersOf(k) \ {s} ELSE MembersOf(l)
  <2>1. CASE k \notin DOMAIN channels
    <3>1. channels' = channels
      BY <1>1, <2>1 DEF ApplyChannelLeave
    <3> QED  BY <2>1, <3>1 DEF MembersOf
  <2>2. CASE k \in DOMAIN channels
    <3> DEFINE left == [channels EXCEPT ![k] = @ \ {s}]
    <3>1. channels' = IF left[k] = {} THEN Without(left, {k}) ELSE left
      BY <1>1, <2>2 DEF ApplyChannelLeave
    <3>2. DOMAIN left = DOMAIN channels /\ left[k] = channels[k] \ {s}
          /\ \A l \in DOMAIN channels : l # k => left[l] = channels[l]
      BY <2>2
    <3> HIDE DEF left
    <3>3. CASE left[k] = {}
      <4>1. /\ DOMAIN channels' = DOMAIN left \ {k}
            /\ \A l \in DOMAIN channels' : channels'[l] = left[l]
        BY <3>1, <3>3 DEF Without, Restrict
      <4> QED  BY <2>2, <3>2, <3>3, <4>1 DEF MembersOf
    <3>4. CASE left[k] # {}
      <4>1. channels' = left
        BY <3>1, <3>4
      <4> QED  BY <2>2, <3>2, <4>1 DEF MembersOf
    <3> QED  BY <3>3, <3>4
  <2> QED  BY <2>1, <2>2
<1> DEFINE p == AfterLeave(peers[s], k)
<1>4. s \in DOMAIN peers =>
         /\ p \in Peer /\ p.endpoint = peers[s].endpoint /\ p.heard = peers[s].heard
         /\ p[k[1]] # k[2]
         /\ peers[s][k[1]] # k[2] => p = peers[s]
         /\ k[1] = "Room" => p.Instance = peers[s].Instance
         /\ k[1] = "Instance" => p.Room = peers[s].Room
  BY PeerLeaves DEF RouterOK, RouterTyped
<1>5. /\ DOMAIN peers' \subseteq DOMAIN peers
      /\ \A t \in DOMAIN peers : t # s => t \in DOMAIN peers' /\ peers'[t] = peers[t]
      /\ s \in DOMAIN peers' => s \in DOMAIN peers /\ peers'[s] = p
      /\ s \in DOMAIN peers /\ (p.heard \/ p.Instance # None) => s \in DOMAIN peers'
  <2>1. CASE s \notin DOMAIN peers
    <3>1. peers' = peers
      BY <1>1, <2>1 DEF ApplyChannelLeave
    <3> QED  BY <2>1, <3>1
  <2>2. CASE s \in DOMAIN peers
    <3> DEFINE forget == p.Room = None /\ p.Instance = None /\ ~p.heard
    <3>1. peers' = IF forget THEN Without(peers, {s}) ELSE [peers EXCEPT ![s] = p]
      BY <1>1, <2>2 DEF ApplyChannelLeave
    <3> HIDE DEF p
    <3>2. CASE forget
      <4>1. /\ DOMAIN peers' = DOMAIN peers \ {s}
            /\ \A t \in DOMAIN peers' : peers'[t] = peers[t]
        BY <3>1, <3>2 DEF Without, Restrict
      <4> QED  BY <3>2, <4>1
    <3>3. CASE ~forget
      BY <2>2, <3>1, <3>3
    <3> QED  BY <3>2, <3>3
  <2> QED  BY <2>1, <2>2
<1> HIDE DEF p
<1>6. RouterTyped'
  <2>1. \A l \in DOMAIN channels' : channels'[l] = MembersOf(l)'
    BY DEF MembersOf
  <2>2. \A l \in Channel : MembersOf(l) \subseteq Session
    BY DEF MembersOf, RouterOK, RouterTyped
  <2>3. DOMAIN channels' \subseteq Channel
    BY <1>3 DEF RouterOK, RouterTyped
  <2>4. \A l \in DOMAIN channels' : channels'[l] \subseteq Session
    BY <1>3, <2>1, <2>2, <2>3
  <2>5. DOMAIN peers' \subseteq Session /\ \A t \in DOMAIN peers' : peers'[t] \in Peer
    BY <1>4, <1>5 DEF RouterOK, RouterTyped
  <2> QED  BY <1>2, <2>3, <2>4, <2>5 DEF RouterOK, RouterTyped
<1>7. HeardAtItsAddress'
  BY <1>2, <1>4, <1>5 DEF RouterOK, HeardAtItsAddress
<1>8. ActiveIsMember'
  <2>1. SUFFICES ASSUME NEW t \in DOMAIN peers', NEW l \in Channel, peers'[t][l[1]] = l[2]
                 PROVE  t \in MembersOf(l)'
    BY DEF ActiveIsMember
  <2>2. CASE t # s
    BY <1>3, <1>5, <2>1, <2>2 DEF RouterOK, ActiveIsMember
  <2>3. CASE t = s
    <3>1. s \in DOMAIN peers /\ peers'[s] = p /\ l # k
      BY <1>4, <1>5, <2>1, <2>3
    <3>2. peers[s][l[1]] = l[2]
      <4>1. CASE peers[s][k[1]] # k[2]
        BY <1>4, <2>1, <2>3, <3>1, <4>1
      <4>2. CASE peers[s][k[1]] = k[2] /\ l[1] = k[1]
        <5>1. p = [peers[s] EXCEPT ![k[1]] = None] /\ peers[s] \in Peer
          BY <3>1, <4>2 DEF p, AfterLeave, RouterOK, RouterTyped
        <5>2. p[k[1]] = None
          BY <5>1, ChannelIsPair DEF Peer
        <5> QED  BY <2>1, <2>3, <3>1, <4>2, <5>2, ChannelIsPair
      <4>3. CASE l[1] # k[1]
        BY <1>4, <2>1, <2>3, <3>1, <4>3, ChannelIsPair
      <4> QED  BY <4>1, <4>2, <4>3
    <3> QED  BY <1>3, <2>3, <3>1, <3>2 DEF RouterOK, ActiveIsMember
  <2> QED  BY <2>2, <2>3
<1>9. ASSUME NEW t \in Session, NEW l \in Channel, NEW one \in BOOLEAN,
             InPlace(t, l, one), ~(t = s /\ l = k)
      PROVE  InPlace(t, l, one)'
  <2>1. t \in MembersOf(l)'
    BY <1>3, <1>9 DEF InPlace
  <2>2. ASSUME one, l[1] = "Instance"
        PROVE  t \in DOMAIN peers' /\ peers'[t].Instance = l[2]
    <3>1. t \in DOMAIN peers /\ peers[t].Instance = l[2]
      BY <1>9, <2>2 DEF InPlace
    <3>2. CASE t # s
      BY <1>5, <3>1, <3>2
    <3>3. CASE t = s
      <4>1. l # k /\ l[2] # None
        BY <1>9, <3>3, ChannelIsPair
      <4>2. k[1] = "Instance" => peers[s][k[1]] # k[2]
        BY <2>2, <3>1, <3>3, <4>1, SameChannel
      <4>3. p.Instance = l[2]
        BY <1>4, <3>1, <3>3, <4>2, ChannelIsPair
      <4> QED  BY <1>5, <3>1, <3>3, <4>1, <4>3
    <3> QED  BY <3>2, <3>3
  <2> QED  BY <2>1, <2>2 DEF InPlace
<1> DEFINE msg == <<"leave", s, k>>
<1>10. \A t \in Session, l \in Channel :
          /\ t \in MembersOf(l)' => t \in MembersOf(l)
          /\ Ends(msg, t, l) <=> t = s /\ l = k
          /\ msg # <<"join", t, l>>
  BY <1>3 DEF Ends
<1>11. s \notin MembersOf(k)'
  BY <1>3
<1> HIDE DEF msg
<1>12. Obeys(msg)
  BY <1>9, <1>10, <1>11 DEF Obeys, Displaces
<1> QED  BY <1>6, <1>7, <1>8, <1>12 DEF RouterOK, msg
\* A session that is closed is taken out of everything.
LEMMA ClosedHandled ==
    ASSUME RouterOK, NEW s \in Session, Handle(<<"closed", s>>)
    PROVE  RouterOK' /\ Obeys(<<"closed", s>>)
<1>1. /\ endpointToSession' = Without(endpointToSession, {PeerOf(s).endpoint})
      /\ peers' = Without(peers, {s}) /\ channels' = RemovedFromAll(s)
      /\ UNCHANGED <<tickets, redeemed>>
  BY DEF Handle, RemoveSession, Unmapped
<1>2. /\ DOMAIN peers' = DOMAIN peers \ {s}
      /\ \A t \in DOMAIN peers' : peers'[t] = peers[t]
      /\ DOMAIN endpointToSession' = DOMAIN endpointToSession \ {PeerOf(s).endpoint}
      /\ \A e \in DOMAIN endpointToSession' : endpointToSession'[e] = endpointToSession[e]
  BY <1>1 DEF Without, Restrict
<1>3. /\ DOMAIN channels' \subseteq DOMAIN channels
      /\ \A l : MembersOf(l)' = MembersOf(l) \ {s}
  <2> DEFINE left == [l \in DOMAIN channels |-> channels[l] \ {s}]
  <2>1. /\ DOMAIN channels' = {l \in DOMAIN channels : left[l] # {}}
        /\ \A l \in DOMAIN channels' : channels'[l] = left[l]
    BY <1>1 DEF RemovedFromAll, NonEmpty, Restrict
  <2> QED  BY <2>1 DEF MembersOf
<1>4. RouterTyped'
  <2>1. \A l \in DOMAIN channels' : channels'[l] = MembersOf(l)'
    BY DEF MembersOf
  <2>2. \A l \in DOMAIN channels' : channels'[l] \subseteq Session
    BY <1>3, <2>1 DEF MembersOf, RouterOK, RouterTyped
  <2> QED  BY <1>1, <1>2, <1>3, <2>2 DEF RouterOK, RouterTyped
<1>5. HeardAtItsAddress'
  <2>1. SUFFICES ASSUME NEW e \in DOMAIN endpointToSession'
                 PROVE  /\ endpointToSession'[e] \in DOMAIN peers'
                        /\ peers'[endpointToSession'[e]].endpoint = e
                        /\ peers'[endpointToSession'[e]].heard
    BY DEF HeardAtItsAddress
  <2>2. /\ endpointToSession[e] \in DOMAIN peers
        /\ peers[endpointToSession[e]].endpoint = e
        /\ peers[endpointToSession[e]].heard
    BY <1>2, <2>1 DEF RouterOK, HeardAtItsAddress
  <2>3. endpointToSession[e] # s
    BY <1>2, <2>1, <2>2 DEF PeerOf
  <2> QED  BY <1>2, <2>1, <2>2, <2>3
<1>6. ActiveIsMember'
  BY <1>2, <1>3 DEF RouterOK, ActiveIsMember
<1> DEFINE msg == <<"closed", s>>
<1>7. \A t \in Session, l \in Channel :
         /\ t \in MembersOf(l)' => t \in MembersOf(l) /\ t # s
         /\ Ends(msg, t, l) <=> t = s
         /\ msg # <<"join", t, l>>
  BY <1>3 DEF Ends
<1>8. \A t \in Session, l \in Channel, one \in BOOLEAN :
         InPlace(t, l, one) /\ t # s => InPlace(t, l, one)'
  BY <1>2, <1>3 DEF InPlace
<1> HIDE DEF msg
<1>9. Obeys(msg)
  BY <1>7, <1>8 DEF Obeys, Displaces
<1> QED  BY <1>4, <1>5, <1>6, <1>9 DEF RouterOK, msg
-----------------------------------------------------------------------------

\* Handling the first packet on its way keeps the invariant.
LEMMA ReceiveKeeps ==
    ASSUME VInv, NEW c \in Conn, Receive(c)
    PROVE  VInv'
<1> DEFINE q == conns[c].toSelf
           msg == Head(q)
<1>1. /\ conns[c].self = "up" /\ q # <<>> /\ Handle(msg)
      /\ conns' = [conns EXCEPT ![c].toSelf = Tail(@)]
      /\ UNCHANGED <<link, resyncs, matchVars, missed, byed, crossed>>
      /\ conns \in [Conn -> Connection] /\ q \in Seq(Message)
  BY DEF Receive, Delivered, VInv, LinkTyped, Connection, ghosts
<1>2. msg \in Message /\ Tail(q) \in Seq(Message)
  BY <1>1
<1>3. /\ conns'[c].toSelf = Tail(q)
      /\ \A d \in Conn : /\ conns'[d].self = conns[d].self /\ conns'[d].peer = conns[d].peer
                         /\ d # c => conns'[d] = conns[d]
  BY <1>1 DEF Connection
<1>4. LinkTyped'
  <2>1. [conns[c] EXCEPT !.toSelf = Tail(q)] \in Connection
    BY <1>1, <1>2 DEF Connection
  <2>2. conns' = [conns EXCEPT ![c] = [conns[c] EXCEPT !.toSelf = Tail(q)]]
    BY <1>1
  <2> QED  BY <1>1, <2>1, <2>2 DEF VInv, LinkTyped
<1> HIDE DEF q, msg
<1>5. OneEnd'
  <2>1. Connected' = Connected
    BY <1>3 DEF Connected
  <2>2. \A d \in Conn : conns'[d].self # "up" => conns'[d].toSelf = <<>>
    BY <1>1, <1>3 DEF VInv, OneEnd
  <2> QED  BY <1>1, <2>1, <2>2 DEF VInv, OneEnd
<1>6. RouterOK' /\ Obeys(msg)
  <2>1. RouterOK
    BY DEF VInv, RouterOK
  <2>2. CASE \E s \in Session : msg = <<"ticket", s>> \/ msg = <<"closed", s>>
    BY <1>1, <2>1, <2>2, TicketHandled, ClosedHandled
  <2>3. CASE \E s \in Session, k \in Channel : msg = <<"join", s, k>> \/ msg = <<"leave", s, k>>
    BY <1>1, <2>1, <2>3, JoinHandled, LeaveHandled
  <2> QED  BY <1>2, <2>2, <2>3, MessageIsOneOf
<1>7. memberships' = memberships /\ UNCHANGED <<missed, byed, crossed, resyncs>>
  BY <1>1 DEF matchVars
<1>8. MatchTyped' /\ OneInstance'
  BY <1>1, <1>7 DEF VInv, MatchTyped, OneInstance, Matches, Listed, matchVars
<1>9. EndIsComing'
  <2>1. SUFFICES ASSUME NEW s \in Session, NEW k \in Channel,
                        <<s, k>> \notin memberships, s \notin missed
                 PROVE  /\ s \in MembersOf(k)' => \E d \in Conn : EndIn(conns'[d].toSelf, s, k)
                        /\ \A d \in Conn : EndFollows(conns'[d].toSelf, s, k)
    BY <1>7 DEF EndIsComing
  <2>2. /\ s \in MembersOf(k) => \E d \in Conn : EndIn(conns[d].toSelf, s, k)
        /\ \A d \in Conn : EndFollows(conns[d].toSelf, s, k)
    BY <2>1 DEF VInv, EndIsComing
  <2>3. /\ EndIn(q, s, k) => EndIn(Tail(q), s, k) \/ Ends(msg, s, k)
        /\ EndFollows(q, s, k)
        /\ EndFollows(Tail(q), s, k)
        /\ msg = <<"join", s, k>> => EndIn(Tail(q), s, k)
    BY <1>1, <2>2, TailEnds DEF q, msg
  <2>4. \A d \in Conn : EndFollows(conns'[d].toSelf, s, k)
    BY <1>3, <2>2, <2>3
  <2>5. ASSUME s \in MembersOf(k)' PROVE \E d \in Conn : EndIn(conns'[d].toSelf, s, k)
    <3>1. ~Ends(msg, s, k) /\ (s \in MembersOf(k) \/ msg = <<"join", s, k>>)
      BY <1>6, <2>5 DEF Obeys
    <3>2. CASE msg = <<"join", s, k>>
      BY <1>3, <2>3, <3>2
    <3>3. CASE s \in MembersOf(k)
      <4>1. PICK d \in Conn : EndIn(conns[d].toSelf, s, k)
        BY <2>2, <3>3
      <4> QED  BY <1>3, <2>3, <3>1, <4>1 DEF q
    <3> QED  BY <3>1, <3>2, <3>3
  <2> QED  BY <2>4, <2>5
<1>10. UpToDate'
  <2>1. SUFFICES ASSUME NEW d \in Conn, Reaches(d)', d \notin resyncs,
                        NEW s \in Session \ byed, NEW k \in Channel, NEW one \in BOOLEAN,
                        <<s, k>> \in memberships, one => s \notin crossed
                 PROVE  JoinIsLast(conns'[d].toSelf, s, k, InPlace(s, k, one)', one)
    BY <1>7 DEF UpToDate
  <2>2. Reaches(d) /\ d = c
    BY <1>1, <1>3, <2>1 DEF Reaches, Registered, VInv, OneEnd, Connected
  <2> DEFINE there == InPlace(s, k, one)
             then == InPlace(s, k, one)'
  <2>3. there \in BOOLEAN /\ then \in BOOLEAN
    BY DEF InPlace
  <2>4. JoinIsLast(q, s, k, there, one)
    BY <2>1, <2>2 DEF VInv, UpToDate, q
  <2>5. /\ msg = <<"join", s, k>> => then
        /\ there /\ ~Displaces(msg, s, k, one) => then
    BY <1>6 DEF Obeys
  <2> HIDE DEF there, then
  <2>6. JoinIsLast(Tail(q), s, k, then, one)
    BY <1>1, <2>3, <2>4, <2>5, TailKeepsJoin DEF msg
  <2> QED  BY <1>3, <2>2, <2>6 DEF then
<1> QED  BY <1>4, <1>5, <1>6, <1>8, <1>9, <1>10 DEF VInv, RouterOK
-----------------------------------------------------------------------------
(***************************************************************************)
(* Datagrams and maintenance                                               *)
(***************************************************************************)

\* A step that joins nobody, and takes nobody off but with a Bye, keeps what is
\* said of the voice server and the match server together.
LEMMA RouterKeeps ==
    ASSUME VInv, UNCHANGED <<linkVars, matchVars, missed, crossed>>, RouterOK',
           byed' = byed \cup (DOMAIN peers \ DOMAIN peers'),
           \A s \in Session, k \in Channel :
              /\ s \in MembersOf(k)' => s \in MembersOf(k)
              /\ \A one : InPlace(s, k, one) /\ s \notin byed' => InPlace(s, k, one)'
    PROVE  VInv'
<1> USE DEF linkVars, matchVars
<1>1. LinkTyped' /\ OneEnd' /\ MatchTyped' /\ OneInstance'
  <2>1. LinkTyped' /\ OneEnd' /\ OneInstance'
    BY DEF VInv, LinkTyped, OneEnd, Connected, OneInstance, Matches, Listed
  <2>2. MatchTyped'
    BY DEF VInv, MatchTyped, RouterTyped
  <2> QED  BY <2>1, <2>2
<1>2. EndIsComing'
  BY DEF VInv, EndIsComing
<1>3. UpToDate'
  <2>1. SUFFICES ASSUME NEW c \in Conn, Reaches(c)', c \notin resyncs,
                        NEW s \in Session \ byed', NEW k \in Channel, NEW one \in BOOLEAN,
                        <<s, k>> \in memberships, one => s \notin crossed
                 PROVE  JoinIsLast(conns[c].toSelf, s, k, InPlace(s, k, one)', one)
    BY DEF UpToDate
  <2>2. JoinIsLast(conns[c].toSelf, s, k, InPlace(s, k, one), one)
    BY <2>1 DEF VInv, UpToDate, Reaches, Registered
  <2>3. InPlace(s, k, one) => InPlace(s, k, one)'
    BY <2>1
  <2> QED  BY <2>2, <2>3 DEF JoinIsLast
<1> QED  BY <1>1, <1>2, <1>3 DEF VInv, RouterOK

\* A ticket is consumed, or some expire.
LEMMA TicketsKeep ==
    ASSUME RouterOK, tickets' \subseteq tickets, redeemed' \subseteq Endpoint \X Session,
           UNCHANGED <<peers, endpointToSession, channels>>
    PROVE  RouterOK' /\ \A s, k, one : InPlace(s, k, one)' <=> InPlace(s, k, one)
<1>1. \A k : MembersOf(k)' = MembersOf(k)
  BY DEF MembersOf
<1>2. RouterTyped' /\ HeardAtItsAddress'
  BY DEF RouterOK, RouterTyped, HeardAtItsAddress
<1>3. ActiveIsMember'
  BY <1>1 DEF RouterOK, ActiveIsMember
<1> QED  BY <1>1, <1>2, <1>3 DEF RouterOK, InPlace

\* Whose address it was before is no longer found there.
LEMMA HelloHandled ==
    ASSUME RouterOK, NEW from \in Endpoint, NEW s \in Session, HandleHello(from, s)
    PROVE  /\ RouterOK' /\ DOMAIN peers \subseteq DOMAIN peers'
           /\ \A k : MembersOf(k)' = MembersOf(k)
           /\ \A t, k, one : InPlace(t, k, one) => InPlace(t, k, one)'
<1> DEFINE p == [PeerOf(s) EXCEPT !.endpoint = from, !.heard = TRUE]
<1>1. /\ redeemed' = redeemed \ {<<from, s>>}
      /\ endpointToSession' = Put(Without(endpointToSession, {PeerOf(s).endpoint}), from, s)
      /\ peers' = Put(peers, s, p) /\ UNCHANGED <<tickets, channels>>
  BY DEF HandleHello
<1>2. /\ PeerOf(s) \in Peer /\ p \in Peer /\ p.endpoint = from /\ p.heard
      /\ p.Room = PeerOf(s).Room /\ p.Instance = PeerOf(s).Instance
  <2>1. PeerOf(s) \in Peer
    BY PeerOfIsPeer DEF RouterOK
  <2> QED  BY <2>1 DEF Peer
<1> HIDE DEF p
<1>3. /\ DOMAIN peers' = DOMAIN peers \cup {s} /\ peers'[s] = p
      /\ \A t \in DOMAIN peers : t # s => peers'[t] = peers[t]
      /\ s \in DOMAIN peers => PeerOf(s) = peers[s]
      /\ s \notin DOMAIN peers => PeerOf(s) = NewPeer
  BY <1>1 DEF Put, PeerOf
<1>4. /\ DOMAIN endpointToSession' =
            (DOMAIN endpointToSession \ {PeerOf(s).endpoint}) \cup {from}
      /\ endpointToSession'[from] = s
      /\ \A e \in DOMAIN endpointToSession' \ {from} :
            endpointToSession'[e] = endpointToSession[e]
  BY <1>1 DEF Put, Without, Restrict
<1>5. \A k : MembersOf(k)' = MembersOf(k)
  BY <1>1 DEF MembersOf
<1>6. RouterTyped'
  BY <1>1, <1>2, <1>3, <1>4 DEF RouterOK, RouterTyped
<1>7. HeardAtItsAddress'
  <2>1. SUFFICES ASSUME NEW e \in DOMAIN endpointToSession'
                 PROVE  /\ endpointToSession'[e] \in DOMAIN peers'
                        /\ peers'[endpointToSession'[e]].endpoint = e
                        /\ peers'[endpointToSession'[e]].heard
    BY DEF HeardAtItsAddress
  <2>2. CASE e = from
    BY <1>2, <1>3, <1>4, <2>2
  <2>3. CASE e # from
    <3>1. /\ endpointToSession'[e] = endpointToSession[e] /\ e # PeerOf(s).endpoint
          /\ endpointToSession[e] \in DOMAIN peers
          /\ peers[endpointToSession[e]].endpoint = e
          /\ peers[endpointToSession[e]].heard
      BY <1>4, <2>1, <2>3 DEF RouterOK, HeardAtItsAddress
    <3>2. endpointToSession[e] # s
      BY <1>3, <3>1
    <3> QED  BY <1>3, <3>1, <3>2
  <2> QED  BY <2>2, <2>3
<1>8. ActiveIsMember'
  <2>1. SUFFICES ASSUME NEW t \in DOMAIN peers', NEW l \in Channel, peers'[t][l[1]] = l[2]
                 PROVE  t \in MembersOf(l)
    BY <1>5 DEF ActiveIsMember
  <2>2. CASE t # s
    BY <1>3, <2>1, <2>2 DEF RouterOK, ActiveIsMember
  <2>3. CASE t = s
    <3>1. PeerOf(s)[l[1]] = l[2]
      BY <1>2, <1>3, <2>1, <2>3, ChannelIsPair
    <3>2. s \in DOMAIN peers
      BY <1>3, <3>1, NewPeerIsNowhere
    <3> QED  BY <1>3, <2>3, <3>1, <3>2 DEF RouterOK, ActiveIsMember
  <2> QED  BY <2>2, <2>3
<1>9. \A t, k, one : InPlace(t, k, one) => InPlace(t, k, one)'
  BY <1>2, <1>3, <1>5 DEF InPlace
<1> QED  BY <1>3, <1>5, <1>6, <1>7, <1>8, <1>9 DEF RouterOK
\* Who is heard stays where it is.
LEMMA DataHandled ==
    ASSUME RouterOK, NEW from \in Endpoint, HandleData(from)
    PROVE  /\ RouterOK' /\ DOMAIN peers' = DOMAIN peers
           /\ \A k : MembersOf(k)' = MembersOf(k)
           /\ \A t, k, one : InPlace(t, k, one) => InPlace(t, k, one)'
<1> DEFINE s == endpointToSession[from]
<1>1. /\ s \in DOMAIN peers /\ peers' = [peers EXCEPT ![s].heard = TRUE]
      /\ UNCHANGED <<tickets, redeemed, endpointToSession, channels>>
  BY DEF HandleData
<1> HIDE DEF s
<1>2. /\ DOMAIN peers' = DOMAIN peers
      /\ \A t \in DOMAIN peers :
            /\ peers'[t] \in Peer /\ peers'[t].endpoint = peers[t].endpoint
            /\ peers'[t].Room = peers[t].Room /\ peers'[t].Instance = peers[t].Instance
            /\ peers[t].heard => peers'[t].heard
  BY <1>1 DEF RouterOK, RouterTyped, Peer
<1>3. \A k : MembersOf(k)' = MembersOf(k)
  BY <1>1 DEF MembersOf
<1>4. RouterTyped' /\ HeardAtItsAddress'
  <2>1. RouterTyped'
    BY <1>1, <1>2 DEF RouterOK, RouterTyped
  <2>2. HeardAtItsAddress'
    BY <1>1, <1>2 DEF RouterOK, HeardAtItsAddress
  <2> QED  BY <2>1, <2>2
<1>5. ActiveIsMember'
  BY <1>2, <1>3, ChannelIsPair DEF RouterOK, ActiveIsMember
<1>6. \A t, k, one : InPlace(t, k, one) => InPlace(t, k, one)'
  BY <1>2, <1>3 DEF InPlace
<1> QED  BY <1>2, <1>3, <1>4, <1>5, <1>6 DEF RouterOK

\* Whoever says Bye takes itself off, and its address with it.
LEMMA ByeHandled ==
    ASSUME RouterOK, NEW from \in Endpoint, HandleBye(from)
    PROVE  /\ RouterOK'
           /\ \A k : MembersOf(k)' \subseteq MembersOf(k)
           /\ \A t, k, one : InPlace(t, k, one) =>
                 t \in DOMAIN peers \ DOMAIN peers' \/ InPlace(t, k, one)'
<1> DEFINE s == endpointToSession[from]
<1>1. /\ from \in DOMAIN endpointToSession
      /\ endpointToSession' = Without(endpointToSession, {from})
      /\ peers' = Without(peers, {s})
      /\ channels' = [k \in DOMAIN channels |-> channels[k] \ {s}]
      /\ UNCHANGED <<tickets, redeemed>>
  BY DEF HandleBye
<1>2. s \in DOMAIN peers /\ peers[s].endpoint = from
  BY <1>1 DEF RouterOK, HeardAtItsAddress
<1>3. /\ DOMAIN peers' = DOMAIN peers \ {s}
      /\ \A t \in DOMAIN peers' : peers'[t] = peers[t]
      /\ DOMAIN endpointToSession' = DOMAIN endpointToSession \ {from}
      /\ \A e \in DOMAIN endpointToSession' : endpointToSession'[e] = endpointToSession[e]
  BY <1>1 DEF Without, Restrict
<1> HIDE DEF s
<1>4. \A k : MembersOf(k)' = MembersOf(k) \ {s}
  BY <1>1 DEF MembersOf
<1>5. RouterTyped'
  BY <1>1, <1>3 DEF RouterOK, RouterTyped
<1>6. HeardAtItsAddress'
  <2>1. \A e \in DOMAIN endpointToSession' : endpointToSession[e] # s
    BY <1>2, <1>3 DEF RouterOK, HeardAtItsAddress
  <2> QED  BY <1>3, <2>1 DEF RouterOK, HeardAtItsAddress
<1>7. ActiveIsMember'
  BY <1>3, <1>4 DEF RouterOK, ActiveIsMember
<1>8. \A t, k, one : InPlace(t, k, one) => t = s \/ InPlace(t, k, one)'
  BY <1>3, <1>4 DEF InPlace
<1> QED  BY <1>2, <1>3, <1>4, <1>5, <1>6, <1>7, <1>8 DEF RouterOK

\* Who has been silent loses its address, and nothing else.
LEMMA SweepHandled ==
    ASSUME RouterOK, Maintenance
    PROVE  /\ RouterOK' /\ DOMAIN peers' = DOMAIN peers
           /\ \A k : MembersOf(k)' = MembersOf(k)
           /\ \A t, k, one : InPlace(t, k, one) => InPlace(t, k, one)'
<1>1. PICK stale \in SUBSET {s \in DOMAIN peers : peers[s].heard} :
         /\ endpointToSession' = Without(endpointToSession, {peers[s].endpoint : s \in stale})
         /\ peers' = [s \in DOMAIN peers |->
                        IF s \in stale
                        THEN [peers[s] EXCEPT !.endpoint = None, !.heard = FALSE]
                        ELSE peers[s]]
  BY DEF Maintenance, SweepIdlePeers
<1>2. tickets' \subseteq tickets /\ UNCHANGED <<redeemed, channels>>
  BY DEF Maintenance, PurgeExpired
<1>3. /\ DOMAIN peers' = DOMAIN peers
      /\ \A t \in DOMAIN peers :
            /\ peers'[t] \in Peer
            /\ peers'[t].Room = peers[t].Room /\ peers'[t].Instance = peers[t].Instance
            /\ t \notin stale => peers'[t] = peers[t]
  <2>1. ASSUME NEW t \in DOMAIN peers
        PROVE  /\ peers'[t] \in Peer
               /\ peers'[t].Room = peers[t].Room /\ peers'[t].Instance = peers[t].Instance
               /\ t \notin stale => peers'[t] = peers[t]
    <3>1. peers[t] \in Peer
      BY DEF RouterOK, RouterTyped
    <3>2. [peers[t] EXCEPT !.endpoint = None, !.heard = FALSE] \in Peer
      BY <3>1 DEF Peer
    <3> QED  BY <1>1, <3>1, <3>2 DEF Peer
  <2> QED  BY <1>1, <2>1
<1>4. /\ DOMAIN endpointToSession' =
             DOMAIN endpointToSession \ {peers[s].endpoint : s \in stale}
      /\ \A e \in DOMAIN endpointToSession' : endpointToSession'[e] = endpointToSession[e]
  BY <1>1 DEF Without, Restrict
<1>5. \A k : MembersOf(k)' = MembersOf(k)
  BY <1>2 DEF MembersOf
<1>6. RouterTyped'
  BY <1>2, <1>3, <1>4 DEF RouterOK, RouterTyped
<1>7. HeardAtItsAddress'
  <2>1. SUFFICES ASSUME NEW e \in DOMAIN endpointToSession'
                 PROVE  /\ endpointToSession'[e] \in DOMAIN peers'
                        /\ peers'[endpointToSession'[e]].endpoint = e
                        /\ peers'[endpointToSession'[e]].heard
    BY DEF HeardAtItsAddress
  <2>2. /\ endpointToSession'[e] = endpointToSession[e]
        /\ endpointToSession[e] \in DOMAIN peers
        /\ peers[endpointToSession[e]].endpoint = e
        /\ peers[endpointToSession[e]].heard
    BY <1>4, <2>1 DEF RouterOK, HeardAtItsAddress
  <2>3. endpointToSession[e] \notin stale
    BY <1>4, <2>1, <2>2
  <2> QED  BY <1>3, <2>2, <2>3
<1>8. ActiveIsMember'
  BY <1>3, <1>5, ChannelIsPair DEF RouterOK, ActiveIsMember
<1>9. \A t, k, one : InPlace(t, k, one) => InPlace(t, k, one)'
  BY <1>3, <1>5 DEF InPlace
<1> QED  BY <1>3, <1>5, <1>6, <1>7, <1>8, <1>9 DEF RouterOK
\* What the voice server does on its own keeps the invariant.
LEMMA RouterStepKeeps ==
    ASSUME VInv, Router
    PROVE  VInv'
<1>1. /\ UNCHANGED <<linkVars, matchVars, missed, crossed>>
      /\ byed' = byed \cup (DOMAIN peers \ DOMAIN peers')
      /\ Datagram \/ Maintenance
  BY DEF Router
<1>2. RouterOK
  BY DEF VInv, RouterOK
<1>3. /\ RouterOK'
      /\ \A k : MembersOf(k)' \subseteq MembersOf(k)
      /\ \A t, k, one : InPlace(t, k, one) =>
            t \in DOMAIN peers \ DOMAIN peers' \/ InPlace(t, k, one)'
  <2>1. ASSUME NEW from \in Endpoint, NEW s \in Session, Consume(from, s)
        PROVE  /\ RouterOK' /\ channels' = channels
               /\ \A t, k, one : InPlace(t, k, one)' <=> InPlace(t, k, one)
    <3>1. /\ tickets' \subseteq tickets /\ redeemed' \subseteq Endpoint \X Session
          /\ UNCHANGED <<peers, endpointToSession, channels>>
      BY <1>2, <2>1 DEF Consume, RouterOK, RouterTyped
    <3> QED  BY <1>2, <3>1, TicketsKeep
  <2>2. CASE \E from \in Endpoint, s \in Session : Consume(from, s)
    BY <2>1, <2>2 DEF MembersOf
  <2>3. CASE \E from \in Endpoint, s \in Session : HandleHello(from, s)
    BY <1>2, <2>3, HelloHandled
  <2>4. CASE \E from \in Endpoint : HandleData(from)
    BY <1>2, <2>4, DataHandled
  <2>5. CASE \E from \in Endpoint : HandleBye(from)
    BY <1>2, <2>5, ByeHandled
  <2>6. CASE Maintenance
    BY <1>2, <2>6, SweepHandled
  <2> QED  BY <1>1, <2>2, <2>3, <2>4, <2>5, <2>6 DEF Datagram
<1>4. \A s \in Session, k \in Channel :
         /\ s \in MembersOf(k)' => s \in MembersOf(k)
         /\ \A one : InPlace(s, k, one) /\ s \notin byed' => InPlace(s, k, one)'
  BY <1>1, <1>3
<1>5. byed' \subseteq Session
  BY <1>1, <1>2 DEF VInv, MatchTyped, RouterOK, RouterTyped
<1> QED  BY <1>1, <1>3, <1>4, RouterKeeps
-----------------------------------------------------------------------------

(***************************************************************************)
(* The theorems                                                            *)
(***************************************************************************)
\* The first dial is under way, and nothing else has happened.
LEMMA InitIsInv == Init => VInv
<1> SUFFICES ASSUME Init PROVE VInv
  OBVIOUS
<1>1. /\ conns = [c \in Conn |-> IF c = 1 THEN [Unused EXCEPT !.self = "dialling"] ELSE Unused]
      /\ link = Idle /\ resyncs = {}
      /\ tickets = {} /\ redeemed = {}
      /\ peers = <<>> /\ endpointToSession = <<>> /\ channels = <<>>
      /\ memberships = {} /\ players = [s \in Session |-> "new"] /\ pushes = 0
      /\ missed = {} /\ byed = {} /\ crossed = {}
  BY DEF Init, LinkInit, RouterInit
<1>2. \A c \in Conn : /\ conns[c] \in Connection /\ conns[c].toSelf = <<>>
                      /\ conns[c].self = IF c = 1 THEN "dialling" ELSE "unused"
  <2>1. <<>> \in Seq(Message)
    OBVIOUS
  <2> QED  BY <1>1, <2>1 DEF Unused, Connection
<1>3. LinkTyped
  <2>1. conns \in [Conn -> Connection]
    <3>1. conns = [c \in Conn |-> conns[c]]
      BY <1>1
    <3> QED  BY <1>2, <3>1
  <2> QED  BY <1>1, <2>1 DEF LinkTyped, Idle, LinkRecord
<1>4. OneEnd
  BY <1>1, <1>2 DEF OneEnd, Connected, Idle
<1>5. DOMAIN peers = {} /\ DOMAIN endpointToSession = {} /\ DOMAIN channels = {}
  BY <1>1
<1>6. RouterTyped /\ HeardAtItsAddress /\ ActiveIsMember
  BY <1>1, <1>5 DEF RouterTyped, HeardAtItsAddress, ActiveIsMember
<1>7. MatchTyped /\ OneInstance
  BY <1>1, FS_EmptySet, VoiceAssumption DEF MatchTyped, OneInstance, Matches, Listed
<1>8. EndIsComing
  <2>1. \A k : MembersOf(k) = {}
    BY <1>5 DEF MembersOf
  <2>2. \A c \in Conn : DOMAIN conns[c].toSelf = {}
    BY <1>2
  <2> QED  BY <2>1, <2>2 DEF EndIsComing, EndFollows
<1>9. UpToDate
  BY <1>1 DEF UpToDate
<1> QED  BY <1>3, <1>4, <1>6, <1>7, <1>8, <1>9 DEF VInv

\* The inductive invariant holds of every run of the voice server and its link.
THEOREM VoiceInvariant == Spec => []VInv
<1>1. VInv /\ [Next]_vars => VInv'
  <2> SUFFICES ASSUME VInv, [Next]_vars PROVE VInv'
    OBVIOUS
  <2>1. CASE MatchServer
    BY <2>1, HelloKeeps, JoinPushKeeps, LeavePushKeeps, ClosedPushKeeps, ResyncKeeps
    DEF MatchServer
  <2>2. CASE LinkStep
    BY <2>2, TryConnectKeeps, DialKeeps, PeerKeeps, LinkLostKeeps DEF LinkStep
  <2>3. CASE Restart
    BY <2>3, RestartKeeps
  <2>4. CASE Router
    BY <2>4, RouterStepKeeps
  <2>5. CASE \E c \in Conn : Receive(c)
    BY <2>5, ReceiveKeeps
  <2>6. CASE UNCHANGED vars
    <3>1. /\ UNCHANGED <<linkVars, routerVars, matchVars, missed, byed, crossed>>
          /\ LinkTyped' /\ OneEnd' /\ missed' \subseteq Session
      BY <2>6 DEF vars, linkVars, ghosts, VInv, LinkTyped, OneEnd, Connected, MatchTyped
    <3>2. \A c \in Conn : conns' = conns /\ (Reaches(c)' <=> Reaches(c)) /\ resyncs' = resyncs
      BY <3>1 DEF linkVars, Reaches, Registered
    <3> QED  BY <3>1, <3>2, LinkStepKeeps
  <2> QED  BY <2>1, <2>2, <2>3, <2>4, <2>5, <2>6 DEF Next
<1> QED  BY InitIsInv, <1>1, PTL DEF Spec

\* Every reachable state is of the types the module declares.
THEOREM TypeCorrect == Spec => []TypeOK
<1>1. VInv => TypeOK
  <2> SUFFICES ASSUME VInv PROVE TypeOK
    OBVIOUS
  <2>1. LinkTypeOK /\ \A c \in Conn : conns[c].toSelf \in Seq(Message)
    BY DEF VInv, LinkTyped, Connection, LinkRecord, LinkTypeOK
  <2>2. RouterTypeOK
    BY DEF VInv, RouterTyped, RouterTypeOK, Range
  <2> QED  BY <2>1, <2>2 DEF VInv, MatchTyped, TypeOK
<1> QED  BY <1>1, VoiceInvariant, PTL

\* A datagram is attributed to a session that was last heard at its address,
\* whoever says hello from wherever, is swept, leaves or is closed in between.
THEOREM AttributedToItsSpeaker == Spec => []EndpointIsItsPeers
<1>1. VInv => EndpointIsItsPeers
  BY DEF VInv, HeardAtItsAddress, EndpointIsItsPeers
<1> QED  BY <1>1, VoiceInvariant, PTL

\* Once the link is quiet, nothing is on its way on any connection, and who is
\* listed is in place.
LEMMA SettledIsQuiet ==
    ASSUME VInv, Settled
    PROVE  /\ \A s \in Session, k \in Channel :
                 <<s, k>> \in memberships => s \in byed \/ InPlace(s, k, s \notin crossed)
           /\ \A s \in Session, k \in Channel :
                 s \in MembersOf(k) => <<s, k>> \in memberships \/ s \in missed
<1>1. PICK c \in Conn : SettledOn(c)
  BY DEF Settled
<1>2. Reaches(c) /\ c \notin resyncs /\ conns[c].toSelf = <<>> /\ c \in Connected
  BY <1>1 DEF SettledOn, Reaches, Registered, Connected
<1>3. \A d \in Conn : conns[d].toSelf = <<>>
  BY <1>2 DEF VInv, OneEnd, Connected
<1>4. ASSUME NEW s \in Session, NEW k \in Channel, <<s, k>> \in memberships, s \notin byed
      PROVE  InPlace(s, k, s \notin crossed)
  <2> DEFINE one == s \notin crossed
  <2>1. JoinIsLast(conns[c].toSelf, s, k, InPlace(s, k, one), one)
    BY <1>2, <1>4 DEF VInv, UpToDate
  <2>2. DOMAIN conns[c].toSelf = {}
    BY <1>2
  <2> QED  BY <2>1, <2>2 DEF JoinIsLast
<1>5. ASSUME NEW s \in Session, NEW k \in Channel, s \in MembersOf(k)
      PROVE  <<s, k>> \in memberships \/ s \in missed
  <2>1. \A d \in Conn : ~EndIn(conns[d].toSelf, s, k)
    BY <1>3 DEF EndIn
  <2> QED  BY <1>5, <2>1 DEF VInv, EndIsComing
<1> QED  BY <1>4, <1>5

\* Once the link is quiet the voice server has the memberships the match server
\* lists, and no others but those whose end went down with a connection.
THEOREM ViewIsTheMatchServers == Spec => []ViewIsCurrent
<1>1. VInv => ViewIsCurrent
  <2> SUFFICES ASSUME VInv, Settled
               PROVE  /\ \A m \in memberships : m[1] \in MembersOf(m[2]) \cup byed
                      /\ \A k \in DOMAIN channels : \A s \in channels[k] :
                             <<s, k>> \in memberships \/ s \in missed
    BY DEF ViewIsCurrent
  <2>1. ASSUME NEW m \in memberships PROVE m[1] \in MembersOf(m[2]) \cup byed
    <3>1. m[1] \in Session /\ m[2] \in Channel /\ m = <<m[1], m[2]>>
      BY <2>1 DEF VInv, MatchTyped
    <3> QED  BY <2>1, <3>1, SettledIsQuiet DEF InPlace
  <2>2. ASSUME NEW k \in DOMAIN channels, NEW s \in channels[k]
        PROVE  <<s, k>> \in memberships \/ s \in missed
    <3>1. k \in Channel /\ s \in Session /\ s \in MembersOf(k)
      BY <2>2 DEF VInv, RouterTyped, MembersOf
    <3> QED  BY <3>1, SettledIsQuiet
  <2> QED  BY <2>1, <2>2
<1> QED  BY <1>1, VoiceInvariant, PTL

\* Nobody is heard in a channel they are not in, nor, once the link is quiet, in one
\* the match server does not list them in; whoever it lists in a match is heard there,
\* unless it was ever listed in two at once.
THEOREM HeardWhereListed == Spec => []SpeaksWhereListed
<1>1. VInv => SpeaksWhereListed
  <2> SUFFICES ASSUME VInv PROVE SpeaksWhereListed
    OBVIOUS
  <2>1. ASSUME NEW s \in DOMAIN peers, NEW k \in ActiveChannel(peers[s])
        PROVE  /\ s \in MembersOf(k)
               /\ Settled => <<s, k>> \in memberships \/ s \in missed
    <3>1. s \in Session /\ peers[s] \in Peer
      BY DEF VInv, RouterTyped
    <3>2. k \in Channel /\ peers[s][k[1]] = k[2]
      BY <2>1, <3>1 DEF ActiveChannel, Peer, Channel
    <3>3. s \in MembersOf(k)
      BY <3>2 DEF VInv, ActiveIsMember
    <3> QED  BY <3>1, <3>2, <3>3, SettledIsQuiet
  <2>2. ASSUME Settled, NEW s \in Session \ (missed \cup byed \cup crossed),
               NEW k \in Matches(s)
        PROVE  s \in DOMAIN peers /\ ActiveChannel(peers[s]) = {k}
    <3>1. k \in Channel /\ <<s, k>> \in memberships /\ k[1] = "Instance"
      BY <2>2 DEF Listed, Matches
    <3>2. k[2] # None /\ k = <<"Instance", k[2]>>
      BY <3>1, ChannelIsPair
    <3>3. s \in DOMAIN peers /\ peers[s].Instance = k[2]
      BY <2>2, <3>1, <3>2, SettledIsQuiet DEF InPlace
    <3> QED  BY <3>2, <3>3 DEF ActiveChannel
  <2> QED  BY <2>1, <2>2 DEF SpeaksWhereListed
<1> QED  BY <1>1, VoiceInvariant, PTL
=============================================================================
