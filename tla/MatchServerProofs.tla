------------------------- MODULE MatchServerProofs -------------------------
(***************************************************************************)
(* Rooms, the index and the sessions of the match server agree, and so do  *)
(* rooms and the matches they were handed off to: proofs for any number of *)
(* players, rooms, matches and instance servers.                           *)
(*                                                                         *)
(* None of the lobby's properties is inductive.  A pointer is right only   *)
(* because a room lets in nobody another room still has, which its refusal *)
(* is about; a room that is empty is opened only because nothing comes     *)
(* before the join that opens it but what leaves it as new as it was; and  *)
(* what chat and voice will know is a matter of the whole server queue,    *)
(* the last job first.  LobbyInv is these together.                        *)
(***************************************************************************)
EXTENDS MatchServer, FiniteSetTheorems, FunctionTheorems, SequenceTheorems, TLAPS

\* A set of numbers that is not empty has a least one.
LEMMA LeastElement ==
  ASSUME NEW S, S \subseteq Nat, S # {}
  PROVE  \E least \in S : \A other \in S : least <= other
<1> DEFINE T == {1..n : n \in S}
<1>1. IsWellFoundedOn(StrictSubsetOrdering(Nat), FiniteSubsetsOf(Nat))
  BY FS_StrictSubsetOrderingWellFounded
<1>2. T \subseteq FiniteSubsetsOf(Nat) /\ T # {}
  <2>1. \A n \in S : 1..n \subseteq Nat /\ IsFiniteSet(1..n)
    BY FS_Interval
  <2> QED  BY <2>1 DEF FiniteSubsetsOf
<1>3. PICK x \in T : \A y \in T : ~ (<<y, x>> \in StrictSubsetOrdering(Nat))
  <2> HIDE DEF T
  <2> QED  BY <1>1, <1>2, WFMin, Zenon
<1>4. PICK m \in S : x = 1..m
  OBVIOUS
<1>5. ASSUME NEW k \in S, k < m PROVE FALSE
  <2>1. 1..k \in T /\ 1..k \subseteq Nat /\ 1..m \subseteq Nat
    OBVIOUS
  <2>2. m \in 1..m /\ m \notin 1..k
    BY <1>5
  <2>3. 1..k \subseteq 1..m /\ 1..k # 1..m
    BY <1>5, <2>2
  <2> HIDE DEF T
  <2> QED  BY <1>3, <1>4, <2>1, <2>3 DEF StrictSubsetOrdering
<1> QED  BY <1>5
-----------------------------------------------------------------------------
(***************************************************************************)
(***************************************************************************)
(* Rooms                                                                   *)
(***************************************************************************)
(***************************************************************************)
\* A well-formed room: no more members than places, each once and in a slot of
\* their own, the first of them the host; closing, or new, when nobody is left.
RoomOK(room) ==
    /\ room \in RoomRecord
    /\ Len(room.members) <= Capacity
    /\ \A i, k \in 1..Len(room.members) : i # k =>
          /\ room.members[i].sid # room.members[k].sid
          /\ room.members[i].slot # room.members[k].slot
    /\ room.members # <<>> => room.state # "Closing" /\ room.host = room.members[1].sid
    /\ room.members = <<>> => room.state = "Closing" \/ room = NewRoom(room.locked)

\* The roster of a room is the players its members are.
LEMMA RosterOf ==
  ASSUME NEW room, room.members \in Seq(Member), NEW s
  PROVE  s \in Roster(room) <=> \E i \in 1..Len(room.members) : room.members[i].sid = s
<1>1. Range(room.members) = {room.members[i] : i \in 1..Len(room.members)}
  BY RangeEquality
<1> QED  BY <1>1 DEF Roster

\* A new room is well-formed, and nobody is in it.
LEMMA NewRoomIsOK ==
  ASSUME NEW locked \in BOOLEAN
  PROVE  RoomOK(NewRoom(locked)) /\ Roster(NewRoom(locked)) = {}
<1>1. <<>> \in Seq(Member) /\ Len(<<>>) = 0
  BY EmptySeq
<1>2. NewRoom(locked) \in RoomRecord
  BY <1>1 DEF NewRoom, RoomRecord, RoomState
<1>3. NewRoom(locked).members = <<>> /\ NewRoom(locked).locked = locked
  BY DEF NewRoom
<1>4. ASSUME NEW s PROVE s \notin Roster(NewRoom(locked))
  <2>1. s \in Roster(NewRoom(locked)) <=>
            \E i \in 1..Len(NewRoom(locked).members) : NewRoom(locked).members[i].sid = s
    BY <1>1, <1>3, RosterOf
  <2> QED  BY <1>1, <1>3, <2>1
<1> QED  BY <1>1, <1>2, <1>3, <1>4, RoomAssumption DEF RoomOK

\* There are as many slots as a room has places.
LEMMA SlotCount == IsFiniteSet(Slot) /\ Cardinality(Slot) = Capacity
<1>1. 0 \in Int /\ Capacity - 1 \in Int /\ ~(0 > Capacity - 1) /\ (Capacity - 1) - 0 + 1 = Capacity
  BY RoomAssumption
<1>2. /\ IsFiniteSet(0..(Capacity - 1))
      /\ Cardinality(0..(Capacity - 1)) = IF 0 > Capacity - 1 THEN 0 ELSE (Capacity - 1) - 0 + 1
  BY <1>1, FS_Interval
<1> QED  BY <1>1, <1>2 DEF Slot

\* AllocateSlot finds a slot no member has, as long as the room is not full
\* (the least one: that it is the least does not matter here).
LEMMA SlotIsFree ==
  ASSUME NEW room, RoomOK(room), Len(room.members) < Capacity
  PROVE  /\ AllocateSlot(room) \in Slot
         /\ \A i \in 1..Len(room.members) : room.members[i].slot # AllocateSlot(room)
<1> DEFINE used == {m.slot : m \in Range(room.members)}
           free == Slot \ used
           n == Len(room.members)
<1>1. room.members \in Seq(Member) /\ n \in Nat
  BY DEF RoomOK, RoomRecord
<1>2. Range(room.members) = {room.members[i] : i \in 1..n}
  BY <1>1, RangeEquality
<1>3. used = {room.members[i].slot : i \in 1..n}
  BY <1>2
<1>4. free # {}
  <2> SUFFICES ASSUME Slot \subseteq used PROVE FALSE
    <3> HIDE DEF used
    <3> QED  OBVIOUS
  <2>1. IsFiniteSet(1..n) /\ Cardinality(1..n) = n
    <3>1. 1 \in Int /\ n \in Int
      BY <1>1
    <3>2. IsFiniteSet(1..n) /\ Cardinality(1..n) = IF 1 > n THEN 0 ELSE n - 1 + 1
      <4> HIDE DEF n
      <4> QED  BY <3>1, FS_Interval
    <3>3. (IF 1 > n THEN 0 ELSE n - 1 + 1) = n
      BY <1>1
    <3> QED  BY <3>2, <3>3
  <2>2. IsFiniteSet(Slot) /\ Cardinality(Slot) = Capacity
    BY SlotCount
  <2> DEFINE f == [i \in 1..n |-> room.members[i].slot]
  <2>3. f \in Surjection(1..n, used)
    BY <1>3 DEF Surjection
  <2>4. IsFiniteSet(used) /\ Cardinality(used) <= n
    <3> HIDE DEF f, used
    <3> QED  BY <2>1, <2>3, FS_Surjection
  <2>5. Cardinality(Slot) <= Cardinality(used)
    BY <2>4, FS_Subset
  <2>6. Cardinality(used) \in Nat
    BY <2>4, FS_CardinalityType
  <2> QED  BY <1>1, <2>2, <2>4, <2>5, <2>6, RoomAssumption
<1>5. \E slot \in free : \A other \in free : slot <= other
  <2>1. free \subseteq Nat
    BY RoomAssumption DEF Slot
  <2> HIDE DEF free
  <2> QED  BY <1>4, <2>1, LeastElement
<1>6. AllocateSlot(room) \in free
  BY <1>5 DEF AllocateSlot
<1> QED  BY <1>3, <1>6

\* Admitting somebody a room does not refuse keeps the room well-formed and
\* puts them, and nobody else, on its roster.
LEMMA AdmitIsOK ==
  ASSUME NEW room, RoomOK(room), NEW s \in Session, NEW opens, NEW lapsed,
         ~Refuses(room, s, opens, lapsed)
  PROVE  /\ RoomOK(Admit(room, s))
         /\ Roster(Admit(room, s)) = Roster(room) \cup {s}
         /\ Admit(room, s).members # <<>>
         /\ Admit(room, s).state = "Waiting"
<1> DEFINE new == [sid |-> s, slot |-> AllocateSlot(room), ready |-> FALSE]
           then == Admit(room, s)
           n == Len(room.members)
<1>1. room \in RoomRecord /\ room.members \in Seq(Member) /\ n \in Nat
  BY DEF RoomOK, RoomRecord
<1>2. room.state = "Waiting" /\ n < Capacity /\ s \notin Roster(room)
  BY <1>1, RoomAssumption DEF Refuses
<1>3. AllocateSlot(room) \in Slot /\ \A i \in 1..n : room.members[i].slot # AllocateSlot(room)
  BY <1>2, SlotIsFree
<1>4. new \in Member
  BY <1>3 DEF Member
<1>5. /\ then.members = Append(room.members, new)
      /\ then.host = (IF room.members = <<>> THEN s ELSE room.host)
      /\ then.cooldown = room.cooldown \ {s}
      /\ then.state = room.state /\ then.locked = room.locked
  BY <1>1 DEF Admit, RoomRecord
<1>13. Append(room.members, new) \in Seq(Member) => then \in RoomRecord
  BY <1>1 DEF Admit, RoomRecord
<1> HIDE DEF then
<1>6. /\ then.members \in Seq(Member) /\ then.members # <<>> /\ Len(then.members) = n + 1
      /\ \A i \in 1..n : then.members[i] = room.members[i]
      /\ then.members[n + 1] = new
  BY <1>1, <1>4, <1>5, AppendProperties
<1>7. then \in RoomRecord
  BY <1>5, <1>6, <1>13
<1>8. \A i \in 1..n : room.members[i].sid # s
  BY <1>1, <1>2, RosterOf
<1>9. \A i, k \in 1..n + 1 : i # k =>
          /\ then.members[i].sid # then.members[k].sid
          /\ then.members[i].slot # then.members[k].slot
  <2>1. ASSUME NEW i \in 1..n + 1, NEW k \in 1..n + 1, i # k
        PROVE  /\ then.members[i].sid # then.members[k].sid
               /\ then.members[i].slot # then.members[k].slot
    <3>1. CASE i = n + 1
      BY <1>1, <1>3, <1>6, <1>8, <2>1, <3>1
    <3>2. CASE k = n + 1
      BY <1>1, <1>3, <1>6, <1>8, <2>1, <3>2
    <3>3. CASE i \in 1..n /\ k \in 1..n
      <4>1. /\ room.members[i].sid # room.members[k].sid
            /\ room.members[i].slot # room.members[k].slot
        BY <2>1, <3>3 DEF RoomOK
      <4> QED  BY <1>6, <3>3, <4>1
    <3> QED  BY <1>1, <3>1, <3>2, <3>3
  <2> QED  BY <2>1
<1>10. then.host = then.members[1].sid
  <2>1. CASE room.members = <<>>
    BY <1>5, <1>6, <2>1, EmptySeq
  <2>2. CASE room.members # <<>>
    BY <1>1, <1>5, <1>6, <2>2, EmptySeq DEF RoomOK
  <2> QED  BY <2>1, <2>2
<1>11. RoomOK(then)
  BY <1>1, <1>2, <1>5, <1>6, <1>7, <1>9, <1>10, RoomAssumption DEF RoomOK
<1>12. \A x : x \in Roster(then) <=> x \in Roster(room) \cup {s}
  <2> TAKE x
  <2>1. x \in Roster(then) <=> \E i \in 1..n + 1 : then.members[i].sid = x
    BY <1>6, RosterOf
  <2>2. x \in Roster(room) <=> \E i \in 1..n : room.members[i].sid = x
    BY <1>1, RosterOf
  <2>3. then.members[n + 1].sid = s
    BY <1>6
  <2>4. 1..n + 1 = 1..n \cup {n + 1}
    BY <1>1
  <2> QED  BY <1>6, <2>1, <2>2, <2>3, <2>4
<1> QED  BY <1>2, <1>5, <1>6, <1>11, <1>12 DEF then

\* What RemoveAt leaves, element by element.
LEMMA RemoveAtProperties ==
  ASSUME NEW S, NEW seq \in Seq(S), NEW i \in 1..Len(seq)
  PROVE  /\ RemoveAt(seq, i) \in Seq(S)
         /\ Len(RemoveAt(seq, i)) = Len(seq) - 1
         /\ \A k \in 1..Len(seq) - 1 :
               RemoveAt(seq, i)[k] = IF k < i THEN seq[k] ELSE seq[k + 1]
<1> DEFINE n == Len(seq)  before == SubSeq(seq, 1, i - 1)  after == SubSeq(seq, i + 1, n)
<1>1. n \in Nat /\ \A k \in 1..n : seq[k] \in S
  BY LenProperties, ElementOfSeq
<1>2. /\ before \in Seq(S) /\ Len(before) = i - 1
      /\ \A k \in 1..i - 1 : before[k] = seq[k]
  <2>1. \A k \in 1..i - 1 : seq[k] \in S
    BY <1>1
  <2>2. /\ before \in Seq(S)
        /\ Len(before) = IF 1 <= i - 1 THEN (i - 1) - 1 + 1 ELSE 0
        /\ \A k \in 1..(i - 1) - 1 + 1 : before[k] = seq[1 + k - 1]
    BY <1>1, <2>1, SubSeqProperties
  <2> QED  BY <1>1, <2>2
<1>3. /\ after \in Seq(S) /\ Len(after) = n - i
      /\ \A k \in 1..n - i : after[k] = seq[k + i]
  <2>1. \A k \in i + 1..n : seq[k] \in S
    BY <1>1
  <2>2. /\ after \in Seq(S)
        /\ Len(after) = IF i + 1 <= n THEN n - (i + 1) + 1 ELSE 0
        /\ \A k \in 1..n - (i + 1) + 1 : after[k] = seq[(i + 1) + k - 1]
    BY <1>1, <2>1, SubSeqProperties
  <2> QED  BY <1>1, <2>2
<1>4. RemoveAt(seq, i) = before \o after
  BY DEF RemoveAt
<1> HIDE DEF before, after
<1>5. /\ before \o after \in Seq(S)
      /\ Len(before \o after) = Len(before) + Len(after)
      /\ \A k \in 1..Len(before) + Len(after) : (before \o after)[k] =
            IF k <= Len(before) THEN before[k] ELSE after[k - Len(before)]
  <2>1. before \in Seq(S) /\ after \in Seq(S)
    BY <1>2, <1>3
  <2> QED  BY <2>1, ConcatProperties
<1>7. RemoveAt(seq, i) \in Seq(S) /\ Len(RemoveAt(seq, i)) = n - 1 /\
        Len(before) + Len(after) = n - 1
  BY <1>1, <1>2, <1>3, <1>4, <1>5
<1>6. ASSUME NEW k \in 1..n - 1
      PROVE  (before \o after)[k] = IF k < i THEN seq[k] ELSE seq[k + 1]
  <2>1. (before \o after)[k] = IF k <= i - 1 THEN before[k] ELSE after[k - (i - 1)]
    BY <1>2, <1>5, <1>7
  <2>2. CASE k < i
    BY <1>1, <1>2, <2>1, <2>2
  <2>3. CASE k >= i
    <3>1. k - (i - 1) \in 1..n - i /\ (k - (i - 1)) + i = k + 1
      BY <1>1, <2>3
    <3>2. (before \o after)[k] = after[k - (i - 1)]
      BY <1>1, <2>1, <2>3
    <3>3. after[k - (i - 1)] = seq[(k - (i - 1)) + i]
      BY <1>3, <3>1
    <3>4. seq[(k - (i - 1)) + i] = seq[k + 1]
      BY <3>1
    <3>5. ~(k < i)
      BY <1>1, <2>3
    <3> QED  BY <3>2, <3>3, <3>4, <3>5
  <2>4. k < i \/ k >= i
    BY <1>1
  <2> QED  BY <2>2, <2>3, <2>4
<1> QED  BY <1>4, <1>6, <1>7

\* Dropping a member keeps the room well-formed: the host is again the one who
\* has been there longest, and the room closes exactly behind the last one.
LEMMA DropIsOK ==
  ASSUME NEW room, RoomOK(room), NEW s, s \in Roster(room)
  PROVE  /\ RoomOK(Drop(room, s))
         /\ Roster(Drop(room, s)) = Roster(room) \ {s}
         /\ Drop(room, s).state \in {"Waiting", "InGame", "Closing"}
         /\ Drop(room, s).state = "Closing" <=> Drop(room, s).members = <<>>
         /\ room.state # "Starting" => Drop(room, s).state \in {"Closing", room.state}
<1> DEFINE it == CHOOSE i \in DOMAIN room.members : room.members[i].sid = s
           remaining == RemoveAt(room.members, it)
           then == Drop(room, s)
           n == Len(room.members)
<1>1. room \in RoomRecord /\ room.members \in Seq(Member) /\ n \in Nat /\ DOMAIN room.members = 1..n
  BY LenProperties DEF RoomOK, RoomRecord
<1>2. it \in 1..n /\ room.members[it].sid = s
  <2>1. \E i \in 1..n : room.members[i].sid = s
    BY <1>1, RosterOf
  <2> QED  BY <1>1, <2>1
<1> HIDE DEF it
<1>3. /\ remaining \in Seq(Member) /\ Len(remaining) = n - 1
      /\ \A k \in 1..n - 1 : remaining[k] = IF k < it THEN room.members[k] ELSE room.members[k + 1]
  BY <1>1, <1>2, RemoveAtProperties
<1>4. room.members # <<>> /\ room.state # "Closing" /\ room.host = room.members[1].sid
  <2>1. room.members # <<>>
    BY <1>1, <1>2, EmptySeq
  <2> QED  BY <2>1 DEF RoomOK
<1>5. then = IF remaining = <<>>
             THEN [room EXCEPT !.members = remaining, !.state = "Closing"]
             ELSE [room EXCEPT
                     !.members = remaining,
                     !.host = IF @ = s THEN PromoteNextHost(remaining) ELSE @,
                     !.state = IF @ = "Starting" THEN "Waiting" ELSE @]
  BY DEF Drop, it
<1> HIDE DEF remaining, then
<1>6. /\ then.members = remaining /\ then.locked = room.locked /\ then.cooldown = room.cooldown
      /\ remaining = <<>> => then.state = "Closing" /\ then.host = room.host
      /\ remaining # <<>> =>
            /\ then.state = IF room.state = "Starting" THEN "Waiting" ELSE room.state
            /\ then.host = IF room.host = s THEN PromoteNextHost(remaining) ELSE room.host
  BY <1>1, <1>5 DEF RoomRecord
<1>7. remaining # <<>> => PromoteNextHost(remaining) = remaining[1].sid /\ remaining[1] \in Member
  BY <1>3, HeadTailProperties DEF PromoteNextHost
<1>8. then \in RoomRecord
  <2>1. remaining # <<>> => PromoteNextHost(remaining) \in Session
    BY <1>7 DEF Member
  <2> QED  BY <1>1, <1>3, <1>5, <2>1 DEF RoomRecord, RoomState
<1>9. \A k \in 1..n - 1 : remaining[k].sid # s
  <2> TAKE k \in 1..n - 1
  <2>1. CASE k < it
    <3>1. k \in 1..n /\ k # it /\ remaining[k] = room.members[k]
      BY <1>1, <1>2, <1>3, <2>1
    <3> QED  BY <1>2, <3>1 DEF RoomOK
  <2>2. CASE ~(k < it)
    <3>1. k + 1 \in 1..n /\ k + 1 # it /\ remaining[k] = room.members[k + 1]
      BY <1>1, <1>2, <1>3, <2>2
    <3> QED  BY <1>2, <3>1 DEF RoomOK
  <2> QED  BY <2>1, <2>2
<1>10. \A i, k \in 1..n - 1 : i # k =>
          remaining[i].sid # remaining[k].sid /\ remaining[i].slot # remaining[k].slot
  <2> TAKE i, k \in 1..n - 1
  <2> HAVE i # k
  <2> DEFINE at(x) == IF x < it THEN x ELSE x + 1
  <2>1. /\ at(i) \in 1..n /\ at(k) \in 1..n /\ at(i) # at(k)
    BY <1>1, <1>2
  <2>2. remaining[i] = room.members[at(i)] /\ remaining[k] = room.members[at(k)]
    BY <1>3
  <2> HIDE DEF at
  <2> QED  BY <2>1, <2>2 DEF RoomOK
<1>11. remaining # <<>> => then.host = remaining[1].sid
  <2> HAVE remaining # <<>>
  <2>1. n - 1 >= 1 /\ remaining[1] = IF 1 < it THEN room.members[1] ELSE room.members[2]
    BY <1>1, <1>3, EmptySeq
  <2>2. CASE it = 1
    BY <1>2, <1>4, <1>6, <1>7, <2>2
  <2>3. CASE it # 1
    <3>1. remaining[1] = room.members[1] /\ 1 \in 1..n
      BY <1>1, <1>2, <2>1, <2>3
    <3>2. room.host # s
      BY <1>2, <1>4, <2>3, <3>1 DEF RoomOK
    <3> QED  BY <1>4, <1>6, <3>1, <3>2
  <2> QED  BY <2>2, <2>3
<1>12. RoomOK(then)
  <2>1. then.members = <<>> => then.state = "Closing"
    BY <1>6
  <2>2. then.members # <<>> => then.state # "Closing" /\ then.host = then.members[1].sid
    BY <1>4, <1>6, <1>11
  <2>3. Len(then.members) <= Capacity
    BY <1>1, <1>3, <1>6, RoomAssumption DEF RoomOK
  <2> QED  BY <1>3, <1>6, <1>8, <1>10, <2>1, <2>2, <2>3 DEF RoomOK
<1>13. \A x : x \in Roster(then) <=> x \in Roster(room) \ {s}
  <2> TAKE x
  <2>1. x \in Roster(then) <=> \E k \in 1..n - 1 : remaining[k].sid = x
    BY <1>3, <1>6, RosterOf
  <2>2. x \in Roster(room) <=> \E i \in 1..n : room.members[i].sid = x
    BY <1>1, RosterOf
  <2>3. ASSUME x \in Roster(then) PROVE x \in Roster(room) /\ x # s
    <3>1. PICK k \in 1..n - 1 : remaining[k].sid = x
      BY <2>1, <2>3
    <3>2. \E i \in 1..n : remaining[k] = room.members[i]
      BY <1>1, <1>3
    <3> QED  BY <1>9, <2>2, <3>1, <3>2
  <2>4. ASSUME x \in Roster(room), x # s PROVE x \in Roster(then)
    <3>1. PICK i \in 1..n : room.members[i].sid = x
      BY <2>2, <2>4
    <3>2. i # it
      BY <1>2, <2>4, <3>1
    <3>3. \E k \in 1..n - 1 : remaining[k] = room.members[i]
      <4>1. CASE i < it
        <5>1. i \in 1..n - 1 /\ remaining[i] = room.members[i]
          BY <1>1, <1>2, <1>3, <4>1
        <5> QED  BY <5>1
      <4>2. CASE i > it
        <5>1. i - 1 \in 1..n - 1 /\ ~(i - 1 < it) /\ (i - 1) + 1 = i
          BY <1>1, <1>2, <4>2
        <5>2. remaining[i - 1] = room.members[i]
          BY <1>3, <5>1
        <5> QED  BY <5>1, <5>2
      <4> QED  BY <1>1, <1>2, <3>2, <4>1, <4>2
    <3> QED  BY <2>1, <3>1, <3>3
  <2> QED  BY <2>3, <2>4
<1>14. then.state \in {"Waiting", "InGame", "Closing"}
  BY <1>1, <1>4, <1>6 DEF RoomRecord, RoomState
<1>15. then.state = "Closing" <=> then.members = <<>>
  BY <1>4, <1>6
<1>16. room.state # "Starting" => then.state \in {"Closing", room.state}
  BY <1>6
<1> QED  BY <1>12, <1>13, <1>14, <1>15, <1>16 DEF then

\* A kick that is allowed drops its target and keeps the room well-formed.
LEMMA KickedIsOK ==
  ASSUME NEW room, RoomOK(room), NEW s, NEW target, MayKick(room, s, target)
  PROVE  /\ target \in Roster(room)
         /\ RoomOK(Kicked(room, target))
         /\ Roster(Kicked(room, target)) = Roster(room) \ {target}
         /\ Kicked(room, target).state \in {"Waiting", "Closing"}
         /\ Kicked(room, target).state = "Closing" <=> Kicked(room, target).members = <<>>
<1> DEFINE cooled == [room EXCEPT !.cooldown = @ \cup {target}]
           n == Len(room.members)
<1>1. room.state = "Waiting" /\ target \in Roster(room)
  BY DEF MayKick
<1>2. room \in RoomRecord /\ room.members \in Seq(Member) /\ n \in Nat
  BY LenProperties DEF RoomOK, RoomRecord
<1>3. PICK i \in 1..n : room.members[i].sid = target
  BY <1>1, <1>2, RosterOf
<1>4. target \in Session
  <2>1. room.members[i] \in Member
    BY <1>2, ElementOfSeq
  <2> QED  BY <1>3, <2>1 DEF Member
<1>5. cooled \in RoomRecord
  BY <1>2, <1>4 DEF RoomRecord
<1>6. /\ cooled.members = room.members /\ cooled.state = room.state /\ cooled.host = room.host
      /\ cooled.locked = room.locked
  BY <1>2 DEF RoomRecord
<1> HIDE DEF cooled
<1>7. room.members # <<>>
  BY <1>2, <1>3, EmptySeq
<1>8. RoomOK(cooled)
  BY <1>5, <1>6, <1>7 DEF RoomOK
<1>9. Roster(cooled) = Roster(room)
  BY <1>6 DEF Roster
<1>10. Kicked(room, target) = Drop(cooled, target)
  BY DEF Kicked, cooled
<1> QED  BY <1>1, <1>6, <1>8, <1>9, <1>10, DropIsOK

\* Forgetting a cooldown changes nothing a listing or a roster shows.
LEMMA LapsedIsOK ==
  ASSUME NEW room, RoomOK(room), NEW s, room.members # <<>>
  PROVE  /\ RoomOK(Lapsed(room, s)) /\ Roster(Lapsed(room, s)) = Roster(room)
         /\ Lapsed(room, s).members = room.members
         /\ Lapsed(room, s).state = room.state
         /\ Summary(Lapsed(room, s)) = Summary(room)
<1>1. room \in RoomRecord
  BY DEF RoomOK
<1>2. Lapsed(room, s) \in RoomRecord
  BY <1>1 DEF Lapsed, RoomRecord
<1>3. /\ Lapsed(room, s).members = room.members /\ Lapsed(room, s).state = room.state
      /\ Lapsed(room, s).host = room.host /\ Lapsed(room, s).locked = room.locked
  BY <1>1 DEF Lapsed, RoomRecord
<1>4. RoomOK(Lapsed(room, s))
  BY <1>2, <1>3 DEF RoomOK
<1> QED  BY <1>3, <1>4 DEF Roster, Summary

\* Same players in the same order.
LEMMA SameMembers ==
  ASSUME NEW room, RoomOK(room), NEW then \in RoomRecord,
         Len(then.members) = Len(room.members),
         \A i \in 1..Len(room.members) :
            /\ then.members[i].sid = room.members[i].sid
            /\ then.members[i].slot = room.members[i].slot,
         then.host = room.host, room.members # <<>>, then.state # "Closing"
  PROVE  RoomOK(then) /\ Roster(then) = Roster(room) /\ then.members # <<>>
<1> DEFINE n == Len(room.members)
<1>1. room.members \in Seq(Member) /\ then.members \in Seq(Member) /\ n \in Nat /\ n >= 1
  <2>1. room.members \in Seq(Member) /\ then.members \in Seq(Member)
    BY DEF RoomOK, RoomRecord
  <2>2. Len(room.members) \in Nat \ {0}
    BY <2>1, EmptySeq
  <2> QED  BY <2>1, <2>2
<1>2. then.members # <<>>
  BY <1>1, EmptySeq
<1>3. then.host = then.members[1].sid
  <2>1. 1 \in 1..n /\ room.host = room.members[1].sid
    BY <1>1 DEF RoomOK
  <2> QED  BY <2>1
<1>4. Len(then.members) <= Capacity /\ \A i, k \in 1..n : i # k =>
          /\ then.members[i].sid # then.members[k].sid
          /\ then.members[i].slot # then.members[k].slot
  BY DEF RoomOK
<1>5. RoomOK(then)
  BY <1>2, <1>3, <1>4 DEF RoomOK
<1>6. \A x : x \in Roster(then) <=> x \in Roster(room)
  <2> TAKE x
  <2>1. x \in Roster(then) <=> \E i \in 1..n : then.members[i].sid = x
    BY <1>1, RosterOf
  <2>2. x \in Roster(room) <=> \E i \in 1..n : room.members[i].sid = x
    BY <1>1, RosterOf
  <2> QED  BY <2>1, <2>2
<1> QED  BY <1>2, <1>5, <1>6

\* A room with members stays well-formed when its state turns.
LEMMA TurnIsOK ==
  ASSUME NEW room, RoomOK(room), room.members # <<>>,
         NEW state \in {"Waiting", "Starting", "InGame"}
  PROVE  LET then == [room EXCEPT !.state = state]
         IN  /\ RoomOK(then) /\ Roster(then) = Roster(room) /\ then.members # <<>>
             /\ then.state = state
<1> DEFINE then == [room EXCEPT !.state = state]
<1>1. room \in RoomRecord
  BY DEF RoomOK
<1>2. then \in RoomRecord
  BY <1>1 DEF RoomRecord, RoomState
<1>3. then.members = room.members /\ then.host = room.host /\ then.state = state
  BY <1>1 DEF RoomRecord
<1>4. RoomOK(then) /\ Roster(then) = Roster(room) /\ then.members # <<>>
  <2> HIDE DEF then
  <2> QED  BY <1>2, <1>3, SameMembers
<1> QED  BY <1>3, <1>4

\* A function from 1..n is a sequence of length n.
LEMMA FunctionIsSeq ==
  ASSUME NEW S, NEW n \in Nat, NEW f \in [1..n -> S]
  PROVE  f \in Seq(S) /\ Len(f) = n
<1>1. f \in Seq(S)
  BY SeqDef
<1>2. Len(f) \in Nat /\ DOMAIN f = 1..Len(f)
  BY <1>1, LenProperties
<1> QED  BY <1>1, <1>2

\* A room that comes back to the lobby is well-formed, with the same players.
LEMMA ReturnedIsOK ==
  ASSUME NEW room, RoomOK(room), room.members # <<>>
  PROVE  /\ RoomOK(Returned(room)) /\ Roster(Returned(room)) = Roster(room)
         /\ Returned(room).members # <<>> /\ Returned(room).state = "Waiting"
<1> DEFINE then == Returned(room)
           n == Len(room.members)
           unready == [i \in 1..n |-> [room.members[i] EXCEPT !.ready = FALSE]]
<1>1. room \in RoomRecord /\ room.members \in Seq(Member)
  BY DEF RoomOK, RoomRecord
<1>2. n \in Nat /\ DOMAIN room.members = 1..n /\ \A i \in 1..n : room.members[i] \in Member
  BY <1>1, LenProperties, ElementOfSeq
<1>3. \A i \in 1..n :
        /\ unready[i] \in Member
        /\ unready[i].sid = room.members[i].sid /\ unready[i].slot = room.members[i].slot
  BY <1>2 DEF Member
<1>4. unready \in Seq(Member) /\ Len(unready) = n
  <2>1. unready \in [1..n -> Member]
    BY <1>2, <1>3
  <2> HIDE DEF unready
  <2> QED  BY <1>2, <2>1, FunctionIsSeq
<1>5. then = [room EXCEPT !.state = "Waiting", !.members = unready]
  BY <1>1, <1>2 DEF Returned, RoomRecord
<1> HIDE DEF unready, then
<1>6. then \in RoomRecord
  BY <1>1, <1>4, <1>5 DEF RoomRecord, RoomState
<1>7. then.members = unready /\ then.host = room.host /\ then.state = "Waiting"
  BY <1>1, <1>5 DEF RoomRecord
<1>8. RoomOK(then) /\ Roster(then) = Roster(room) /\ then.members # <<>>
  BY <1>3, <1>4, <1>6, <1>7, SameMembers
<1> QED  BY <1>7, <1>8 DEF then

\* Readiness changes neither the players of a room nor its listing.
LEMMA SetReadyIsOK ==
  ASSUME NEW room, RoomOK(room), room.members # <<>>, NEW s, NEW ready \in BOOLEAN
  PROVE  /\ RoomOK(SetReady(room, s, ready))
         /\ Roster(SetReady(room, s, ready)) = Roster(room)
         /\ SetReady(room, s, ready).members # <<>>
         /\ SetReady(room, s, ready).state = room.state
         /\ Summary(SetReady(room, s, ready)) = Summary(room)
<1> DEFINE then == SetReady(room, s, ready)
           n == Len(room.members)
           set == [i \in 1..n |-> IF room.members[i].sid = s
                                  THEN [room.members[i] EXCEPT !.ready = ready]
                                  ELSE room.members[i]]
<1>1. room \in RoomRecord /\ room.members \in Seq(Member)
  BY DEF RoomOK, RoomRecord
<1>2. n \in Nat /\ DOMAIN room.members = 1..n /\ \A i \in 1..n : room.members[i] \in Member
  BY <1>1, LenProperties, ElementOfSeq
<1>3. CASE room.state # "Waiting"
  BY <1>3 DEF SetReady
<1>4. CASE room.state = "Waiting"
  <2>1. \A i \in 1..n :
          /\ set[i] \in Member
          /\ set[i].sid = room.members[i].sid /\ set[i].slot = room.members[i].slot
    BY <1>2 DEF Member
  <2>2. set \in Seq(Member) /\ Len(set) = n
    <3>1. set \in [1..n -> Member]
      BY <1>2, <2>1
    <3> HIDE DEF set
    <3> QED  BY <1>2, <3>1, FunctionIsSeq
  <2>3. then = [room EXCEPT !.members = set]
    BY <1>1, <1>2, <1>4 DEF SetReady, RoomRecord
  <2> HIDE DEF set, then
  <2>4. then \in RoomRecord
    BY <1>1, <2>2, <2>3 DEF RoomRecord
  <2>5. /\ then.members = set /\ then.host = room.host /\ then.state = "Waiting"
        /\ then.locked = room.locked
    BY <1>1, <1>4, <2>3 DEF RoomRecord
  <2>6. RoomOK(then) /\ Roster(then) = Roster(room) /\ then.members # <<>>
    BY <2>1, <2>2, <2>4, <2>5, SameMembers
  <2>7. Summary(then) = Summary(room)
    BY <1>4, <2>2, <2>5 DEF Summary
  <2> QED  BY <1>4, <2>5, <2>6, <2>7 DEF then
<1> QED  BY <1>3, <1>4

\* There is nobody in an empty room to become ready.
LEMMA NobodyReady ==
  ASSUME NEW room, RoomOK(room), room.members = <<>>, NEW s, NEW ready
  PROVE  SetReady(room, s, ready) = room
<1>1. room \in RoomRecord /\ DOMAIN room.members = {}
  BY DEF RoomOK
<1>2. [i \in DOMAIN room.members |->
          IF room.members[i].sid = s THEN [room.members[i] EXCEPT !.ready = ready]
          ELSE room.members[i]] = <<>>
  BY <1>1
<1>3. [room EXCEPT !.members = <<>>] = room
  BY <1>1 DEF RoomRecord
<1> QED  BY <1>2, <1>3 DEF SetReady

-----------------------------------------------------------------------------
(***************************************************************************)
(* Jobs                                                                    *)
(***************************************************************************)
\* The fields a job of a room has.
LEMMA RoomJobFields ==
  ASSUME NEW job \in RoomJob
  PROVE  /\ job.op \in {"join", "leave", "start", "kick", "ready", "tickets", "failed", "running",
              "finished"}
         /\ job.op = "join" => /\ job.who \in Session /\ job.opens \in BOOLEAN
                               /\ job.rest \in Seq(RoomId)
         /\ job.op \in {"leave", "start", "kick", "ready"} => job.who \in Session
         /\ job.op = "kick" => job.target \in Session
         /\ job.op = "ready" => job.ready \in BOOLEAN
         /\ job.op = "tickets" => job.instance \in InstanceId /\ job.roster \in SUBSET Session
  BY DEF RoomJob

\* The fields a job of the server has.
LEMMA ServerJobFields ==
  ASSUME NEW job \in ServerJob
  PROVE  /\ job.op \in {"enter", "exit", "closed", "begin", "created", "live", "over", "sweep"}
         /\ job.op \in {"enter", "exit"} => job.who \in SUBSET Session /\ job.channel \in Channel
         /\ job.op = "closed" => job.who \in Session
         /\ job.op = "begin" => job.room \in RoomId /\ job.roster \in SUBSET Session
         /\ job.op \in {"created", "live", "over"} => job.instance \in InstanceId
         /\ job.op = "created" => job.ok \in BOOLEAN
  BY DEF ServerJob

\* The jobs the actions post to rooms are jobs of rooms.
LEMMA RoomJobsMade ==
  /\ \A s \in Session, opens \in BOOLEAN, via \in {"hand", "match", "opened"},
       rest \in Seq(RoomId) :
        /\ JoinJob(s, opens, via, rest) \in RoomJob
        /\ JoinJob(s, opens, via, rest).op = "join"
        /\ JoinJob(s, opens, via, rest).opens = opens
  /\ \A s \in Session : LeaveJob(s) \in RoomJob /\ [op |-> "start", who |-> s] \in RoomJob
  /\ \A s, target \in Session : [op |-> "kick", who |-> s, target |-> target] \in RoomJob
  /\ \A s \in Session, ready \in BOOLEAN : [op |-> "ready", who |-> s, ready |-> ready] \in RoomJob
  /\ \A i \in InstanceId, roster \in SUBSET Session :
        [op |-> "tickets", instance |-> i, roster |-> roster] \in RoomJob
  /\ \A roster \in SUBSET Session :
        RunningJob(roster) \in RoomJob /\ RunningJob(roster).op = "running"
  /\ FailedJob \in RoomJob /\ [op |-> "finished"] \in RoomJob
<1>1. \A s \in Session, opens \in BOOLEAN, via \in {"hand", "match", "opened"},
        rest \in Seq(RoomId) :
        /\ JoinJob(s, opens, via, rest) \in RoomJob
        /\ JoinJob(s, opens, via, rest).op = "join"
        /\ JoinJob(s, opens, via, rest).opens = opens
  BY DEF RoomJob, JoinJob
<1>2. \A s \in Session : LeaveJob(s) \in RoomJob /\ [op |-> "start", who |-> s] \in RoomJob
  BY DEF RoomJob, LeaveJob
<1>3. /\ \A s, target \in Session : [op |-> "kick", who |-> s, target |-> target] \in RoomJob
      /\ \A s \in Session, ready \in BOOLEAN : [op |-> "ready", who |-> s,
           ready |-> ready] \in RoomJob
  BY DEF RoomJob
<1>4. \A i \in InstanceId, roster \in SUBSET Session :
        [op |-> "tickets", instance |-> i, roster |-> roster] \in RoomJob
  BY DEF RoomJob
<1>5. /\ \A roster \in SUBSET Session :
            RunningJob(roster) \in RoomJob /\ RunningJob(roster).op = "running"
      /\ FailedJob \in RoomJob /\ [op |-> "finished"] \in RoomJob
  BY DEF RoomJob, FailedJob, RunningJob
<1> QED  BY <1>1, <1>2, <1>3, <1>4, <1>5

\* The jobs the actions post to the server are jobs of the server.
LEMMA ServerJobsMade ==
  /\ \A players \in SUBSET Session, channel \in Channel :
        EnterJob(players, channel) \in ServerJob /\ ExitJob(players, channel) \in ServerJob
  /\ \A s \in Session : [op |-> "closed", who |-> s] \in ServerJob
  /\ \A r \in RoomId, roster \in SUBSET Session :
        [op |-> "begin", room |-> r, roster |-> roster] \in ServerJob
  /\ \A i \in InstanceId, ok \in BOOLEAN : [op |-> "created", instance |-> i,
       ok |-> ok] \in ServerJob
  /\ \A i \in InstanceId : /\ [op |-> "live", instance |-> i] \in ServerJob
                           /\ [op |-> "over", instance |-> i] \in ServerJob
  /\ [op |-> "sweep"] \in ServerJob
<1>1. \A players \in SUBSET Session, channel \in Channel :
        EnterJob(players, channel) \in ServerJob /\ ExitJob(players, channel) \in ServerJob
  BY DEF ServerJob, EnterJob, ExitJob
<1>2. /\ \A s \in Session : [op |-> "closed", who |-> s] \in ServerJob
      /\ \A r \in RoomId, roster \in SUBSET Session :
           [op |-> "begin", room |-> r, roster |-> roster] \in ServerJob
  BY DEF ServerJob
<1>3. /\ \A i \in InstanceId, ok \in BOOLEAN : [op |-> "created", instance |-> i,
           ok |-> ok] \in ServerJob
      /\ \A i \in InstanceId : /\ [op |-> "live", instance |-> i] \in ServerJob
                               /\ [op |-> "over", instance |-> i] \in ServerJob
      /\ [op |-> "sweep"] \in ServerJob
  BY DEF ServerJob
<1> QED  BY <1>1, <1>2, <1>3

\* Append, element by element.
LEMMA Appended ==
  ASSUME NEW S, NEW jobs \in Seq(S), NEW job \in S
  PROVE  /\ Append(jobs, job) \in Seq(S)
         /\ Len(jobs) \in Nat
         /\ DOMAIN jobs = 1..Len(jobs)
         /\ DOMAIN Append(jobs, job) = 1..Len(jobs) + 1
         /\ \A n \in 1..Len(jobs) : Append(jobs, job)[n] = jobs[n]
         /\ Append(jobs, job)[Len(jobs) + 1] = job
  BY AppendProperties, LenProperties

\* Head and Tail, element by element.
LEMMA Dropped ==
  ASSUME NEW S, NEW jobs \in Seq(S), jobs # <<>>
  PROVE  /\ Tail(jobs) \in Seq(S)
         /\ Head(jobs) = jobs[1] /\ Head(jobs) \in S
         /\ Len(jobs) \in Nat \ {0}
         /\ DOMAIN jobs = 1..Len(jobs)
         /\ DOMAIN Tail(jobs) = 1..Len(jobs) - 1
         /\ \A n \in 1..Len(jobs) - 1 : Tail(jobs)[n] = jobs[n + 1]
<1>1. Len(jobs) \in Nat \ {0} /\ DOMAIN jobs = 1..Len(jobs)
  BY EmptySeq, LenProperties
<1>2. Tail(jobs) \in Seq(S) /\ Len(Tail(jobs)) = Len(jobs) - 1 /\ Head(jobs) \in S
      /\ \A i \in 1 .. Len(Tail(jobs)) : Tail(jobs)[i] = jobs[i+1]
  BY HeadTailProperties
<1>3. DOMAIN Tail(jobs) = 1..Len(jobs) - 1
  BY <1>2, LenProperties
<1>4. Head(jobs) = jobs[1]
  OBVIOUS
<1> QED  BY <1>1, <1>2, <1>3, <1>4

\* The last job of a queue has the last word on what will be known.
LEMMA KnownAppend ==
  ASSUME NEW known, NEW S, NEW jobs \in Seq(S), NEW job \in S, NEW m \in Session \X Channel
  PROVE  m \in Known(known, Append(jobs, job)) <=>
            Enters(job, m) \/ (m \in Known(known, jobs) /\ ~Removes(job, m))
<1> DEFINE n == Len(jobs)  then == Append(jobs, job)
<1>1. /\ n \in Nat /\ DOMAIN jobs = 1..n /\ DOMAIN then = 1..n + 1
      /\ \A k \in 1..n : then[k] = jobs[k]
      /\ then[n + 1] = job
  BY Appended
<1>2. ~(Enters(job, m) /\ Removes(job, m))
  BY DEF Enters, Removes
<1>3. m \in Known(known, jobs) <=>
        \/ m \in known /\ \A k \in 1..n : ~Removes(jobs[k], m)
        \/ \E k \in 1..n : Enters(jobs[k], m) /\ \A l \in 1..n : l > k => ~Removes(jobs[l], m)
  BY <1>1 DEF Known
<1>4. m \in Known(known, then) <=>
        \/ m \in known /\ \A k \in 1..n + 1 : ~Removes(then[k], m)
        \/ \E k \in 1..n + 1 : Enters(then[k], m) /\ \A l \in 1..n + 1 : l > k =>
             ~Removes(then[l], m)
  BY <1>1 DEF Known
<1> HIDE DEF then
<1>5. 1..n + 1 = 1..n \cup {n + 1}
  BY <1>1
<1>6. (\A k \in 1..n + 1 : ~Removes(then[k], m)) <=>
          (\A k \in 1..n : ~Removes(jobs[k], m)) /\ ~Removes(job, m)
  BY <1>1, <1>5
<1>7. ASSUME NEW k \in 1..n
      PROVE  (Enters(then[k], m) /\ \A l \in 1..n + 1 : l > k => ~Removes(then[l], m)) <=>
             (Enters(jobs[k], m) /\ (\A l \in 1..n : l > k => ~Removes(jobs[l], m)) /\
               ~Removes(job, m))
  <2>1. n + 1 > k
    BY <1>1
  <2> QED  BY <1>1, <1>5, <2>1
<1>8. (Enters(then[n + 1], m) /\ \A l \in 1..n + 1 : l > n + 1 => ~Removes(then[l], m)) <=>
        Enters(job, m)
  BY <1>1
<1>9. (\E k \in 1..n + 1 : Enters(then[k], m) /\ \A l \in 1..n + 1 : l > k => ~Removes(then[l], m))
      <=> \/ Enters(job, m)
          \/ \E k \in 1..n : Enters(jobs[k], m) /\ (\A l \in 1..n : l > k => ~Removes(jobs[l],
               m)) /\ ~Removes(job, m)
  BY <1>5, <1>7, <1>8
<1> QED  BY <1>2, <1>3, <1>4, <1>6, <1>9 DEF then

\* Jobs that enter nobody can only take away from what will be known.
LEMMA KnownConcat ==
  ASSUME NEW known, NEW S, NEW jobs \in Seq(S), NEW more \in Seq(S), NEW m \in Session \X Channel,
         \A k \in 1..Len(more) : ~Enters(more[k], m)
  PROVE  m \in Known(known, jobs \o more) <=>
            m \in Known(known, jobs) /\ \A k \in 1..Len(more) : ~Removes(more[k], m)
<1> DEFINE n == Len(jobs)  p == Len(more)  then == jobs \o more
           Kept == \A k \in 1..p : ~Removes(more[k], m)
<1>1. /\ n \in Nat /\ p \in Nat /\ DOMAIN jobs = 1..n /\ DOMAIN then = 1..n + p
      /\ \A k \in 1..n + p : then[k] = IF k <= n THEN jobs[k] ELSE more[k - n]
  BY ConcatProperties, LenProperties
<1>2. m \in Known(known, jobs) <=>
        \/ m \in known /\ \A k \in 1..n : ~Removes(jobs[k], m)
        \/ \E k \in 1..n : Enters(jobs[k], m) /\ \A l \in 1..n : l > k => ~Removes(jobs[l], m)
  BY <1>1 DEF Known
<1>3. m \in Known(known, then) <=>
        \/ m \in known /\ \A k \in 1..n + p : ~Removes(then[k], m)
        \/ \E k \in 1..n + p : Enters(then[k], m) /\ \A l \in 1..n + p : l > k =>
             ~Removes(then[l], m)
  BY <1>1 DEF Known
<1> HIDE DEF then
<1>4. \A k \in 1..n : k \in 1..n + p /\ then[k] = jobs[k]
  BY <1>1
<1>5. \A k \in 1..p : n + k \in 1..n + p /\ then[n + k] = more[k] /\ n + k > n
  <2> TAKE k \in 1..p
  <2>1. n + k \in 1..n + p /\ ~(n + k <= n) /\ (n + k) - n = k
    BY <1>1
  <2> QED  BY <1>1, <2>1
<1>6. \A k \in 1..n + p : k \in 1..n \/ (k - n \in 1..p /\ then[k] = more[k - n])
  BY <1>1
<1>7. (\A k \in 1..n + p : ~Removes(then[k], m)) <=> (\A k \in 1..n : ~Removes(jobs[k], m)) /\ Kept
  BY <1>1, <1>4, <1>5, <1>6
<1>8. ASSUME NEW k \in 1..n
      PROVE  (\A l \in 1..n + p : l > k => ~Removes(then[l], m)) <=>
             (\A l \in 1..n : l > k => ~Removes(jobs[l], m)) /\ Kept
  <2>1. \A l \in 1..p : n + l > k
    BY <1>1
  <2> QED  BY <1>4, <1>5, <1>6, <2>1
<1>9. (\E k \in 1..n + p : Enters(then[k], m) /\ \A l \in 1..n + p : l > k => ~Removes(then[l], m))
      <=> \E k \in 1..n : Enters(jobs[k], m) /\ (\A l \in 1..n : l > k => ~Removes(jobs[l], m)) /\
        Kept
  <2> HIDE DEF Kept
  <2> QED  BY <1>4, <1>6, <1>8
<1> QED  BY <1>2, <1>3, <1>7, <1>9 DEF then

\* Running the first job of the queue does not change what will be known once
\* all of them have run.
LEMMA KnownTold ==
  ASSUME NEW known, known \subseteq Session \X Channel, NEW jobs \in Seq(ServerJob), jobs # <<>>
  PROVE  Known(Told(known, Head(jobs)), Tail(jobs)) = Known(known, jobs)
<1> DEFINE n == Len(jobs)  job == Head(jobs)  after == Tail(jobs)
<1>1. /\ n \in Nat \ {0} /\ DOMAIN jobs = 1..n /\ DOMAIN after = 1..n - 1
      /\ job = jobs[1] /\ job \in ServerJob
      /\ \A k \in 1..n - 1 : after[k] = jobs[k + 1]
  BY Dropped
<1>2. ASSUME NEW m \in Session \X Channel
      PROVE  m \in Told(known, job) <=> Enters(job, m) \/ (m \in known /\ ~Removes(job, m))
  <2>1. \E s \in Session, c \in Channel : m = <<s, c>>
    OBVIOUS
  <2> HIDE DEF job
  <2>2. CASE job.op = "enter"
    BY <2>1, <2>2 DEF Told, Enters, Removes
  <2>3. CASE job.op = "exit"
    BY <2>1, <2>3 DEF Told, Enters, Removes
  <2>4. CASE job.op = "closed"
    BY <2>1, <2>4 DEF Told, Enters, Removes
  <2>5. CASE job.op \notin {"enter", "exit", "closed"}
    <3>1. Told(known, job) = known
      BY <2>5 DEF Told
    <3> QED  BY <2>5, <3>1 DEF Enters, Removes
  <2> QED  BY <2>2, <2>3, <2>4, <2>5
<1> HIDE DEF after, job
<1>3. ASSUME NEW m \in Session \X Channel
      PROVE  m \in Known(Told(known, job), after) <=> m \in Known(known, jobs)
  <2>1. m \in Known(known, jobs) <=>
          \/ m \in known /\ \A k \in 1..n : ~Removes(jobs[k], m)
          \/ \E k \in 1..n : Enters(jobs[k], m) /\ \A l \in 1..n : l > k => ~Removes(jobs[l], m)
    BY <1>1 DEF Known
  <2>2. m \in Known(Told(known, job), after) <=>
          \/ m \in Told(known, job) /\ \A k \in 1..n - 1 : ~Removes(after[k], m)
          \/ \E k \in 1..n - 1 : Enters(after[k], m) /\ \A l \in 1..n - 1 : l > k =>
               ~Removes(after[l], m)
    BY <1>1 DEF Known
  <2> DEFINE Kept == \A k \in 2..n : ~Removes(jobs[k], m)
             Later == \E k \in 2..n : Enters(jobs[k], m) /\ \A l \in 2..n : l > k =>
               ~Removes(jobs[l], m)
  <2>3. 1..n = {1} \cup 2..n
    BY <1>1
  <2>4. \A k \in 2..n : k - 1 \in 1..n - 1 /\ after[k - 1] = jobs[k]
    BY <1>1
  <2>5. \A k \in 1..n - 1 : k + 1 \in 2..n /\ after[k] = jobs[k + 1] /\ (k + 1) - 1 = k
    BY <1>1
  <2>6. (\A k \in 1..n - 1 : ~Removes(after[k], m)) <=> Kept
    BY <2>4, <2>5
  <2>7. (\E k \in 1..n - 1 : Enters(after[k], m) /\ \A l \in 1..n - 1 : l > k =>
          ~Removes(after[l], m))
        <=> Later
    <3>1. ASSUME NEW k \in 1..n - 1, Enters(after[k], m), \A l \in 1..n - 1 : l > k =>
                 ~Removes(after[l], m)
          PROVE  Later
      <4>1. Enters(jobs[k + 1], m) /\ k + 1 \in 2..n
        BY <2>5, <3>1
      <4>2. \A l \in 2..n : l > k + 1 => ~Removes(jobs[l], m)
        <5> TAKE l \in 2..n
        <5> HAVE l > k + 1
        <5>1. l - 1 \in 1..n - 1 /\ l - 1 > k
          BY <1>1
        <5> QED  BY <2>4, <3>1, <5>1
      <4> QED  BY <4>1, <4>2
    <3>2. ASSUME NEW k \in 2..n, Enters(jobs[k], m), \A l \in 2..n : l > k => ~Removes(jobs[l], m)
          PROVE  \E j \in 1..n - 1 : Enters(after[j], m) /\ \A l \in 1..n - 1 : l > j =>
                   ~Removes(after[l], m)
      <4>1. k - 1 \in 1..n - 1 /\ Enters(after[k - 1], m)
        BY <2>4, <3>2
      <4>2. \A l \in 1..n - 1 : l > k - 1 => ~Removes(after[l], m)
        <5> TAKE l \in 1..n - 1
        <5> HAVE l > k - 1
        <5>1. l + 1 \in 2..n /\ l + 1 > k
          BY <1>1
        <5> QED  BY <2>5, <3>2, <5>1
      <4> QED  BY <4>1, <4>2
    <3> QED  BY <3>1, <3>2
  <2>8. (\A k \in 1..n : ~Removes(jobs[k], m)) <=> ~Removes(job, m) /\ Kept
    BY <1>1, <2>3
  <2>9. (\E k \in 1..n : Enters(jobs[k], m) /\ \A l \in 1..n : l > k => ~Removes(jobs[l], m))
        <=> (Enters(job, m) /\ Kept) \/ Later
    <3>1. (\A l \in 1..n : l > 1 => ~Removes(jobs[l], m)) <=> Kept
      BY <2>3
    <3>2. \A k \in 2..n : (\A l \in 1..n : l > k => ~Removes(jobs[l], m)) <=>
                          (\A l \in 2..n : l > k => ~Removes(jobs[l], m))
      BY <2>3
    <3> HIDE DEF Kept
    <3> QED  BY <1>1, <2>3, <3>1, <3>2
  <2> HIDE DEF Kept, Later
  <2> QED  BY <1>2, <2>1, <2>2, <2>6, <2>7, <2>8, <2>9
<1>4. Known(known, jobs) \subseteq Session \X Channel
      /\ Known(Told(known, job), after) \subseteq Session \X Channel
  BY DEF Known
<1> QED  BY <1>3, <1>4 DEF job, after

-----------------------------------------------------------------------------
(***************************************************************************)
(* The invariant                                                           *)
(***************************************************************************)
\* A join that an empty room will not refuse.
Opens(jobs) == \E n \in DOMAIN jobs : jobs[n].op = "join" /\ jobs[n].opens

\* Room q and what the manager has of it.
Indexed(q) ==
    /\ RoomOK(rooms[q])
    /\ q <= created => (q \in registered <=> rooms[q].state # "Closing")
    /\ q > created => rooms[q] = NewRoom(FALSE)
    /\ rooms[q].members # <<>> => q \in registered /\ summaries[q] = Summary(rooms[q])
    /\ rooms[q].members = <<>> => summaries[q] = None

\* The index is sound: every room in it, and every room not in it.
Index == \A q \in RoomId : Indexed(q)

\* A room that is registered and empty will be opened; nothing is queued for a
\* room that was never created, nor does the server queue name one.
Queued(q) ==
    /\ q > created => roomJobs[q] = <<>>
    /\ q \in registered /\ rooms[q].members = <<>> => Opens(roomJobs[q])

Queues ==
    /\ \A q \in RoomId : Queued(q)
    /\ \A n \in 1..Len(serverJobs) : serverJobs[n].op = "begin" => serverJobs[n].room <= created

\* What chat and voice will know of a room is its roster: RosterIsTold, for
\* players who have not said hello too.
AllTold ==
    \A r \in RoomId, s \in Session :
        /\ <<s, <<"room", r>>>> \in ToBeTold => s \in Roster(rooms[r])
        /\ s \in Roster(rooms[r]) /\ conn[s] # "gone" => <<s, <<"room", r>>>> \in ToBeTold

\* Together they are inductive.
LobbyInv == TypeOK /\ Index /\ Queues /\ PointerIsMember /\ AllTold

\* The invariant contains the properties it is for.
LEMMA LobbyImplies ==
  ASSUME LobbyInv
  PROVE  HostIsLongestPresent /\ SlotsDistinct /\ ListingIsCurrent /\ NoRoomLeaks /\ RosterIsTold
<1> USE DEF LobbyInv
<1>1. ASSUME NEW r \in RoomId
      PROVE  /\ RoomOK(rooms[r]) /\ rooms[r].members \in Seq(Member)
             /\ DOMAIN rooms[r].members = 1..Len(rooms[r].members)
  <2>1. RoomOK(rooms[r]) /\ rooms[r].members \in Seq(Member)
    BY DEF Index, Indexed, RoomOK, RoomRecord
  <2> QED  BY <2>1, LenProperties
<1>2. HostIsLongestPresent
  BY <1>1 DEF RoomOK, HostIsLongestPresent
<1>3. SlotsDistinct
  BY <1>1 DEF RoomOK, SlotsDistinct
<1>4. ListingIsCurrent
  BY DEF Index, Indexed, ListingIsCurrent
<1>5. NoRoomLeaks
  <2>1. registered \subseteq RoomId
    BY MatchServerAssumption DEF TypeOK, RoomId
  <2> QED  BY <2>1 DEF Queues, Queued, Opens, NoRoomLeaks
<1>6. RosterIsTold
  BY DEF AllTold, RosterIsTold
<1> QED  BY <1>2, <1>3, <1>4, <1>5, <1>6

\* What the invariant says of the queues of the rooms.
LEMMA RoomJobsKept ==
  ASSUME LobbyInv
  PROVE  /\ roomJobs \in [RoomId -> Seq(RoomJob)]
         /\ \A q \in RoomId : q > created => roomJobs[q] = <<>>
         /\ registered \subseteq RoomId
  BY MatchServerAssumption DEF LobbyInv, TypeOK, Queues, Queued, RoomId

\* It holds at the start.
LEMMA LobbyInit == Init => LobbyInv
<1> SUFFICES ASSUME Init PROVE LobbyInv
  OBVIOUS
<1> USE DEF Init
<1>1. \A r \in RoomId : rooms[r] = NewRoom(FALSE) /\ RoomOK(rooms[r]) /\ Roster(rooms[r]) = {}
  BY NewRoomIsOK
<1>2. TypeOK
  <2>1. rooms \in [RoomId -> RoomRecord]
    BY <1>1 DEF RoomOK
  <2>2. /\ roomJobs \in [RoomId -> Seq(RoomJob)] /\ serverJobs \in Seq(ServerJob)
        /\ memberships \subseteq Session \X Channel
    BY EmptySeq
  <2>3. /\ events \in 0..MaxEvents /\ created \in 0..RoomCount /\ started \in 0..InstanceCount
        /\ registered \subseteq 1..created
    BY MatchServerAssumption
  <2>4. /\ conn \in [Session -> Presence] /\ peers \in [Peer -> Presence]
        /\ roomOf \in [Session -> RoomId \cup {None}]
        /\ summaries \in [RoomId -> Listing \cup {None}]
    BY DEF Presence
  <2>5. /\ handoffs \in [InstanceId -> Handoff \cup {None}]
        /\ instances \in [InstanceId -> Life]
        /\ loads \in [Peer -> Int]
    BY DEF Life
  <2> QED  BY <2>1, <2>2, <2>3, <2>4, <2>5 DEF TypeOK
<1>3. \A r \in RoomId : r > created
  BY DEF RoomId
<1>4. Index
  <2> SUFFICES ASSUME NEW q \in RoomId PROVE Indexed(q)
    BY DEF Index
  <2>1. rooms[q].members = <<>> /\ ~(q <= created)
    BY <1>1 DEF NewRoom, RoomId
  <2> QED  BY <1>1, <2>1 DEF Indexed
<1>5. Queues
  BY EmptySeq DEF Queues, Queued
<1>6. PointerIsMember
  BY DEF PointerIsMember
<1>7. ToBeTold = {}
  <2>1. DOMAIN serverJobs = {}
    OBVIOUS
  <2> QED  BY <2>1 DEF ToBeTold, Known
<1>8. AllTold
  BY <1>1, <1>7 DEF AllTold
<1> QED  BY <1>2, <1>4, <1>5, <1>6, <1>8 DEF LobbyInv

-----------------------------------------------------------------------------
(***************************************************************************)
(* Queues                                                                  *)
(***************************************************************************)
\* A queue that has an opening join keeps it when a job is appended, and an
\* opening join that is appended is one.
LEMMA OpensAppend ==
  ASSUME NEW jobs \in Seq(RoomJob), NEW job \in RoomJob
  PROVE  /\ Opens(jobs) => Opens(Append(jobs, job))
         /\ job.op = "join" /\ job.opens => Opens(Append(jobs, job))
<1> DEFINE then == Append(jobs, job)
<1>1. /\ Len(jobs) \in Nat /\ DOMAIN jobs = 1..Len(jobs) /\ DOMAIN then = 1..Len(jobs) + 1
      /\ \A n \in 1..Len(jobs) : then[n] = jobs[n]
      /\ then[Len(jobs) + 1] = job
  BY Appended
<1> HIDE DEF then
<1>2. Opens(jobs) => Opens(then)
  BY <1>1 DEF Opens
<1>3. job.op = "join" /\ job.opens => Opens(then)
  <2>1. Len(jobs) + 1 \in DOMAIN then
    BY <1>1
  <2> QED  BY <1>1, <2>1 DEF Opens
<1> QED  BY <1>2, <1>3 DEF then

\* The same when several jobs are appended.
LEMMA OpensConcat ==
  ASSUME NEW jobs \in Seq(RoomJob), NEW more \in Seq(RoomJob)
  PROVE  Opens(jobs) => Opens(jobs \o more)
<1>1. /\ Len(jobs) \in Nat /\ Len(more) \in Nat /\ DOMAIN jobs = 1..Len(jobs)
      /\ DOMAIN (jobs \o more) = 1..Len(jobs) + Len(more)
      /\ \A n \in 1..Len(jobs) : (jobs \o more)[n] = jobs[n]
  BY ConcatProperties, LenProperties
<1> QED  BY <1>1 DEF Opens

\* What posting a job to a room does to the queues of the rooms.
LEMMA Posted ==
  ASSUME NEW jobs \in [RoomId -> Seq(RoomJob)], NEW r \in RoomId, NEW job \in RoomJob
  PROVE  /\ Post(jobs, r, job) \in [RoomId -> Seq(RoomJob)]
         /\ Post(jobs, r, job)[r] = Append(jobs[r], job)
         /\ \A q \in RoomId : q # r => Post(jobs, r, job)[q] = jobs[q]
         /\ \A q \in RoomId : Opens(jobs[q]) => Opens(Post(jobs, r, job)[q])
         /\ job.op = "join" /\ job.opens => Opens(Post(jobs, r, job)[r])
<1>1. Append(jobs[r], job) \in Seq(RoomJob)
  BY AppendProperties
<1>2. /\ Post(jobs, r, job) \in [RoomId -> Seq(RoomJob)]
      /\ Post(jobs, r, job)[r] = Append(jobs[r], job)
      /\ \A q \in RoomId : q # r => Post(jobs, r, job)[q] = jobs[q]
  BY <1>1 DEF Post
<1>3. /\ Opens(jobs[r]) => Opens(Append(jobs[r], job))
      /\ job.op = "join" /\ job.opens => Opens(Append(jobs[r], job))
  BY OpensAppend
<1> QED  BY <1>2, <1>3

\* The queue of a room whose job runs.
LEMMA Running ==
  ASSUME LobbyInv, NEW r \in RoomId, NEW op, Runs(r, op)
  PROVE  /\ roomJobs[r] # <<>> /\ roomJobs[r] \in Seq(RoomJob)
         /\ Head(roomJobs[r]) \in RoomJob /\ Head(roomJobs[r]).op = op
         /\ r <= created /\ ~(r > created) /\ r \in 1..created
         /\ rooms[r] \in RoomRecord /\ RoomOK(rooms[r])
         /\ rooms[r].members # <<>> => r \in registered
         /\ Popped(r) \in [RoomId -> Seq(RoomJob)]
         /\ Popped(r)[r] = Tail(roomJobs[r])
         /\ \A q \in RoomId : q # r => Popped(r)[q] = roomJobs[q]
         /\ \A q \in RoomId : q > created => Popped(r)[q] = <<>>
         /\ Opens(roomJobs[r]) => Opens(Popped(r)[r]) \/ (op = "join" /\ Head(roomJobs[r]).opens)
<1> DEFINE jobs == roomJobs[r]
<1>1. roomJobs \in [RoomId -> Seq(RoomJob)] /\ jobs # <<>> /\ Head(jobs).op = op
  BY DEF LobbyInv, TypeOK, Runs
<1>2. /\ Tail(jobs) \in Seq(RoomJob)
      /\ Head(jobs) = jobs[1] /\ Head(jobs) \in RoomJob
      /\ Len(jobs) \in Nat \ {0}
      /\ DOMAIN jobs = 1..Len(jobs)
      /\ DOMAIN Tail(jobs) = 1..Len(jobs) - 1
      /\ \A n \in 1..Len(jobs) - 1 : Tail(jobs)[n] = jobs[n + 1]
  BY <1>1, Dropped
<1>3. /\ Popped(r) \in [RoomId -> Seq(RoomJob)]
      /\ Popped(r)[r] = Tail(jobs)
      /\ \A q \in RoomId : q # r => Popped(r)[q] = roomJobs[q]
  BY <1>1, <1>2 DEF Popped
<1>4. created \in Nat /\ ~(r > created)
  BY <1>1, MatchServerAssumption DEF LobbyInv, TypeOK, Queues, Queued
<1>5. r <= created /\ ~(r > created) /\ r \in 1..created
  BY <1>4, MatchServerAssumption DEF RoomId
<1>6. \A q \in RoomId : q > created => q # r
  BY <1>4
<1>7. \A q \in RoomId : q > created => Popped(r)[q] = <<>>
  BY <1>3, <1>6 DEF LobbyInv, Queues, Queued
<1>8. Opens(jobs) => Opens(Tail(jobs)) \/ (op = "join" /\ Head(jobs).opens)
  <2> SUFFICES ASSUME NEW n \in 1..Len(jobs), jobs[n].op = "join", jobs[n].opens,
                      ~(op = "join" /\ Head(jobs).opens)
               PROVE  Opens(Tail(jobs))
    BY <1>2 DEF Opens
  <2>1. n # 1
    BY <1>1, <1>2
  <2>2. n - 1 \in DOMAIN Tail(jobs) /\ Tail(jobs)[n - 1] = jobs[n]
    BY <1>2, <2>1
  <2> QED  BY <2>2 DEF Opens
<1>9. /\ rooms[r] \in RoomRecord /\ RoomOK(rooms[r])
      /\ rooms[r].members # <<>> => r \in registered
  BY DEF LobbyInv, Index, Indexed, RoomOK
<1> QED  BY <1>1, <1>2, <1>3, <1>5, <1>7, <1>8, <1>9

\* The queue of the server when a job of it runs.
LEMMA ServerRunning ==
  ASSUME LobbyInv, NEW op, ServerRuns(op)
  PROVE  /\ serverJobs # <<>> /\ serverJobs \in Seq(ServerJob)
         /\ Head(serverJobs) \in ServerJob /\ Head(serverJobs).op = op
         /\ Head(serverJobs) = serverJobs[1]
         /\ Tail(serverJobs) \in Seq(ServerJob)
         /\ Len(serverJobs) \in Nat \ {0} /\ Len(Tail(serverJobs)) = Len(serverJobs) - 1
         /\ \A n \in 1..Len(serverJobs) - 1 : Tail(serverJobs)[n] = serverJobs[n + 1]
         /\ \A n \in 1..Len(Tail(serverJobs)) : Tail(serverJobs)[n].op = "begin" =>
               Tail(serverJobs)[n].room <= created
<1>1. serverJobs # <<>> /\ serverJobs \in Seq(ServerJob) /\ Head(serverJobs).op = op
  BY DEF LobbyInv, TypeOK, ServerRuns
<1>2. /\ Tail(serverJobs) \in Seq(ServerJob)
      /\ Head(serverJobs) = serverJobs[1] /\ Head(serverJobs) \in ServerJob
      /\ Len(serverJobs) \in Nat \ {0}
      /\ DOMAIN Tail(serverJobs) = 1..Len(serverJobs) - 1
      /\ \A n \in 1..Len(serverJobs) - 1 : Tail(serverJobs)[n] = serverJobs[n + 1]
  BY <1>1, Dropped
<1>3. Len(Tail(serverJobs)) = Len(serverJobs) - 1
  BY <1>1, HeadTailProperties
<1>4. \A n \in 1..Len(serverJobs) - 1 : n + 1 \in 1..Len(serverJobs)
  BY <1>2
<1>5. \A n \in 1..Len(serverJobs) - 1 : Tail(serverJobs)[n].op = "begin" =>
         Tail(serverJobs)[n].room <= created
  BY <1>2, <1>4 DEF LobbyInv, Queues
<1> QED  BY <1>1, <1>2, <1>3, <1>5

\* A job more in the queue of the server.
LEMMA ServerPosted ==
  ASSUME LobbyInv, NEW job \in ServerJob, job.op = "begin" => job.room <= created
  PROVE  /\ Append(serverJobs, job) \in Seq(ServerJob)
         /\ \A n \in 1..Len(Append(serverJobs, job)) : Append(serverJobs, job)[n].op = "begin" =>
               Append(serverJobs, job)[n].room <= created
<1>1. serverJobs \in Seq(ServerJob)
  BY DEF LobbyInv, TypeOK
<1>2. /\ Append(serverJobs, job) \in Seq(ServerJob) /\ Len(serverJobs) \in Nat
      /\ Len(Append(serverJobs, job)) = Len(serverJobs) + 1
      /\ \A n \in 1..Len(serverJobs) : Append(serverJobs, job)[n] = serverJobs[n]
      /\ Append(serverJobs, job)[Len(serverJobs) + 1] = job
  BY <1>1, AppendProperties, LenProperties
<1>3. 1..Len(serverJobs) + 1 = 1..Len(serverJobs) \cup {Len(serverJobs) + 1}
  BY <1>2
<1> QED  BY <1>2, <1>3 DEF LobbyInv, Queues

\* What a new job makes of what will be known of a room.
LEMMA ToldMore ==
  ASSUME LobbyInv, NEW job \in ServerJob, serverJobs' = Append(serverJobs, job),
         memberships' = memberships, NEW s \in Session, NEW c \in Channel
  PROVE  <<s, c>> \in ToBeTold' <=>
            Enters(job, <<s, c>>) \/ (<<s, c>> \in ToBeTold /\ ~Removes(job, <<s, c>>))
<1>1. serverJobs \in Seq(ServerJob) /\ <<s, c>> \in Session \X Channel
  BY DEF LobbyInv, TypeOK
<1>2. <<s, c>> \in Known(memberships, Append(serverJobs, job)) <=>
        Enters(job, <<s, c>>) \/ (<<s, c>> \in Known(memberships, serverJobs) /\ ~Removes(job,
          <<s, c>>))
  BY <1>1, KnownAppend
<1> QED  BY <1>2 DEF ToBeTold

\* A job of another kind, taken off the queue, changes nothing.
LEMMA ToldAsBefore ==
  ASSUME LobbyInv, NEW op, op \notin {"enter", "exit", "closed"}, ServerRuns(op)
  PROVE  Known(memberships, Tail(serverJobs)) = ToBeTold
<1>1. /\ serverJobs # <<>> /\ serverJobs \in Seq(ServerJob) /\ Head(serverJobs).op = op
      /\ memberships \subseteq Session \X Channel
  BY ServerRunning DEF LobbyInv, TypeOK
<1>2. Told(memberships, Head(serverJobs)) = memberships
  BY <1>1 DEF Told
<1>3. Known(Told(memberships, Head(serverJobs)), Tail(serverJobs)) = Known(memberships, serverJobs)
  BY <1>1, KnownTold
<1> QED  BY <1>2, <1>3 DEF ToBeTold

-----------------------------------------------------------------------------
(***************************************************************************)
(* Rooms made                                                              *)
(***************************************************************************)
\* The index as it was, or with one more room in it that has its opening join;
\* jobs is what the queues of the rooms held before.
Grown(jobs) ==
    /\ \/ roomJobs' = jobs
       \/ \E q \in RoomId, job \in RoomJob : job.op = "join" /\ roomJobs' = Post(jobs, q, job)
    /\ roomJobs' \in [RoomId -> Seq(RoomJob)]
    /\ \/ created' = created /\ registered' = registered
       \/ /\ created' = created + 1 /\ created + 1 \in RoomId /\ ~Full
          /\ registered' = registered \cup {created + 1} /\ Opens(roomJobs'[created + 1])
    /\ \A q \in RoomId : q > created' => roomJobs'[q] = <<>>
    /\ \A q \in RoomId : Opens(jobs[q]) => Opens(roomJobs'[q])

\* RoomManager::Create grows the index by a room with its opening join, or not
\* at all.
LEMMA CreateGrows ==
  ASSUME LobbyInv, NEW jobs \in [RoomId -> Seq(RoomJob)], \A q \in RoomId : q > created =>
         jobs[q] = <<>>,
         NEW job \in RoomJob, job.op = "join", job.opens, Create(job, jobs)
  PROVE  Grown(jobs)
<1>1. created \in 0..RoomCount /\ RoomCount \in Nat
  BY MatchServerAssumption DEF LobbyInv, TypeOK
<1>2. CASE Full
  BY <1>2 DEF Create, Grown
<1>3. CASE ~Full
  <2>1. created + 1 \in RoomId /\ created' = created + 1 /\
          registered' = registered \cup {created + 1}
    BY <1>1, <1>3 DEF Create, Full, RoomId
  <2>2. roomJobs' = Post(jobs, created + 1, job)
    BY <1>3 DEF Create
  <2>3. /\ roomJobs' \in [RoomId -> Seq(RoomJob)]
        /\ \A q \in RoomId : q # created + 1 => roomJobs'[q] = jobs[q]
        /\ \A q \in RoomId : Opens(jobs[q]) => Opens(roomJobs'[q])
        /\ Opens(roomJobs'[created + 1])
    <3> DEFINE r == created + 1
    <3>1. r \in RoomId
      BY <2>1
    <3> HIDE DEF r
    <3>2. /\ Post(jobs, r, job) \in [RoomId -> Seq(RoomJob)]
          /\ \A q \in RoomId : q # r => Post(jobs, r, job)[q] = jobs[q]
          /\ \A q \in RoomId : Opens(jobs[q]) => Opens(Post(jobs, r, job)[q])
          /\ Opens(Post(jobs, r, job)[r])
      BY <3>1, Posted
    <3>3. roomJobs' = Post(jobs, r, job)
      BY <2>2 DEF r
    <3>4. /\ roomJobs' \in [RoomId -> Seq(RoomJob)]
          /\ \A q \in RoomId : q # r => roomJobs'[q] = jobs[q]
          /\ \A q \in RoomId : Opens(jobs[q]) => Opens(roomJobs'[q])
          /\ Opens(roomJobs'[r])
      BY <3>2, <3>3
    <3> QED  BY <3>4 DEF r
  <2>4. \A q \in RoomId : q > created + 1 => q # created + 1 /\ q > created
    BY <1>1 DEF RoomId
  <2>5. \E q \in RoomId, j \in RoomJob : j.op = "join" /\ roomJobs' = Post(jobs, q, j)
    BY <2>1, <2>2
  <2> QED  BY <1>3, <2>1, <2>3, <2>4, <2>5 DEF Grown
<1> QED  BY <1>2, <1>3

\* A step of quick match posts a join to a room that is there, or creates one.
LEMMA QuickMatchGrows ==
  ASSUME LobbyInv, NEW jobs \in [RoomId -> Seq(RoomJob)], \A q \in RoomId : q > created =>
         jobs[q] = <<>>,
         NEW s \in Session, NEW candidates \in Seq(RoomId), QuickMatchStep(s, candidates, jobs)
  PROVE  Grown(jobs)
<1> DEFINE open == {n \in DOMAIN candidates : candidates[n] \in registered}
<1>1. CASE conn[s] # "in" \/ roomOf[s] # None
  BY <1>1 DEF QuickMatchStep, Grown
<1>2. CASE ~(conn[s] # "in" \/ roomOf[s] # None) /\ open = {}
  <2>1. Create(JoinJob(s, TRUE, "opened", <<>>), jobs)
    BY <1>2 DEF QuickMatchStep
  <2>2. /\ JoinJob(s, TRUE, "opened", <<>>) \in RoomJob
        /\ JoinJob(s, TRUE, "opened", <<>>).op = "join" /\ JoinJob(s, TRUE, "opened",
             <<>>).opens = TRUE
    <3>1. <<>> \in Seq(RoomId)
      BY EmptySeq
    <3> QED  BY <3>1, RoomJobsMade
  <2> QED  BY <2>1, <2>2, CreateGrows
<1>3. CASE ~(conn[s] # "in" \/ roomOf[s] # None) /\ open # {}
  <2>1. PICK n \in open :
          /\ roomJobs' = Post(jobs, candidates[n],
                JoinJob(s, ~rooms[candidates[n]].locked, "match", SubSeq(candidates, n + 1,
                  Len(candidates))))
          /\ UNCHANGED <<created, registered>>
    BY <1>3 DEF QuickMatchStep
  <2> DEFINE r == candidates[n]  rest == SubSeq(candidates, n + 1, Len(candidates))
  <2>2. Len(candidates) \in Nat /\ n \in 1..Len(candidates) /\ r \in RoomId /\ r \in registered
    <3>1. Len(candidates) \in Nat /\ DOMAIN candidates = 1..Len(candidates)
      BY LenProperties
    <3> QED  BY <3>1, ElementOfSeq
  <2>3. rest \in Seq(RoomId)
    <3>1. \A i \in n + 1..Len(candidates) : candidates[i] \in RoomId
      BY <2>2, ElementOfSeq
    <3> QED  BY <2>2, <3>1, SubSeqProperties
  <2>4. rooms[r] \in RoomRecord
    BY <2>2 DEF LobbyInv, TypeOK
  <2>5. JoinJob(s, ~rooms[r].locked, "match", rest) \in RoomJob
    <3>1. (~rooms[r].locked) \in BOOLEAN
      BY <2>4 DEF RoomRecord
    <3> HIDE DEF r, rest
    <3> QED  BY <2>3, <3>1, RoomJobsMade
  <2>6. r <= created
    <3> HIDE DEF r
    <3>1. registered \subseteq 1..created
      BY DEF LobbyInv, TypeOK
    <3> QED  BY <2>2, <3>1 DEF RoomId
  <2> HIDE DEF r, rest
  <2>7. /\ roomJobs' \in [RoomId -> Seq(RoomJob)]
        /\ \A q \in RoomId : q # r => roomJobs'[q] = jobs[q]
        /\ \A q \in RoomId : Opens(jobs[q]) => Opens(roomJobs'[q])
        /\ \E q \in RoomId, j \in RoomJob : j.op = "join" /\ roomJobs' = Post(jobs, q, j)
    <3> DEFINE job == JoinJob(s, ~rooms[r].locked, "match", rest)
    <3>1. job \in RoomJob /\ r \in RoomId
      BY <2>2, <2>5
    <3>2. roomJobs' = Post(jobs, r, job) /\ job.op = "join"
      BY <2>1 DEF r, rest, JoinJob
    <3> HIDE DEF job
    <3>3. /\ Post(jobs, r, job) \in [RoomId -> Seq(RoomJob)]
          /\ \A q \in RoomId : q # r => Post(jobs, r, job)[q] = jobs[q]
          /\ \A q \in RoomId : Opens(jobs[q]) => Opens(Post(jobs, r, job)[q])
      BY <3>1, Posted
    <3> QED  BY <3>1, <3>2, <3>3
  <2>8. \A q \in RoomId : q > created => q # r
    BY <2>2, <2>6, MatchServerAssumption DEF LobbyInv, TypeOK, RoomId
  <2> QED  BY <2>1, <2>7, <2>8 DEF Grown
<1> QED  BY <1>1, <1>2, <1>3

\* An index that has grown is sound.
LEMMA GrownHolds ==
  ASSUME LobbyInv, NEW jobs, Grown(jobs), summaries' = summaries, serverJobs' = serverJobs,
         \A q \in RoomId : q <= created =>
            \/ rooms'[q] = rooms[q]
            \/ /\ rooms[q].members # <<>> /\ rooms'[q].members # <<>> /\ RoomOK(rooms'[q])
               /\ rooms'[q].state = rooms[q].state /\ Summary(rooms'[q]) = Summary(rooms[q]),
         \A q \in RoomId : q > created' => rooms'[q] = rooms[q],
         created' # created => \E locked \in BOOLEAN : rooms'[created + 1] = NewRoom(locked),
         \A q \in registered : rooms[q].members = <<>> => Opens(jobs[q])
  PROVE  created' \in 0..RoomCount /\ registered' \subseteq 1..created' /\ Index' /\ Queues'
<1>1. created \in 0..RoomCount /\ RoomCount \in Nat /\ registered \subseteq 1..created
      /\ registered \subseteq RoomId
  BY MatchServerAssumption DEF LobbyInv, TypeOK, RoomId
<1>2. \/ created' = created /\ registered' = registered
      \/ created' = created + 1 /\ created + 1 \in RoomId /\
           registered' = registered \cup {created + 1}
         /\ Opens(roomJobs'[created + 1])
  BY DEF Grown
<1>3. created' \in 0..RoomCount /\ registered' \subseteq 1..created'
  <2>1. CASE created' = created /\ registered' = registered
    BY <1>1, <2>1
  <2>2. CASE created' = created + 1 /\ created + 1 \in RoomId /\
               registered' = registered \cup {created + 1}
    <3>1. created' \in 0..RoomCount /\ created + 1 \in 1..created'
      BY <1>1, <2>2 DEF RoomId
    <3>2. \A q \in registered : q \in 1..created'
      BY <1>1, <2>2
    <3> QED  BY <2>2, <3>1, <3>2
  <2> QED  BY <1>2, <2>1, <2>2
<1>4. ASSUME NEW q \in RoomId PROVE Indexed(q)' /\ Queued(q)'
  <2>1. q \in Nat /\ Indexed(q) /\ Queued(q)
    BY DEF LobbyInv, Index, Queues, RoomId
  <2>2. CASE q <= created
    <3>1. (q \in registered' <=> q \in registered) /\ q <= created' /\ ~(q > created')
      BY <1>1, <1>2, <2>1, <2>2
    <3>2. CASE rooms'[q] = rooms[q]
      <4>1. q \in registered /\ rooms[q].members = <<>> => Opens(roomJobs'[q])
        BY DEF Grown
      <4> QED  BY <2>1, <2>2, <3>1, <3>2, <4>1 DEF Indexed, Queued
    <3>3. CASE /\ rooms[q].members # <<>> /\ rooms'[q].members # <<>> /\ RoomOK(rooms'[q])
               /\ rooms'[q].state = rooms[q].state /\ Summary(rooms'[q]) = Summary(rooms[q])
      BY <2>1, <2>2, <3>1, <3>3 DEF Indexed, Queued
    <3> QED  BY <2>2, <3>2, <3>3
  <2>3. CASE q = created + 1 /\ created' = created + 1
    <3>1. q > created /\ q <= created' /\ ~(q > created')
      BY <1>1, <2>3
    <3>2. PICK locked \in BOOLEAN : rooms'[q] = NewRoom(locked)
      BY <1>1, <2>3
    <3>3. /\ RoomOK(rooms'[q]) /\ rooms'[q].members = <<>> /\ rooms'[q].state = "Waiting"
      BY <3>2, NewRoomIsOK DEF NewRoom
    <3>4. q \in registered' /\ Opens(roomJobs'[q])
      BY <1>1, <1>2, <2>3
    <3>5. summaries[q] = None
      BY <2>1, <3>1 DEF Indexed, NewRoom
    <3> QED  BY <3>1, <3>3, <3>4, <3>5 DEF Indexed, Queued
  <2>4. CASE q > created'
    <3>1. q > created /\ ~(q <= created') /\ rooms'[q] = rooms[q] /\ q \notin registered'
      BY <1>1, <1>2, <1>3, <2>1, <2>4
    <3>2. roomJobs'[q] = <<>>
      BY <2>4 DEF Grown
    <3>3. rooms[q].members = <<>>
      BY <2>1, <3>1 DEF Indexed, NewRoom
    <3> QED  BY <2>1, <3>1, <3>2, <3>3 DEF Indexed, Queued
  <2> QED  BY <1>1, <1>2, <2>1, <2>2, <2>3, <2>4
<1>5. \A n \in 1..Len(serverJobs') : serverJobs'[n].op = "begin" => serverJobs'[n].room <= created'
  <2>1. \A n \in 1..Len(serverJobs) : serverJobs[n].op = "begin" =>
            serverJobs[n].room \in RoomId /\ serverJobs[n].room <= created
    <3>1. serverJobs \in Seq(ServerJob)
      BY DEF LobbyInv, TypeOK
    <3>2. \A n \in 1..Len(serverJobs) : serverJobs[n] \in ServerJob
      BY <3>1, ElementOfSeq
    <3> QED  BY <3>2, ServerJobFields DEF LobbyInv, Queues
  <2>2. created' >= created /\ created' \in Nat
    BY <1>1, <1>2
  <2> QED  BY <1>1, <2>1, <2>2 DEF RoomId
<1> QED  BY <1>3, <1>4, <1>5 DEF Index, Queues

\* Rosters that stay as they are, and are told as before, stay told.
LEMMA ToldHolds ==
  ASSUME LobbyInv, \A r \in RoomId : Roster(rooms'[r]) = Roster(rooms[r]),
         \A s \in Session : conn'[s] # "gone" => conn[s] # "gone",
         \A r \in RoomId, s \in Session :
            <<s, <<"room", r>>>> \in ToBeTold' <=> <<s, <<"room", r>>>> \in ToBeTold
  PROVE  AllTold'
BY DEF LobbyInv, AllTold

\* Pointers stay right while pointers and rosters stay as they are.
LEMMA PointersHold ==
  ASSUME LobbyInv, roomOf' = roomOf, \A r \in RoomId : Roster(rooms'[r]) = Roster(rooms[r])
  PROVE  PointerIsMember'
<1>1. \A s \in Session : roomOf[s] # None => roomOf[s] \in RoomId
  BY DEF LobbyInv, TypeOK
<1> QED  BY <1>1 DEF LobbyInv, PointerIsMember

\* What will be known depends on the server queue and the memberships only.
LEMMA ToldUnchanged ==
  ASSUME memberships' = memberships, serverJobs' = serverJobs
  PROVE  ToBeTold' = ToBeTold
BY DEF ToBeTold

\* A room has a channel.
LEMMA RoomChannels == \A r \in RoomId : <<"room", r>> \in Channel
BY DEF Channel

\* The lobby is as it was
LEMMA IndexUnchanged ==
  ASSUME LobbyInv, UNCHANGED <<indexVars, rooms>>
  PROVE  Index' /\ \A r \in RoomId : Roster(rooms'[r]) = Roster(rooms[r])
<1> USE DEF indexVars
<1>1. \A q \in RoomId : Indexed(q)'
  BY DEF LobbyInv, Index, Indexed
<1> QED  BY <1>1 DEF Index

-----------------------------------------------------------------------------
(***************************************************************************)
(* Clients                                                                 *)
(***************************************************************************)
\* A hello keeps the invariant.
LEMMA HelloHolds ==
  ASSUME LobbyInv, NEW s \in Session, C_Hello(s)
  PROVE  LobbyInv'
<1> USE DEF C_Hello, handoffVars, peerVars, indexVars
<1>1. TypeOK'
  BY DEF LobbyInv, TypeOK, Presence
<1>2. Index' /\ \A r \in RoomId : Roster(rooms'[r]) = Roster(rooms[r])
  BY IndexUnchanged
<1>3. Queues'
  BY DEF LobbyInv, Queues, Queued
<1>4. PointerIsMember'
  BY <1>2, PointersHold
<1>5. \A x \in Session : conn'[x] # "gone" => conn[x] # "gone"
  BY DEF LobbyInv, TypeOK
<1>6. AllTold'
  BY <1>2, <1>5, ToldUnchanged, ToldHolds
<1> QED  BY <1>1, <1>2, <1>3, <1>4, <1>6 DEF LobbyInv

\* So does every packet that only enqueues a job on a registered room.
LEMMA EnqueueHolds ==
  ASSUME LobbyInv, NEW s \in Session, NEW r, NEW job \in RoomJob, Enqueue(s, r, job)
  PROVE  LobbyInv'
<1> USE DEF Enqueue, Packet, Event, handoffVars, peerVars, indexVars
<1>1. r \in RoomId /\ r \in 1..created /\ ~(r > created)
  BY MatchServerAssumption DEF LobbyInv, TypeOK, RoomId
<1>2. /\ roomJobs' \in [RoomId -> Seq(RoomJob)]
      /\ \A q \in RoomId : q # r => roomJobs'[q] = roomJobs[q]
      /\ \A q \in RoomId : Opens(roomJobs[q]) => Opens(roomJobs'[q])
  <2>1. roomJobs \in [RoomId -> Seq(RoomJob)] /\ roomJobs' = Post(roomJobs, r, job)
    BY DEF LobbyInv, TypeOK
  <2>2. /\ Post(roomJobs, r, job) \in [RoomId -> Seq(RoomJob)]
        /\ \A q \in RoomId : q # r => Post(roomJobs, r, job)[q] = roomJobs[q]
        /\ \A q \in RoomId : Opens(roomJobs[q]) => Opens(Post(roomJobs, r, job)[q])
    BY <1>1, <2>1, Posted
  <2> QED  BY <2>1, <2>2
<1>3. TypeOK'
  <2>1. events' \in 0..MaxEvents
    BY MatchServerAssumption DEF LobbyInv, TypeOK
  <2> QED  BY <1>2, <2>1 DEF LobbyInv, TypeOK
<1>4. Index' /\ \A q \in RoomId : Roster(rooms'[q]) = Roster(rooms[q])
  BY IndexUnchanged
<1>5. Queues'
  <2>1. \A q \in RoomId : Queued(q)'
    BY <1>1, <1>2 DEF LobbyInv, Queues, Queued
  <2> QED  BY <2>1 DEF LobbyInv, Queues
<1>6. PointerIsMember'
  BY <1>4, PointersHold
<1>7. AllTold'
  BY <1>4, ToldUnchanged, ToldHolds
<1> QED  BY <1>3, <1>4, <1>5, <1>6, <1>7 DEF LobbyInv

\* So does C_RoomCreate.
LEMMA RoomCreateHolds ==
  ASSUME LobbyInv, NEW s \in Session, NEW locked \in Locks, C_RoomCreate(s, locked)
  PROVE  LobbyInv'
<1> USE DEF C_RoomCreate, Packet, Event, handoffVars, peerVars, indexVars
<1>1. Grown(roomJobs)
  <2>1. /\ JoinJob(s, TRUE, "hand", <<>>) \in RoomJob
        /\ JoinJob(s, TRUE, "hand", <<>>).op = "join" /\ JoinJob(s, TRUE, "hand", <<>>).opens = TRUE
    <3>1. <<>> \in Seq(RoomId)
      BY EmptySeq
    <3> QED  BY <3>1, RoomJobsMade
  <2>2. roomJobs \in [RoomId -> Seq(RoomJob)] /\ \A q \in RoomId : q > created => roomJobs[q] = <<>>
    BY DEF LobbyInv, TypeOK, Queues, Queued
  <2> QED  BY <2>1, <2>2, CreateGrows
<1>2. created \in Nat /\ rooms \in [RoomId -> RoomRecord] /\ locked \in BOOLEAN
  BY MatchServerAssumption DEF LobbyInv, TypeOK
<1>3. /\ \A q \in RoomId : q # created + 1 \/ created' = created => rooms'[q] = rooms[q]
      /\ created' # created => created + 1 \in RoomId /\ rooms'[created + 1] = NewRoom(locked)
      /\ rooms' \in [RoomId -> RoomRecord]
  <2>1. CASE Full
    <3>1. rooms' = rooms /\ created' = created
      BY <2>1 DEF Create
    <3> QED  BY <1>2, <3>1
  <2>2. CASE ~Full
    <3>1. rooms' = [rooms EXCEPT ![created + 1] = NewRoom(locked)] /\ created' = created + 1
      BY <2>2 DEF Create
    <3>2. created' # created /\ created + 1 \in RoomId
      BY <1>1, <1>2, <3>1 DEF Grown
    <3>3. NewRoom(locked) \in RoomRecord
      BY <1>2, NewRoomIsOK DEF RoomOK
    <3> QED  BY <1>2, <3>1, <3>2, <3>3
  <2> QED  BY <2>1, <2>2
<1>4. created' = created \/ created' = created + 1
  BY <1>1 DEF Grown
<1>5. created' \in 0..RoomCount /\ registered' \subseteq 1..created' /\ Index' /\ Queues'
  <2>1. \A q \in RoomId : q <= created => q # created + 1
    BY <1>2 DEF RoomId
  <2>2. \A q \in RoomId : q > created' => q # created + 1 \/ created' = created
    BY <1>2, <1>4 DEF RoomId
  <2>3. \A q \in registered : rooms[q].members = <<>> => Opens(roomJobs[q])
    BY RoomJobsKept DEF LobbyInv, Queues, Queued
  <2> QED  BY <1>1, <1>2, <1>3, <2>1, <2>2, <2>3, GrownHolds
<1>6. TypeOK'
  <2>1. events' \in 0..MaxEvents
    BY MatchServerAssumption DEF LobbyInv, TypeOK
  <2>2. roomJobs' \in [RoomId -> Seq(RoomJob)]
    BY <1>1 DEF Grown
  <2> QED  BY <1>3, <1>5, <2>1, <2>2 DEF LobbyInv, TypeOK
<1>7. \A r \in RoomId : Roster(rooms'[r]) = Roster(rooms[r])
  <2> TAKE r \in RoomId
  <2>1. CASE r # created + 1 \/ created' = created
    BY <1>3, <2>1
  <2>2. CASE r = created + 1 /\ created' # created
    <3>0. Indexed(r) /\ r > created
      BY <1>2, <2>2 DEF LobbyInv, Index
    <3>1. rooms'[r] = NewRoom(locked) /\ rooms[r] = NewRoom(FALSE)
      BY <1>3, <2>2, <3>0 DEF Indexed
    <3>2. Roster(NewRoom(locked)) = {} /\ Roster(NewRoom(FALSE)) = {}
      BY <1>2, NewRoomIsOK
    <3> QED  BY <3>1, <3>2
  <2> QED  BY <2>1, <2>2
<1>8. PointerIsMember'
  BY <1>7, PointersHold
<1>9. AllTold'
  BY <1>7, ToldUnchanged, ToldHolds
<1> QED  BY <1>5, <1>6, <1>8, <1>9 DEF LobbyInv

\* Candidates are sequences of room ids.
LEMMA CandidatesType == ASSUME LobbyInv,
  NEW candidates \in Candidates PROVE candidates \in Seq(RoomId)
<1>1. PICK list \in SetToSeqs(Joinable) :
        candidates = SubSeq(list, 1, IF Len(list) < Attempts THEN Len(list) ELSE Attempts)
  BY DEF Candidates
<1>2. Joinable \subseteq RoomId /\ Cardinality(Joinable) \in Nat
  <2>1. Joinable \subseteq RoomId
    BY DEF Joinable
  <2>2. IsFiniteSet(RoomId)
    BY MatchServerAssumption, FS_Interval DEF RoomId
  <2> QED  BY <2>1, <2>2, FS_Subset, FS_CardinalityType
<1>3. list \in [1..Cardinality(Joinable) -> RoomId]
  <2>1. list \in [1..Cardinality(Joinable) -> Joinable]
    BY DEF SetToSeqs
  <2> QED  BY <1>2, <2>1
<1>4. list \in Seq(RoomId) /\ Len(list) \in Nat
  BY <1>2, <1>3, FunctionIsSeq
<1> DEFINE last == IF Len(list) < Attempts THEN Len(list) ELSE Attempts
<1>5. last \in Int /\ \A i \in 1..last : list[i] \in RoomId
  <2>1. last \in Nat /\ last <= Len(list)
    BY <1>4, MatchServerAssumption
  <2> HIDE DEF last
  <2>2. \A i \in 1..last : i \in 1..Len(list)
    BY <1>4, <2>1
  <2> QED  BY <1>4, <2>1, <2>2, ElementOfSeq
<1> HIDE DEF last
<1>6. SubSeq(list, 1, last) \in Seq(RoomId)
  BY <1>5, SubSeqProperties
<1> QED  BY <1>1, <1>6 DEF last

\* C_QuickMatch keeps the invariant, whichever candidates it finds.
LEMMA QuickMatchHolds ==
  ASSUME LobbyInv, NEW s \in Session, C_QuickMatch(s)
  PROVE  LobbyInv'
<1> USE DEF C_QuickMatch, Packet, Event, handoffVars, peerVars, indexVars
<1>1. PICK candidates \in Candidates : QuickMatchStep(s, candidates, roomJobs)
  OBVIOUS
<1>2. Grown(roomJobs)
  <2>1. candidates \in Seq(RoomId)
    BY CandidatesType
  <2>2. roomJobs \in [RoomId -> Seq(RoomJob)] /\ \A q \in RoomId : q > created => roomJobs[q] = <<>>
    BY DEF LobbyInv, TypeOK, Queues, Queued
  <2> QED  BY <1>1, <2>1, <2>2, QuickMatchGrows
<1>3. created' # created => rooms'[created + 1] = NewRoom(FALSE)
  <2>1. created' # created => created + 1 \in RoomId /\ created + 1 > created
    BY <1>2, MatchServerAssumption DEF Grown, LobbyInv, TypeOK
  <2> QED  BY <2>1 DEF LobbyInv, Index, Indexed
<1>4. created' \in 0..RoomCount /\ registered' \subseteq 1..created' /\ Index' /\ Queues'
  <2>1. \A q \in registered : rooms[q].members = <<>> => Opens(roomJobs[q])
    BY RoomJobsKept DEF LobbyInv, Queues, Queued
  <2> QED  BY <1>2, <1>3, <2>1, GrownHolds
<1>5. TypeOK'
  <2>1. events' \in 0..MaxEvents
    BY MatchServerAssumption DEF LobbyInv, TypeOK
  <2>2. roomJobs' \in [RoomId -> Seq(RoomJob)]
    BY <1>2 DEF Grown
  <2> QED  BY <1>4, <2>1, <2>2 DEF LobbyInv, TypeOK
<1>6. PointerIsMember'
  BY PointersHold
<1>7. AllTold'
  BY ToldUnchanged, ToldHolds
<1> QED  BY <1>4, <1>5, <1>6, <1>7 DEF LobbyInv

\* A disconnection keeps the invariant: the leave it posts comes after the join
\* of a player who is about to be let in, and the room stays told until then.
LEMMA DisconnectedHolds ==
  ASSUME LobbyInv, NEW s \in Session, OnDisconnected(s)
  PROVE  LobbyInv'
<1> DEFINE job == [op |-> "closed", who |-> s]
<1> USE DEF OnDisconnected, Event, handoffVars, peerVars, indexVars
<1>1. job \in ServerJob /\ job.op # "begin"
  BY ServerJobsMade
<1>2. /\ roomJobs' \in [RoomId -> Seq(RoomJob)]
      /\ \A q \in RoomId : q > created => roomJobs'[q] = <<>>
      /\ \A q \in RoomId : Opens(roomJobs[q]) => Opens(roomJobs'[q])
  <2>1. roomJobs \in [RoomId -> Seq(RoomJob)] /\ \A q \in RoomId : q > created => roomJobs[q] = <<>>
    BY DEF LobbyInv, TypeOK, Queues, Queued
  <2>2. CASE roomOf[s] \notin registered
    BY <2>1, <2>2
  <2>3. CASE roomOf[s] \in registered
    <3> DEFINE r == roomOf[s]
    <3>1. r \in RoomId /\ ~(r > created)
      <4>1. registered \subseteq 1..created /\ created \in 0..RoomCount /\ RoomCount \in Nat
        BY MatchServerAssumption DEF LobbyInv, TypeOK
      <4>2. r \in 1..created
        BY <2>3, <4>1
      <4> HIDE DEF r
      <4> QED  BY <4>1, <4>2 DEF RoomId
    <3>2. roomJobs' = Post(roomJobs, r, LeaveJob(s))
      BY <2>3
    <3>3. LeaveJob(s) \in RoomJob
      BY RoomJobsMade
    <3> HIDE DEF r
    <3>4. /\ Post(roomJobs, r, LeaveJob(s)) \in [RoomId -> Seq(RoomJob)]
          /\ \A q \in RoomId : q # r => Post(roomJobs, r, LeaveJob(s))[q] = roomJobs[q]
          /\ \A q \in RoomId : Opens(roomJobs[q]) => Opens(Post(roomJobs, r, LeaveJob(s))[q])
      BY <2>1, <3>1, <3>3, Posted
    <3> QED  BY <2>1, <3>1, <3>2, <3>4
  <2> QED  BY <2>2, <2>3
<1> HIDE DEF job
<1>3. /\ serverJobs' = Append(serverJobs, job)
      /\ serverJobs' \in Seq(ServerJob)
      /\ \A n \in 1..Len(serverJobs') : serverJobs'[n].op = "begin" =>
           serverJobs'[n].room <= created
  <2>1. serverJobs' = Append(serverJobs, job)
    BY DEF job
  <2> QED  BY <1>1, <2>1, ServerPosted
<1>4. TypeOK'
  <2>1. events' \in 0..MaxEvents
    BY MatchServerAssumption DEF LobbyInv, TypeOK
  <2> QED  BY <1>2, <1>3, <2>1 DEF LobbyInv, TypeOK, Presence
<1>5. Index' /\ \A q \in RoomId : Roster(rooms'[q]) = Roster(rooms[q])
  BY IndexUnchanged
<1>6. Queues'
  <2>1. \A q \in RoomId : Queued(q)'
    BY <1>2 DEF LobbyInv, Queues, Queued
  <2> QED  BY <1>3, <2>1 DEF Queues
<1>7. PointerIsMember'
  BY <1>5, PointersHold
<1>8. AllTold'
  <2> SUFFICES ASSUME NEW r \in RoomId, NEW x \in Session
               PROVE  /\ <<x, <<"room", r>>>> \in ToBeTold' => x \in Roster(rooms'[r])
                      /\ x \in Roster(rooms'[r]) /\ conn'[x] # "gone" => <<x, <<"room",
                           r>>>> \in ToBeTold'
    BY DEF AllTold
  <2> DEFINE m == <<x, <<"room", r>>>>
  <2>1. m \in ToBeTold' <=> Enters(job, m) \/ (m \in ToBeTold /\ ~Removes(job, m))
    BY <1>1, <1>3, ToldMore, RoomChannels
  <2>2. ~Enters(job, m) /\ (Removes(job, m) <=> x = s)
    BY DEF job, Enters, Removes
  <2>3. conn'[s] = "gone" /\ (x # s => conn'[x] = conn[x])
    BY DEF LobbyInv, TypeOK
  <2>4. /\ m \in ToBeTold => x \in Roster(rooms[r])
        /\ x \in Roster(rooms[r]) /\ conn[x] # "gone" => m \in ToBeTold
    BY DEF LobbyInv, AllTold
  <2> HIDE DEF m
  <2> QED  BY <1>5, <2>1, <2>2, <2>3, <2>4 DEF m
<1> QED  BY <1>4, <1>5, <1>6, <1>7, <1>8 DEF LobbyInv

-----------------------------------------------------------------------------
(***************************************************************************)
(* Room jobs                                                               *)
(***************************************************************************)
\* The listing of a well-formed room is one.
LEMMA SummaryType == ASSUME NEW room, RoomOK(room) PROVE Summary(room) \in Listing
<1>1. room \in RoomRecord /\ Len(room.members) <= Capacity /\ Len(room.members) \in Nat
  BY LenProperties DEF RoomOK, RoomRecord
<1>2. Len(room.members) \in 0..Capacity
  BY <1>1, RoomAssumption
<1> QED  BY <1>1, <1>2 DEF Summary, Listing, RoomRecord

\* A join that lets somebody in keeps the invariant: the player was in no other
\* room that still points to them, and is told of after everything said so far.
LEMMA JoinAdmittedHolds ==
  ASSUME LobbyInv, NEW r \in RoomId, JoinAdmitted(r)
  PROVE  LobbyInv'
<1> DEFINE s == Head(roomJobs[r]).who
           room == Admit(rooms[r], s)
           job == EnterJob({s}, <<"room", r>>)
<1> USE DEF handoffVars, peerVars
<1>1. Runs(r, "join")
  BY DEF JoinAdmitted
<1>2. /\ s \in Session /\ r \in 1..created /\ r <= created /\ ~(r > created)
      /\ RoomOK(rooms[r]) /\ Popped(r) \in [RoomId -> Seq(RoomJob)]
      /\ Popped(r)[r] = Tail(roomJobs[r])
      /\ \A q \in RoomId : q # r => Popped(r)[q] = roomJobs[q]
      /\ \A q \in RoomId : q > created => Popped(r)[q] = <<>>
  BY <1>1, Running, RoomJobFields
<1>3. PICK lapsed \in Lapses(r, s) : ~Refuses(rooms[r], s, Head(roomJobs[r]).opens, lapsed)
  BY DEF JoinAdmitted
<1> HIDE DEF s
<1>4. /\ RoomOK(room) /\ Roster(room) = Roster(rooms[r]) \cup {s}
      /\ room.members # <<>> /\ room.state = "Waiting"
  BY <1>2, <1>3, AdmitIsOK
<1>5. r \in registered
  BY <1>2, <1>3 DEF LobbyInv, Index, Indexed, Refuses
<1>6. /\ rooms' = [rooms EXCEPT ![r] = room]
      /\ roomOf' = [roomOf EXCEPT ![s] = r]
      /\ roomJobs' = Popped(r)
      /\ serverJobs' = Append(serverJobs, job)
      /\ summaries' = [summaries EXCEPT ![r] = Summary(room)]
      /\ UNCHANGED <<events, conn, clearing, created, registered, handoffVars, peerVars>>
  BY <1>5 DEF JoinAdmitted, Publish, s
<1>7. job \in ServerJob /\ job.op # "begin"
  <2>1. {s} \in SUBSET Session /\ <<"room", r>> \in Channel
    BY <1>2, RoomChannels
  <2> QED  BY <2>1, ServerJobsMade DEF EnterJob
<1> HIDE DEF room, job
<1>8. /\ serverJobs' \in Seq(ServerJob)
      /\ \A n \in 1..Len(serverJobs') : serverJobs'[n].op = "begin" =>
           serverJobs'[n].room <= created
  BY <1>6, <1>7, ServerPosted
<1>9. TypeOK'
  <2>1. room \in RoomRecord /\ Summary(room) \in Listing
    BY <1>4, SummaryType DEF RoomOK
  <2> QED  BY <1>2, <1>6, <1>8, <2>1 DEF LobbyInv, TypeOK
<1>10. /\ rooms'[r] = room /\ \A q \in RoomId : q # r => rooms'[q] = rooms[q]
       /\ summaries'[r] = Summary(room) /\ \A q \in RoomId : q # r => summaries'[q] = summaries[q]
       /\ roomOf'[s] = r /\ \A x \in Session : x # s => roomOf'[x] = roomOf[x]
  BY <1>2, <1>6 DEF LobbyInv, TypeOK
<1>11. Index'
  <2> SUFFICES ASSUME NEW q \in RoomId PROVE Indexed(q)'
    BY DEF Index
  <2>1. CASE q = r
    <3>1. room.state # "Closing" /\ created' = created /\ registered' = registered
      BY <1>4, <1>6
    <3> QED  BY <1>2, <1>4, <1>5, <1>10, <2>1, <3>1 DEF Indexed
  <2>2. CASE q # r
    BY <1>6, <1>10, <2>2 DEF LobbyInv, Index, Indexed
  <2> QED  BY <2>1, <2>2
<1>12. Queues'
  <2>1. ASSUME NEW q \in RoomId PROVE Queued(q)'
    <3>1. CASE q = r
      BY <1>2, <1>4, <1>6, <1>10, <3>1 DEF Queued
    <3>2. CASE q # r
      BY <1>2, <1>6, <1>10, <3>2 DEF LobbyInv, Queues, Queued
    <3> QED  BY <3>1, <3>2
  <2> QED  BY <1>6, <1>8, <2>1 DEF Queues
<1>13. PointerIsMember'
  <2> SUFFICES ASSUME NEW x \in Session, roomOf'[x] # None PROVE x \in Roster(rooms'[roomOf'[x]])
    BY DEF PointerIsMember
  <2>1. CASE x = s
    BY <1>4, <1>10, <2>1
  <2>2. CASE x # s
    <3>1. roomOf[x] \in RoomId /\ x \in Roster(rooms[roomOf[x]]) /\ roomOf'[x] = roomOf[x]
      BY <1>10, <2>2 DEF LobbyInv, TypeOK, PointerIsMember
    <3> QED  BY <1>4, <1>10, <3>1
  <2> QED  BY <2>1, <2>2
<1>14. AllTold'
  <2> SUFFICES ASSUME NEW q \in RoomId, NEW x \in Session
               PROVE  /\ <<x, <<"room", q>>>> \in ToBeTold' => x \in Roster(rooms'[q])
                      /\ x \in Roster(rooms'[q]) /\ conn'[x] # "gone" => <<x, <<"room",
                           q>>>> \in ToBeTold'
    BY DEF AllTold
  <2> DEFINE m == <<x, <<"room", q>>>>
  <2>1. m \in ToBeTold' <=> Enters(job, m) \/ (m \in ToBeTold /\ ~Removes(job, m))
    BY <1>6, <1>7, ToldMore, RoomChannels
  <2>2. (Enters(job, m) <=> x = s /\ q = r) /\ ~Removes(job, m)
    BY DEF job, Enters, Removes, EnterJob
  <2>3. x \in Roster(rooms'[q]) <=> x \in Roster(rooms[q]) \/ (x = s /\ q = r)
    BY <1>4, <1>10
  <2>4. /\ m \in ToBeTold => x \in Roster(rooms[q])
        /\ x \in Roster(rooms[q]) /\ conn[x] # "gone" => m \in ToBeTold
    BY DEF LobbyInv, AllTold
  <2> HIDE DEF m
  <2> QED  BY <1>6, <2>1, <2>2, <2>3, <2>4 DEF m
<1> QED  BY <1>9, <1>11, <1>12, <1>13, <1>14 DEF LobbyInv

\* To look at the pointer changes nothing of the lobby.
LEMMA CompareHolds ==
  ASSUME LobbyInv, NEW r \in RoomId, NEW s, Compare(r, s)
  PROVE  LobbyInv'
<1> USE DEF Compare, indexVars, handoffVars, peerVars
<1>1. TypeOK'
  BY DEF LobbyInv, TypeOK
<1>2. Index' /\ \A q \in RoomId : Roster(rooms'[q]) = Roster(rooms[q])
  BY IndexUnchanged
<1>3. Queues'
  BY DEF LobbyInv, Queues, Queued
<1>4. PointerIsMember'
  BY <1>2, PointersHold
<1>5. AllTold'
  BY <1>2, ToldUnchanged, ToldHolds
<1> QED  BY <1>1, <1>2, <1>3, <1>4, <1>5 DEF LobbyInv

\* A member who goes, by a leave or a kick, keeps the invariant: the index and the
\* channel follow, and the pointer, which led to this room or to another.
LEMMA DepartsHolds ==
  ASSUME LobbyInv, NEW r \in RoomId, NEW op, Runs(r, op), op # "join",
         NEW s \in Roster(rooms[r]), NEW room, RoomOK(room), Roster(room) = Roster(rooms[r]) \ {s},
         room.state = "Closing" <=> room.members = <<>>,
         Departs(r, s, room), roomJobs' = Popped(r),
         UNCHANGED <<events, conn, created, handoffVars, peerVars>>
  PROVE  LobbyInv'
<1> DEFINE job == ExitJob({s}, <<"room", r>>)
<1> USE DEF handoffVars, peerVars
<1>1. /\ r \in 1..created /\ r <= created /\ ~(r > created)
      /\ RoomOK(rooms[r]) /\ rooms[r] \in RoomRecord
      /\ rooms[r].members # <<>> => r \in registered
      /\ Popped(r) \in [RoomId -> Seq(RoomJob)]
      /\ Popped(r)[r] = Tail(roomJobs[r])
      /\ \A q \in RoomId : q # r => Popped(r)[q] = roomJobs[q]
      /\ \A q \in RoomId : q > created => Popped(r)[q] = <<>>
  BY Running
<1>2. s \in Session /\ rooms[r].members # <<>>
  <2>1. rooms[r].members \in Seq(Member)
    BY <1>1 DEF RoomRecord
  <2>2. PICK i \in 1..Len(rooms[r].members) : rooms[r].members[i].sid = s
    BY <2>1, RosterOf
  <2>3. rooms[r].members[i] \in Member
    BY <2>1, ElementOfSeq
  <2> QED  BY <2>1, <2>2, <2>3, EmptySeq DEF Member
<1>3. r \in registered
  BY <1>1, <1>2
<1>4. /\ rooms' = [rooms EXCEPT ![r] = room]
      /\ roomOf' = IF r \in clearing THEN [roomOf EXCEPT ![s] = None] ELSE roomOf
      /\ (r \in clearing \/ roomOf[s] # r) /\ clearing' = clearing \ {r}
      /\ serverJobs' = Append(serverJobs, job)
      /\ room.members = <<>> =>
            registered' = registered \ {r} /\ summaries' = [summaries EXCEPT ![r] = None]
      /\ room.members # <<>> =>
            registered' = registered /\ summaries' = [summaries EXCEPT ![r] = Summary(room)]
  BY <1>3 DEF Departs, Unpoint, Publish
<1>5. job \in ServerJob /\ job.op # "begin"
  <2>1. {s} \in SUBSET Session /\ <<"room", r>> \in Channel
    BY <1>2, RoomChannels
  <2> QED  BY <2>1, ServerJobsMade DEF ExitJob
<1> HIDE DEF job
<1>6. /\ serverJobs' \in Seq(ServerJob)
      /\ \A n \in 1..Len(serverJobs') : serverJobs'[n].op = "begin" =>
           serverJobs'[n].room <= created
  BY <1>4, <1>5, ServerPosted
<1>7. TypeOK'
  <2>1. room \in RoomRecord /\ Summary(room) \in Listing
    BY SummaryType DEF RoomOK
  <2>2. summaries' \in [RoomId -> Listing \cup {None}]
    BY <1>4, <2>1 DEF LobbyInv, TypeOK
  <2>3. /\ registered' \subseteq 1..created' /\ clearing' \subseteq RoomId
        /\ roomOf' \in [Session -> RoomId \cup {None}]
    BY <1>4 DEF LobbyInv, TypeOK
  <2> QED  BY <1>1, <1>4, <1>6, <2>1, <2>2, <2>3 DEF LobbyInv, TypeOK
<1>8. /\ rooms'[r] = room /\ \A q \in RoomId : q # r => rooms'[q] = rooms[q]
      /\ \A q \in RoomId : q # r => summaries'[q] = summaries[q] /\ (q \in registered' <=>
           q \in registered)
      /\ room.members = <<>> => summaries'[r] = None /\ r \notin registered'
      /\ room.members # <<>> => summaries'[r] = Summary(room) /\ r \in registered'
  BY <1>3, <1>4 DEF LobbyInv, TypeOK
<1>9. Index'
  <2> SUFFICES ASSUME NEW q \in RoomId PROVE Indexed(q)'
    BY DEF Index
  <2>1. CASE q = r
    <3>1. q <= created /\ ~(q > created)
      BY <1>1, <2>1
    <3> QED  BY <1>8, <2>1, <3>1 DEF Indexed
  <2>2. CASE q # r
    BY <1>8, <2>2 DEF LobbyInv, Index, Indexed
  <2> QED  BY <2>1, <2>2
<1>10. Queues'
  <2>1. ASSUME NEW q \in RoomId PROVE Queued(q)'
    <3>1. CASE q = r
      BY <1>1, <1>8, <3>1 DEF Queued
    <3>2. CASE q # r
      BY <1>1, <1>8, <3>2 DEF LobbyInv, Queues, Queued
    <3> QED  BY <3>1, <3>2
  <2> QED  BY <1>6, <2>1 DEF Queues
<1>11. PointerIsMember'
  <2> SUFFICES ASSUME NEW x \in Session, roomOf'[x] # None PROVE x \in Roster(rooms'[roomOf'[x]])
    BY DEF PointerIsMember
  <2>1. roomOf'[x] = roomOf[x] /\ (x = s => roomOf[x] # r)
    BY <1>2, <1>4 DEF LobbyInv, TypeOK
  <2>2. roomOf[x] \in RoomId /\ x \in Roster(rooms[roomOf[x]])
    BY <2>1 DEF LobbyInv, TypeOK, PointerIsMember
  <2> QED  BY <1>8, <2>1, <2>2
<1>12. AllTold'
  <2> SUFFICES ASSUME NEW q \in RoomId, NEW x \in Session
               PROVE  /\ <<x, <<"room", q>>>> \in ToBeTold' => x \in Roster(rooms'[q])
                      /\ x \in Roster(rooms'[q]) /\ conn'[x] # "gone" => <<x, <<"room",
                           q>>>> \in ToBeTold'
    BY DEF AllTold
  <2> DEFINE m == <<x, <<"room", q>>>>
  <2>1. m \in ToBeTold' <=> Enters(job, m) \/ (m \in ToBeTold /\ ~Removes(job, m))
    BY <1>4, <1>5, ToldMore, RoomChannels
  <2>2. (Removes(job, m) <=> x = s /\ q = r) /\ ~Enters(job, m)
    BY DEF job, Enters, Removes, ExitJob
  <2>3. x \in Roster(rooms'[q]) <=> x \in Roster(rooms[q]) /\ ~(x = s /\ q = r)
    BY <1>8
  <2>4. /\ m \in ToBeTold => x \in Roster(rooms[q])
        /\ x \in Roster(rooms[q]) /\ conn[x] # "gone" => m \in ToBeTold
    BY DEF LobbyInv, AllTold
  <2> HIDE DEF m
  <2> QED  BY <2>1, <2>2, <2>3, <2>4 DEF m
<1> QED  BY <1>7, <1>9, <1>10, <1>11, <1>12 DEF LobbyInv

\* A job that leaves the members of its room as they are, and may leave one for the server.
LEMMA TurnsHolds ==
  ASSUME LobbyInv, NEW r \in RoomId, NEW op, Runs(r, op), op # "join", rooms[r].members # <<>>,
         NEW room, RoomOK(room), Roster(room) = Roster(rooms[r]), room.members # <<>>,
         rooms' = [rooms EXCEPT ![r] = room], roomJobs' = Popped(r),
         r \in registered => summaries' = [summaries EXCEPT ![r] = Summary(room)],
         \/ serverJobs' = serverJobs
         \/ \E roster \in SUBSET Session :
               serverJobs' = Append(serverJobs, [op |-> "begin", room |-> r, roster |-> roster]),
         UNCHANGED <<sessionVars, created, registered, handoffVars, peers, loads>>,
         instances' \in [InstanceId -> Life]
  PROVE  LobbyInv'
<1> USE DEF handoffVars, sessionVars
<1>1. /\ r \in 1..created /\ r <= created /\ ~(r > created)
      /\ RoomOK(rooms[r]) /\ rooms[r] \in RoomRecord
      /\ r \in registered
      /\ Popped(r) \in [RoomId -> Seq(RoomJob)]
      /\ Popped(r)[r] = Tail(roomJobs[r])
      /\ \A q \in RoomId : q # r => Popped(r)[q] = roomJobs[q]
      /\ \A q \in RoomId : q > created => Popped(r)[q] = <<>>
  BY Running
<1>2. /\ serverJobs' \in Seq(ServerJob)
      /\ \A n \in 1..Len(serverJobs') : serverJobs'[n].op = "begin" =>
           serverJobs'[n].room <= created
      /\ \A q \in RoomId, x \in Session :
           <<x, <<"room", q>>>> \in ToBeTold' <=> <<x, <<"room", q>>>> \in ToBeTold
  <2>1. CASE serverJobs' = serverJobs
    BY <2>1, ToldUnchanged DEF LobbyInv, TypeOK, Queues
  <2>2. ASSUME NEW roster \in SUBSET Session,
               serverJobs' = Append(serverJobs, [op |-> "begin", room |-> r, roster |-> roster])
        PROVE  /\ serverJobs' \in Seq(ServerJob)
               /\ \A n \in 1..Len(serverJobs') : serverJobs'[n].op = "begin" =>
                     serverJobs'[n].room <= created
               /\ \A q \in RoomId, x \in Session :
                     <<x, <<"room", q>>>> \in ToBeTold' <=> <<x, <<"room", q>>>> \in ToBeTold
    <3> DEFINE job == [op |-> "begin", room |-> r, roster |-> roster]
    <3>1. job \in ServerJob /\ job.op = "begin" /\ job.room = r
      BY ServerJobsMade
    <3> HIDE DEF job
    <3>2. serverJobs' = Append(serverJobs, job)
      BY <2>2 DEF job
    <3>3. \A m : ~Enters(job, m) /\ ~Removes(job, m)
      BY <3>1 DEF Enters, Removes
    <3>4. \A q \in RoomId, x \in Session :
            <<x, <<"room", q>>>> \in ToBeTold' <=> <<x, <<"room", q>>>> \in ToBeTold
      BY <3>1, <3>2, <3>3, ToldMore, RoomChannels
    <3>5. /\ serverJobs' \in Seq(ServerJob)
          /\ \A n \in 1..Len(serverJobs') : serverJobs'[n].op = "begin" =>
               serverJobs'[n].room <= created
      BY <1>1, <3>1, <3>2, ServerPosted
    <3> QED  BY <3>4, <3>5
  <2> QED  BY <2>1, <2>2
<1>3. TypeOK'
  <2>1. room \in RoomRecord /\ Summary(room) \in Listing
    BY SummaryType DEF RoomOK
  <2>2. summaries' \in [RoomId -> Listing \cup {None}]
    BY <1>1, <2>1 DEF LobbyInv, TypeOK
  <2> QED  BY <1>1, <1>2, <2>1, <2>2 DEF LobbyInv, TypeOK
<1>4. /\ rooms'[r] = room /\ \A q \in RoomId : q # r => rooms'[q] = rooms[q]
      /\ summaries'[r] = Summary(room) /\ \A q \in RoomId : q # r => summaries'[q] = summaries[q]
  BY <1>1 DEF LobbyInv, TypeOK
<1>5. \A q \in RoomId : Roster(rooms'[q]) = Roster(rooms[q])
  BY <1>4
<1>6. Index'
  <2> SUFFICES ASSUME NEW q \in RoomId PROVE Indexed(q)'
    BY DEF Index
  <2>1. CASE q = r
    <3>1. q <= created /\ ~(q > created)
      BY <1>1, <2>1
    <3>2. room.state # "Closing" /\ RoomOK(rooms'[q])
      BY <1>4, <2>1 DEF RoomOK
    <3> QED  BY <1>1, <1>4, <2>1, <3>1, <3>2 DEF Indexed
  <2>2. CASE q # r
    BY <1>4, <2>2 DEF LobbyInv, Index, Indexed
  <2> QED  BY <2>1, <2>2
<1>7. Queues'
  <2>1. ASSUME NEW q \in RoomId PROVE Queued(q)'
    <3>1. CASE q = r
      BY <1>1, <1>4, <3>1 DEF Queued
    <3>2. CASE q # r
      BY <1>1, <1>4, <3>2 DEF LobbyInv, Queues, Queued
    <3> QED  BY <3>1, <3>2
  <2> QED  BY <1>2, <2>1 DEF Queues
<1>8. PointerIsMember'
  BY <1>5, PointersHold
<1>9. AllTold'
  BY <1>2, <1>5, ToldHolds
<1> QED  BY <1>3, <1>6, <1>7, <1>8, <1>9 DEF LobbyInv

\* A join that is refused keeps the invariant; a room that is empty and
\* registered never refuses the join that opens it.
LEMMA JoinRefusedHolds ==
  ASSUME LobbyInv, NEW r \in RoomId, JoinRefused(r)
  PROVE  LobbyInv'
<1> DEFINE job == Head(roomJobs[r])
           s == job.who
<1> USE DEF sessionVars, handoffVars, peerVars
<1>1. Runs(r, "join")
  BY DEF JoinRefused
<1>2. /\ job \in RoomJob /\ s \in Session /\ job.opens \in BOOLEAN /\ job.rest \in Seq(RoomId)
      /\ RoomOK(rooms[r]) /\ r <= created /\ ~(r > created)
      /\ Popped(r) \in [RoomId -> Seq(RoomJob)]
      /\ \A q \in RoomId : q # r => Popped(r)[q] = roomJobs[q]
      /\ \A q \in RoomId : q > created => Popped(r)[q] = <<>>
      /\ Opens(roomJobs[r]) => Opens(Popped(r)[r]) \/ job.opens
  BY <1>1, Running, RoomJobFields
<1>3. PICK lapsed \in Lapses(r, s) :
        /\ Refuses(rooms[r], s, job.opens, lapsed)
        /\ rooms' = IF lapsed /\ rooms[r].state = "Waiting"
                    THEN [rooms EXCEPT ![r] = Lapsed(@, s)] ELSE rooms
  BY DEF JoinRefused
<1>4. \/ job.via = "match" /\ QuickMatchStep(s, job.rest, Popped(r))
      \/ roomJobs' = Popped(r) /\ UNCHANGED <<created, registered>>
  BY DEF JoinRefused
<1>5. UNCHANGED <<sessionVars, summaries, serverJobs, handoffVars, peerVars>>
  BY DEF JoinRefused
<1> HIDE DEF job, s
<1>6. Grown(Popped(r))
  <2>1. CASE QuickMatchStep(s, job.rest, Popped(r))
    BY <1>2, <2>1, QuickMatchGrows
  <2>2. CASE roomJobs' = Popped(r) /\ UNCHANGED <<created, registered>>
    BY <1>2, <2>2 DEF Grown
  <2> QED  BY <1>4, <2>1, <2>2
<1>7. ASSUME rooms[r].members = <<>>, rooms[r].state # "Closing"
      PROVE  rooms' = rooms /\ ~job.opens
  <2>1. rooms[r] = NewRoom(rooms[r].locked)
    BY <1>2, <1>7 DEF RoomOK
  <2>2. rooms[r].cooldown = {} /\ rooms[r].state = "Waiting"
    BY <2>1 DEF NewRoom
  <2>3. ~lapsed
    BY <2>2 DEF Lapses
  <2>4. Roster(rooms[r]) = {}
    BY <1>2, <2>1, NewRoomIsOK DEF RoomOK, RoomRecord
  <2>5. ~(Len(rooms[r].members) >= Capacity)
    BY <1>7, EmptySeq, RoomAssumption
  <2> QED  BY <1>3, <2>2, <2>3, <2>4, <2>5 DEF Refuses
<1>8. \/ rooms' = rooms
      \/ rooms[r].members # <<>> /\ rooms' = [rooms EXCEPT ![r] = Lapsed(rooms[r], s)]
  BY <1>3, <1>7
<1>9. \A q \in RoomId :
         \/ rooms'[q] = rooms[q]
         \/ /\ rooms[q].members # <<>> /\ rooms'[q].members # <<>> /\ RoomOK(rooms'[q])
            /\ rooms'[q].state = rooms[q].state /\ Summary(rooms'[q]) = Summary(rooms[q])
            /\ Roster(rooms'[q]) = Roster(rooms[q]) /\ q = r
  <2>1. CASE rooms' = rooms
    BY <2>1
  <2>2. CASE rooms[r].members # <<>> /\ rooms' = [rooms EXCEPT ![r] = Lapsed(rooms[r], s)]
    <3>1. rooms'[r] = Lapsed(rooms[r], s) /\ \A q \in RoomId : q # r => rooms'[q] = rooms[q]
      BY <2>2 DEF LobbyInv, TypeOK
    <3> QED  BY <1>2, <2>2, <3>1, LapsedIsOK
  <2> QED  BY <1>8, <2>1, <2>2
<1>10. created' # created => rooms'[created + 1] = NewRoom(FALSE)
  <2> HAVE created' # created
  <2>1. created + 1 \in RoomId /\ created + 1 > created
    BY <1>6, MatchServerAssumption DEF Grown, LobbyInv, TypeOK
  <2>2. created + 1 # r
    BY <1>2, <2>1
  <2>3. rooms'[created + 1] = rooms[created + 1]
    BY <1>9, <2>1, <2>2
  <2> QED  BY <2>1, <2>3 DEF LobbyInv, Index, Indexed
<1>11. \A q \in RoomId : q > created' => rooms'[q] = rooms[q]
  <2>1. created \in Nat /\ (created' = created \/ created' = created + 1)
    BY <1>6, MatchServerAssumption DEF Grown, LobbyInv, TypeOK
  <2>2. \A q \in RoomId : q > created' => q # r
    BY <1>2, <2>1 DEF RoomId
  <2> QED  BY <1>9, <2>2
<1>12. \A q \in registered : rooms[q].members = <<>> => Opens(Popped(r)[q])
  <2> TAKE q \in registered
  <2> HAVE rooms[q].members = <<>>
  <2>1. q \in RoomId /\ q <= created
    BY MatchServerAssumption DEF LobbyInv, TypeOK, RoomId
  <2>2. Opens(roomJobs[q]) /\ rooms[q].state # "Closing"
    BY <2>1 DEF LobbyInv, Queues, Queued, Index, Indexed
  <2> QED  BY <1>2, <1>7, <2>1, <2>2
<1>13. created' \in 0..RoomCount /\ registered' \subseteq 1..created' /\ Index' /\ Queues'
  BY <1>5, <1>6, <1>9, <1>10, <1>11, <1>12, GrownHolds
<1>14. TypeOK'
  <2>1. rooms' \in [RoomId -> RoomRecord]
    <3>1. rooms' \in [RoomId -> RoomRecord] \/ (rooms[r].members # <<>> /\
            rooms' = [rooms EXCEPT ![r] = Lapsed(rooms[r], s)])
      BY <1>8 DEF LobbyInv, TypeOK
    <3>2. rooms[r].members # <<>> => Lapsed(rooms[r], s) \in RoomRecord
      BY <1>2, LapsedIsOK DEF RoomOK
    <3> QED  BY <3>1, <3>2 DEF LobbyInv, TypeOK
  <2>2. roomJobs' \in [RoomId -> Seq(RoomJob)]
    BY <1>6 DEF Grown
  <2> QED  BY <1>5, <1>13, <2>1, <2>2 DEF LobbyInv, TypeOK
<1>15. \A q \in RoomId : Roster(rooms'[q]) = Roster(rooms[q])
  BY <1>9
<1>16. PointerIsMember'
  BY <1>5, <1>15, PointersHold
<1>17. AllTold'
  BY <1>5, <1>15, ToldUnchanged, ToldHolds
<1> QED  BY <1>13, <1>14, <1>16, <1>17 DEF LobbyInv

\* A room job that has nothing to do keeps the invariant.
LEMMA PassesHolds ==
  ASSUME LobbyInv, NEW r \in RoomId, NEW op, Runs(r, op), op # "join",
         roomJobs' = Popped(r), instances' \in [InstanceId -> Life],
         UNCHANGED <<sessionVars, indexVars, rooms, serverJobs, handoffVars, peers, loads>>
  PROVE  LobbyInv'
<1> USE DEF sessionVars, indexVars, handoffVars
<1>1. /\ Popped(r) \in [RoomId -> Seq(RoomJob)]
      /\ \A q \in RoomId : q # r => Popped(r)[q] = roomJobs[q]
      /\ \A q \in RoomId : q > created => Popped(r)[q] = <<>>
      /\ Opens(roomJobs[r]) => Opens(Popped(r)[r])
  BY Running
<1>2. TypeOK'
  BY <1>1 DEF LobbyInv, TypeOK
<1>3. Index' /\ \A q \in RoomId : Roster(rooms'[q]) = Roster(rooms[q])
  BY IndexUnchanged
<1>4. Queues'
  <2>1. \A q \in RoomId : Queued(q)'
    BY <1>1 DEF LobbyInv, Queues, Queued
  <2> QED  BY <2>1 DEF LobbyInv, Queues
<1>5. PointerIsMember'
  BY <1>3, PointersHold
<1>6. AllTold'
  BY <1>3, ToldUnchanged, ToldHolds
<1> QED  BY <1>2, <1>3, <1>4, <1>5, <1>6 DEF LobbyInv

\* Every job of a room keeps the invariant.
LEMMA RoomStepHolds ==
  ASSUME LobbyInv, NEW r \in RoomId, RoomStep(r)
  PROVE  LobbyInv'
<1> DEFINE job == Head(roomJobs[r])
<1> USE DEF sessionVars, indexVars, handoffVars, peerVars
<1>0. rooms[r].members = <<>> => rooms[r].state \in {"Waiting", "Closing"} /\ Roster(rooms[r]) = {}
  <2>1. RoomOK(rooms[r])
    BY DEF LobbyInv, Index, Indexed
  <2>2. rooms[r].members = <<>> => Roster(rooms[r]) = {}
    <3>1. rooms[r].members = <<>> => \A x : x \notin Roster(rooms[r])
      BY <2>1, RosterOf, EmptySeq DEF RoomOK, RoomRecord
    <3> QED  BY <3>1
  <2> QED  BY <2>1, <2>2 DEF RoomOK, NewRoom
<1>1. ASSUME Passes(r), NEW op, Runs(r, op), op # "join" PROVE LobbyInv'
  <2>1. instances' \in [InstanceId -> Life]
    BY <1>1 DEF Passes, LobbyInv, TypeOK
  <2> QED  BY <1>1, <2>1, PassesHolds DEF Passes
<1>2. ASSUME HandleLeave(r) PROVE LobbyInv'
  <2>1. Runs(r, "leave") /\ RoomOK(rooms[r])
    BY <1>2, Running DEF HandleLeave
  <2>2. CASE job.who \notin Roster(rooms[r]) /\ Passes(r)
    BY <1>1, <2>1, <2>2
  <2>3. CASE /\ job.who \in Roster(rooms[r]) /\ Departs(r, job.who, Drop(rooms[r], job.who))
             /\ roomJobs' = Popped(r) /\ UNCHANGED <<events, conn, created, handoffVars, peerVars>>
    <3> DEFINE s == job.who  room == Drop(rooms[r], s)
    <3>1. /\ RoomOK(room) /\ Roster(room) = Roster(rooms[r]) \ {s}
          /\ room.state = "Closing" <=> room.members = <<>>
      BY <2>1, <2>3, DropIsOK
    <3> HIDE DEF room, s
    <3>2. s \in Roster(rooms[r]) /\ Departs(r, s, room) /\ roomJobs' = Popped(r)
          /\ UNCHANGED <<events, conn, created, handoffVars, peerVars>>
      BY <2>3 DEF room, s
    <3> QED  BY <2>1, <3>1, <3>2, DepartsHolds
  <2>4. CASE job.who \in Roster(rooms[r]) /\ Compare(r, job.who)
    BY <2>4, CompareHolds
  <2> QED  BY <1>2, <2>2, <2>3, <2>4 DEF HandleLeave
<1>3. ASSUME HandleKick(r) PROVE LobbyInv'
  <2>1. Runs(r, "kick") /\ RoomOK(rooms[r])
    BY <1>3, Running DEF HandleKick
  <2>2. CASE ~MayKick(rooms[r], job.who, job.target) /\ Passes(r)
    BY <1>1, <2>1, <2>2
  <2>3. CASE /\ MayKick(rooms[r], job.who, job.target)
             /\ Departs(r, job.target, Kicked(rooms[r], job.target))
             /\ roomJobs' = Popped(r) /\ UNCHANGED <<events, conn, created, handoffVars, peerVars>>
    <3> DEFINE s == job.target  room == Kicked(rooms[r], s)
    <3>1. /\ s \in Roster(rooms[r]) /\ RoomOK(room) /\ Roster(room) = Roster(rooms[r]) \ {s}
          /\ room.state = "Closing" <=> room.members = <<>>
      BY <2>1, <2>3, KickedIsOK
    <3> HIDE DEF room, s
    <3>2. Departs(r, s, room) /\ roomJobs' = Popped(r)
          /\ UNCHANGED <<events, conn, created, handoffVars, peerVars>>
      BY <2>3 DEF room, s
    <3> QED  BY <2>1, <3>1, <3>2, DepartsHolds
  <2>4. CASE MayKick(rooms[r], job.who, job.target) /\ Compare(r, job.target)
    BY <2>4, CompareHolds
  <2> QED  BY <1>3, <2>2, <2>3, <2>4 DEF HandleKick
<1>4. ASSUME HandleReady(r) PROVE LobbyInv'
  <2>1. Runs(r, "ready") /\ RoomOK(rooms[r])
    BY <1>4, Running DEF HandleReady
  <2>2. job.ready \in BOOLEAN
    BY <2>1, Running, RoomJobFields
  <2> DEFINE room == SetReady(rooms[r], job.who, job.ready)
  <2>3. rooms' = [rooms EXCEPT ![r] = room] /\ roomJobs' = Popped(r)
        /\ UNCHANGED <<sessionVars, indexVars, serverJobs, handoffVars, peerVars>>
    BY <1>4 DEF HandleReady
  <2>4. instances' \in [InstanceId -> Life]
    BY <2>3 DEF LobbyInv, TypeOK
  <2>5. CASE rooms[r].members = <<>>
    <3>1. room = rooms[r]
      BY <2>1, <2>5, NobodyReady
    <3>2. rooms' = rooms
      BY <2>3, <3>1 DEF LobbyInv, TypeOK
    <3> QED  BY <2>1, <2>3, <2>4, <3>2, PassesHolds
  <2>6. CASE rooms[r].members # <<>>
    <3>1. /\ RoomOK(room) /\ Roster(room) = Roster(rooms[r]) /\ room.members # <<>>
          /\ Summary(room) = Summary(rooms[r])
      BY <2>1, <2>2, <2>6, SetReadyIsOK
    <3>2. summaries' = [summaries EXCEPT ![r] = Summary(room)]
      BY <2>3, <2>6, <3>1 DEF LobbyInv, TypeOK, Index, Indexed
    <3> HIDE DEF room
    <3> QED  BY <2>1, <2>3, <2>4, <2>6, <3>1, <3>2, TurnsHolds
  <2> QED  BY <2>5, <2>6
<1>5. ASSUME NEW op, Runs(r, op), op # "join", rooms[r].members # <<>>, NEW room, RoomOK(room),
             Roster(room) = Roster(rooms[r]), room.members # <<>>,
             Turns(r, room, <<>>), UNCHANGED peerVars
      PROVE  LobbyInv'
  <2>1. serverJobs' = serverJobs
    <3>1. serverJobs \in Seq(ServerJob)
      BY DEF LobbyInv, TypeOK
    <3> QED  BY <1>5, <3>1, ConcatEmptySeq DEF Turns
  <2>2. instances' \in [InstanceId -> Life]
    BY <1>5 DEF LobbyInv, TypeOK
  <2> QED  BY <1>5, <2>1, <2>2, TurnsHolds DEF Turns, Publish
<1>6. ASSUME HandleStart(r) PROVE LobbyInv'
  <2>1. Runs(r, "start") /\ RoomOK(rooms[r]) /\ job.who \in Session
    BY <1>6, Running, RoomJobFields DEF HandleStart
  <2>2. CASE ~MayStart(rooms[r], job.who) /\ Passes(r)
    BY <1>1, <2>1, <2>2
  <2> DEFINE room == [rooms[r] EXCEPT !.state = "Starting"]
             start == [op |-> "begin", room |-> r, roster |-> Roster(rooms[r])]
  <2>3. CASE MayStart(rooms[r], job.who) /\ Turns(r, room, <<start>>) /\ UNCHANGED peerVars
    <3>1. rooms[r].members # <<>>
      <4> SUFFICES ASSUME rooms[r].members = <<>> PROVE FALSE
        OBVIOUS
      <4>1. rooms[r].host = None
        BY <2>1, <2>3 DEF RoomOK, MayStart, NewRoom
      <4> QED  BY <2>1, <2>3, <4>1, RoomAssumption DEF MayStart
    <3>2. RoomOK(room) /\ Roster(room) = Roster(rooms[r]) /\ room.members # <<>>
      BY <2>1, <3>1, TurnIsOK
    <3>3. Roster(rooms[r]) \in SUBSET Session
      <4>1. rooms[r].members \in Seq(Member)
        BY <2>1 DEF RoomOK, RoomRecord
      <4>2. \A i \in 1..Len(rooms[r].members) : rooms[r].members[i] \in Member
        BY <4>1, ElementOfSeq
      <4>3. \A i \in 1..Len(rooms[r].members) : rooms[r].members[i].sid \in Session
        BY <4>2 DEF Member
      <4> QED  BY <4>1, <4>3, RosterOf
    <3>4. serverJobs' = Append(serverJobs, start)
      <4>1. serverJobs \in Seq(ServerJob) /\ start \in ServerJob
        BY <3>3, ServerJobsMade DEF LobbyInv, TypeOK
      <4> QED  BY <2>3, <4>1, AppendIsConcat DEF Turns
    <3>5. instances' \in [InstanceId -> Life]
      BY <2>3 DEF LobbyInv, TypeOK
    <3>6. /\ rooms' = [rooms EXCEPT ![r] = room] /\ roomJobs' = Popped(r)
          /\ r \in registered => summaries' = [summaries EXCEPT ![r] = Summary(room)]
          /\ UNCHANGED <<sessionVars, created, registered, handoffVars, peers, loads>>
      BY <2>3 DEF Turns, Publish
    <3> HIDE DEF room
    <3> QED  BY <2>1, <3>1, <3>2, <3>3, <3>4, <3>5, <3>6, TurnsHolds
  <2> QED  BY <1>6, <2>2, <2>3 DEF HandleStart
<1>7. ASSUME HandleTickets(r) PROVE LobbyInv'
  <2>1. instances' \in [InstanceId -> Life]
    BY <1>7 DEF HandleTickets, LobbyInv, TypeOK, Life
  <2> QED  BY <1>7, <2>1, PassesHolds DEF HandleTickets
<1>8. ASSUME HandleFailed(r) PROVE LobbyInv'
  <2>1. Runs(r, "failed") /\ RoomOK(rooms[r])
    BY <1>8, Running DEF HandleFailed
  <2> DEFINE room == [rooms[r] EXCEPT !.state = "Waiting"]
  <2>2. CASE rooms[r].state # "Starting" /\ Passes(r)
    BY <1>1, <2>1, <2>2
  <2>3. CASE rooms[r].state = "Starting" /\ Turns(r, room, <<>>) /\ UNCHANGED peerVars
    <3>1. RoomOK(room) /\ Roster(room) = Roster(rooms[r]) /\ room.members # <<>>
      BY <1>0, <2>1, <2>3, TurnIsOK
    <3> HIDE DEF room
    <3> QED  BY <1>0, <1>5, <2>1, <2>3, <3>1
  <2> QED  BY <1>8, <2>2, <2>3 DEF HandleFailed
<1>9. ASSUME HandleRunning(r) PROVE LobbyInv'
  <2>1. Runs(r, "running") /\ RoomOK(rooms[r])
    BY <1>9, Running DEF HandleRunning
  <2> DEFINE room == [rooms[r] EXCEPT !.state = "InGame"]
  <2>2. CASE rooms[r].state # "Starting" /\ Passes(r)
    BY <1>1, <2>1, <2>2
  <2>3. CASE rooms[r].state = "Starting" /\ Turns(r, room, <<>>) /\ UNCHANGED peerVars
    <3>1. RoomOK(room) /\ Roster(room) = Roster(rooms[r]) /\ room.members # <<>>
      BY <1>0, <2>1, <2>3, TurnIsOK
    <3> HIDE DEF room
    <3> QED  BY <1>0, <1>5, <2>1, <2>3, <3>1
  <2> QED  BY <1>9, <2>2, <2>3 DEF HandleRunning
<1>10. ASSUME HandleFinished(r) PROVE LobbyInv'
  <2>1. Runs(r, "finished") /\ RoomOK(rooms[r])
    BY <1>10, Running DEF HandleFinished
  <2> DEFINE room == Returned(rooms[r])
  <2>2. CASE rooms[r].state \notin {"InGame", "Starting"} /\ Passes(r)
    BY <1>1, <2>1, <2>2
  <2>3. CASE rooms[r].state \in {"InGame", "Starting"} /\ Turns(r, room, <<>>) /\ UNCHANGED peerVars
    <3>1. RoomOK(room) /\ Roster(room) = Roster(rooms[r]) /\ room.members # <<>>
      BY <1>0, <2>1, <2>3, ReturnedIsOK
    <3> HIDE DEF room
    <3> QED  BY <1>0, <1>5, <2>1, <2>3, <3>1
  <2> QED  BY <1>10, <2>2, <2>3 DEF HandleFinished
<1> QED
  BY <1>2, <1>3, <1>4, <1>6, <1>7, <1>8, <1>9, <1>10, JoinAdmittedHolds, JoinRefusedHolds
  DEF RoomStep

-----------------------------------------------------------------------------
(***************************************************************************)
(* Jobs of the server                                                      *)
(***************************************************************************)
\* SetToSeq lists the elements of a finite set, each once.
LEMMA SetToSeqProperties ==
  ASSUME NEW T, IsFiniteSet(T)
  PROVE  /\ SetToSeq(T) \in Seq(T) /\ Len(SetToSeq(T)) = Cardinality(T)
         /\ \A x \in T : \E n \in 1..Len(SetToSeq(T)) : SetToSeq(T)[n] = x
<1> DEFINE list == SetToSeq(T)  n == Cardinality(T)
<1>1. n \in Nat /\ ExistsBijection(1..n, T)
  BY FS_CardinalityType
<1>2. PICK f : f \in Bijection(1..n, T)
  BY <1>1, Fun_ExistsBij
<1>3. f \in [1..n -> T] /\ IsInjective(f)
  <2>1. f \in [1..n -> T] /\ \A a, b \in 1..n : f[a] = f[b] => a = b
    BY <1>2, Fun_BijectionProperties
  <2> QED  BY <2>1 DEF IsInjective
<1>4. list \in [1..n -> T] /\ IsInjective(list)
  BY <1>3 DEF SetToSeq
<1>5. list \in Seq(T) /\ Len(list) = n
  <2> HIDE DEF list, n
  <2> QED  BY <1>1, <1>4, FunctionIsSeq
<1>6. \A x \in T : \E k \in 1..n : list[k] = x
  <2> HIDE DEF list
  <2>1. list \in Injection(1..n, T)
    <3>1. \A a, b \in 1..n : list[a] = list[b] => a = b
      BY <1>4 DEF IsInjective
    <3> QED  BY <1>4, <3>1, Fun_IsInj
  <2>2. IsFiniteSet(1..n) /\ Cardinality(1..n) = n
    BY <1>1, FS_Interval
  <2>3. list \in Surjection(1..n, T)
    BY <2>1, <2>2, FS_Injection
  <2> QED  BY <2>3 DEF Surjection
<1> QED  BY <1>5, <1>6

\* There are finitely many instances.
LEMMA InstancesFinite ==
  ASSUME NEW T \in SUBSET InstanceId
  PROVE  IsFiniteSet(T) /\ Cardinality(T) \in Nat
<1>1. IsFiniteSet(InstanceId)
  BY MatchServerAssumption, FS_Interval DEF InstanceId
<1> QED  BY <1>1, FS_Subset, FS_CardinalityType

\* Answers to rooms leave their queues well-formed and their opening joins there.
LEMMA AnsweredIsOK ==
  ASSUME LobbyInv, NEW ended \in SUBSET InstanceId, NEW job \in RoomJob
  PROVE  /\ Answered(ended, job) \in [RoomId -> Seq(RoomJob)]
         /\ \A q \in RoomId : q > created => Answered(ended, job)[q] = <<>>
         /\ \A q \in RoomId : Opens(roomJobs[q]) => Opens(Answered(ended, job)[q])
<1>1. roomJobs \in [RoomId -> Seq(RoomJob)]
  BY DEF LobbyInv, TypeOK
<1>2. ASSUME NEW q \in RoomId
      PROVE  /\ Answered(ended, job)[q] \in Seq(RoomJob)
             /\ q > created => Answered(ended, job)[q] = <<>>
             /\ Opens(roomJobs[q]) => Opens(Answered(ended, job)[q])
  <2> DEFINE n == Cardinality({i \in ended : handoffs[i].room = q})
             answer == [k \in 1..n |-> job]
             more == IF q \in registered THEN answer ELSE <<>>
  <2>1. Answered(ended, job)[q] = roomJobs[q] \o more
    BY DEF Answered
  <2>2. more \in Seq(RoomJob)
    <3>1. {i \in ended : handoffs[i].room = q} \in SUBSET InstanceId
      OBVIOUS
    <3>2. n \in Nat
      BY <3>1, InstancesFinite
    <3> HIDE DEF n
    <3>3. answer \in [1..n -> RoomJob]
      OBVIOUS
    <3> HIDE DEF answer
    <3>4. answer \in Seq(RoomJob)
      BY <3>2, <3>3, FunctionIsSeq
    <3> QED  BY <3>4, EmptySeq
  <2>3. q > created => roomJobs[q] = <<>> /\ more = <<>>
    <3>1. q > created => q \notin registered
      BY MatchServerAssumption DEF LobbyInv, TypeOK, RoomId
    <3> QED  BY <3>1 DEF LobbyInv, Queues, Queued
  <2> HIDE DEF more
  <2>4. roomJobs[q] \in Seq(RoomJob)
    BY <1>1
  <2>5. /\ roomJobs[q] \o more \in Seq(RoomJob)
        /\ Opens(roomJobs[q]) => Opens(roomJobs[q] \o more)
    BY <2>2, <2>4, ConcatProperties, OpensConcat
  <2>6. q > created => roomJobs[q] \o more = <<>>
    BY <2>3, EmptySeq
  <2> QED  BY <2>1, <2>5, <2>6
<1> DEFINE then == Answered(ended, job)
<1>3. then = [q \in RoomId |-> then[q]]
  BY DEF Answered
<1>4. \A q \in RoomId : then[q] \in Seq(RoomJob)
  BY <1>2
<1> HIDE DEF then
<1>5. then \in [RoomId -> Seq(RoomJob)]
  BY <1>3, <1>4
<1> QED  BY <1>2, <1>5 DEF then

\* The exits of matches that end.
LEMMA ChannelsLeftIsOK ==
  ASSUME LobbyInv, NEW ended \in SUBSET InstanceId, \A i \in ended : handoffs[i] # None
  PROVE  /\ ChannelsLeft(ended) \in Seq(ServerJob)
         /\ \A n \in 1..Len(ChannelsLeft(ended)) : \E i \in ended :
               ChannelsLeft(ended)[n] = ExitJob(handoffs[i].roster, <<"instance", i>>)
         /\ \A i \in ended : \E n \in 1..Len(ChannelsLeft(ended)) :
               ChannelsLeft(ended)[n] = ExitJob(handoffs[i].roster, <<"instance", i>>)
<1> DEFINE exit == [i \in ended |-> ExitJob(handoffs[i].roster, <<"instance", i>>)]
           T == {ExitJob(handoffs[i].roster, <<"instance", i>>) : i \in ended}
           list == SetToSeq(T)
<1>1. T = {exit[i] : i \in ended}
  OBVIOUS
<1>2. IsFiniteSet(T)
  <2>1. exit \in Surjection(ended, T)
    <3>1. exit \in [ended -> T] /\ \A t \in T : \E i \in ended : exit[i] = t
      OBVIOUS
    <3> HIDE DEF exit, T
    <3> QED  BY <3>1, Fun_IsSurj
  <2>2. IsFiniteSet(ended)
    BY InstancesFinite
  <2> HIDE DEF exit, T
  <2> QED  BY <2>1, <2>2, FS_Surjection
<1>3. T \subseteq ServerJob
  <2> SUFFICES ASSUME NEW i \in ended
               PROVE  ExitJob(handoffs[i].roster, <<"instance", i>>) \in ServerJob
    OBVIOUS
  <2>1. handoffs[i] \in Handoff
    BY DEF LobbyInv, TypeOK
  <2>2. handoffs[i].roster \in SUBSET Session /\ <<"instance", i>> \in Channel
    BY <2>1 DEF Handoff, Channel
  <2> QED  BY <2>2, ServerJobsMade
<1>4. /\ list \in Seq(T)
      /\ \A x \in T : \E n \in 1..Len(list) : list[n] = x
  <2> HIDE DEF T
  <2> QED  BY <1>2, SetToSeqProperties
<1>5. \A n \in 1..Len(list) : list[n] \in T
  <2> HIDE DEF T, list
  <2> QED  BY <1>4, ElementOfSeq
<1>6. list \in Seq(ServerJob)
  <2> HIDE DEF T, list
  <2>1. Len(list) \in Nat /\ list = [n \in 1..Len(list) |-> list[n]]
    BY <1>4, LenProperties
  <2>2. list \in [1..Len(list) -> ServerJob]
    BY <1>3, <1>5, <2>1
  <2> QED  BY <2>1, <2>2, FunctionIsSeq
<1>7. ChannelsLeft(ended) = list
  BY DEF ChannelsLeft
<1>8. \A n \in 1..Len(list) : \E i \in ended : list[n] = ExitJob(handoffs[i].roster, <<"instance",
        i>>)
  <2> HIDE DEF list
  <2> QED  BY <1>5
<1>9. \A i \in ended : \E n \in 1..Len(list) : list[n] = ExitJob(handoffs[i].roster, <<"instance",
        i>>)
  <2> HIDE DEF list
  <2> QED  BY <1>4
<1> HIDE DEF list
<1> QED  BY <1>6, <1>7, <1>8, <1>9

\* The channels of matches are not those of rooms.
LEMMA OtherChannel ==
  \A who, i, r, s : /\ ~Enters(EnterJob(who, <<"instance", i>>), <<s, <<"room", r>>>>)
                    /\ ~Removes(EnterJob(who, <<"instance", i>>), <<s, <<"room", r>>>>)
                    /\ ~Enters(ExitJob(who, <<"instance", i>>), <<s, <<"room", r>>>>)
                    /\ ~Removes(ExitJob(who, <<"instance", i>>), <<s, <<"room", r>>>>)
BY DEF Enters, Removes, EnterJob, ExitJob

\* What goes on behind the lobby leaves it as it is.
LEMMA BackstageHolds ==
  ASSUME LobbyInv, UNCHANGED <<sessionVars, indexVars, rooms>>,
         /\ roomJobs' \in [RoomId -> Seq(RoomJob)]
         /\ \A q \in RoomId : q > created => roomJobs'[q] = <<>>
         /\ \A q \in RoomId : Opens(roomJobs[q]) => Opens(roomJobs'[q]),
         /\ serverJobs' \in Seq(ServerJob)
         /\ \A n \in 1..Len(serverJobs') : serverJobs'[n].op = "begin" =>
              serverJobs'[n].room <= created,
         memberships' \subseteq Session \X Channel,
         handoffs' \in [InstanceId -> Handoff \cup {None}],
         started' \in 0..InstanceCount,
         instances' \in [InstanceId -> Life],
         peers' \in [Peer -> Presence],
         loads' \in [Peer -> Int],
         \A r \in RoomId, s \in Session :
            <<s, <<"room", r>>>> \in ToBeTold' <=> <<s, <<"room", r>>>> \in ToBeTold
  PROVE  LobbyInv'
<1>1. UNCHANGED <<events, conn, roomOf, clearing, created, registered, summaries>>
  BY DEF sessionVars, indexVars
<1>2. TypeOK'
  BY <1>1 DEF LobbyInv, TypeOK
<1>3. Index' /\ \A q \in RoomId : Roster(rooms'[q]) = Roster(rooms[q])
  BY IndexUnchanged
<1>4. Queues'
  <2>1. \A q \in RoomId : Queued(q)'
    BY <1>1 DEF LobbyInv, Queues, Queued
  <2> QED  BY <1>1, <2>1 DEF LobbyInv, Queues
<1>5. PointerIsMember'
  BY <1>1, <1>3, PointersHold
<1>6. AllTold'
  BY <1>1, <1>3, ToldHolds
<1> QED  BY <1>2, <1>3, <1>4, <1>5, <1>6 DEF LobbyInv

\* A job taken off the server queue and one appended: the one appended has the
\* last word.
LEMMA ToldThen ==
  ASSUME LobbyInv, NEW op, op \notin {"enter", "exit", "closed"}, ServerRuns(op),
         NEW job \in ServerJob, serverJobs' = Append(Tail(serverJobs), job),
         memberships' = memberships, NEW s \in Session, NEW c \in Channel
  PROVE  <<s, c>> \in ToBeTold' <=>
            Enters(job, <<s, c>>) \/ (<<s, c>> \in ToBeTold /\ ~Removes(job, <<s, c>>))
<1> DEFINE m == <<s, c>>  rest == Tail(serverJobs)
<1>1. rest \in Seq(ServerJob) /\ m \in Session \X Channel
  BY ServerRunning
<1>2. Known(memberships, rest) = ToBeTold
  BY ToldAsBefore
<1>3. ToBeTold' = Known(memberships, Append(rest, job))
  BY DEF ToBeTold
<1> HIDE DEF m, rest
<1>4. m \in Known(memberships, Append(rest, job)) <=>
        Enters(job, m) \/ (m \in Known(memberships, rest) /\ ~Removes(job, m))
  BY <1>1, KnownAppend
<1> QED  BY <1>2, <1>3, <1>4 DEF m

\* Matches that end take their players out of their channels, and nobody out of
\* a channel of a room.
LEMMA ToldWithout ==
  ASSUME LobbyInv, NEW op, op \notin {"enter", "exit", "closed"}, ServerRuns(op),
         NEW ended \in SUBSET InstanceId, \A i \in ended : handoffs[i] # None,
         serverJobs' = Tail(serverJobs) \o ChannelsLeft(ended),
         memberships' = memberships, NEW s \in Session, NEW c \in Channel
  PROVE  <<s, c>> \in ToBeTold' <=>
            /\ <<s, c>> \in ToBeTold
            /\ ~\E i \in ended : c = <<"instance", i>> /\ s \in handoffs[i].roster
<1> DEFINE m == <<s, c>>  rest == Tail(serverJobs)  exits == ChannelsLeft(ended)
           Left == \E i \in ended : c = <<"instance", i>> /\ s \in handoffs[i].roster
<1>1. rest \in Seq(ServerJob) /\ m \in Session \X Channel
  BY ServerRunning
<1>2. Known(memberships, rest) = ToBeTold
  BY ToldAsBefore
<1>3. ToBeTold' = Known(memberships, rest \o exits)
  BY DEF ToBeTold
<1>4. /\ exits \in Seq(ServerJob)
      /\ \A n \in 1..Len(exits) : \E i \in ended :
            exits[n] = ExitJob(handoffs[i].roster, <<"instance", i>>)
      /\ \A i \in ended : \E n \in 1..Len(exits) :
            exits[n] = ExitJob(handoffs[i].roster, <<"instance", i>>)
  BY ChannelsLeftIsOK
<1>5. \A i : /\ ~Enters(ExitJob(handoffs[i].roster, <<"instance", i>>), m)
             /\ Removes(ExitJob(handoffs[i].roster, <<"instance", i>>), m) <=>
                   s \in handoffs[i].roster /\ c = <<"instance", i>>
  BY DEF Enters, Removes, ExitJob
<1>6. (\A k \in 1..Len(exits) : ~Removes(exits[k], m)) <=> ~Left
  <2> HIDE DEF exits, m
  <2> QED  BY <1>4, <1>5
<1>7. \A k \in 1..Len(exits) : ~Enters(exits[k], m)
  <2> HIDE DEF exits, m
  <2> QED  BY <1>4, <1>5
<1> HIDE DEF m, rest, exits, Left
<1>8. m \in Known(memberships, rest \o exits) <=>
        m \in Known(memberships, rest) /\ \A k \in 1..Len(exits) : ~Removes(exits[k], m)
  BY <1>1, <1>4, <1>7, KnownConcat
<1> QED  BY <1>2, <1>3, <1>6, <1>8 DEF m, Left

\* Telling chat and voice keeps the invariant, and makes no difference to what
\* will be known.
LEMMA TellChannelsHolds ==
  ASSUME LobbyInv, TellChannels
  PROVE  LobbyInv' /\ ToBeTold' = ToBeTold
<1> USE DEF TellChannels, peerVars
<1>1. PICK op \in {"enter", "exit", "closed"} : ServerRuns(op)
  OBVIOUS
<1>2. /\ serverJobs # <<>> /\ serverJobs \in Seq(ServerJob) /\ Head(serverJobs) \in ServerJob
      /\ Tail(serverJobs) \in Seq(ServerJob)
      /\ \A n \in 1..Len(Tail(serverJobs)) : Tail(serverJobs)[n].op = "begin" =>
            Tail(serverJobs)[n].room <= created
  BY <1>1, ServerRunning
<1>3. memberships \subseteq Session \X Channel
  BY DEF LobbyInv, TypeOK
<1>4. ToBeTold' = ToBeTold
  <2>1. Known(Told(memberships, Head(serverJobs)), Tail(serverJobs)) = Known(memberships,
          serverJobs)
    BY <1>2, <1>3, KnownTold
  <2> QED  BY <2>1 DEF ToBeTold
<1>5. memberships' \subseteq Session \X Channel
  <2> DEFINE job == Head(serverJobs)
  <2>1. /\ job.op \in {"enter", "exit"} => job.who \in SUBSET Session /\ job.channel \in Channel
        /\ job.op \in {"enter", "exit", "closed"}
    BY <1>1, <1>2, ServerJobFields DEF ServerRuns
  <2>2. memberships' = Told(memberships, job)
    OBVIOUS
  <2> HIDE DEF job
  <2>3. CASE job.op = "enter"
    BY <1>3, <2>1, <2>2, <2>3 DEF Told
  <2>4. CASE job.op = "exit"
    BY <1>3, <2>1, <2>2, <2>4 DEF Told
  <2>5. CASE job.op = "closed"
    BY <1>3, <2>1, <2>2, <2>5 DEF Told
  <2> QED  BY <2>1, <2>3, <2>4, <2>5
<1>6. LobbyInv'
  <2>1. /\ roomJobs' \in [RoomId -> Seq(RoomJob)]
        /\ \A q \in RoomId : q > created => roomJobs'[q] = <<>>
        /\ \A q \in RoomId : Opens(roomJobs[q]) => Opens(roomJobs'[q])
    BY DEF LobbyInv, TypeOK, Queues, Queued
  <2>2. /\ serverJobs' \in Seq(ServerJob)
        /\ \A n \in 1..Len(serverJobs') : serverJobs'[n].op = "begin" =>
             serverJobs'[n].room <= created
    BY <1>2
  <2>3. /\ handoffs' \in [InstanceId -> Handoff \cup {None}] /\ started' \in 0..InstanceCount
        /\ instances' \in [InstanceId -> Life] /\ peers' \in [Peer -> Presence]
        /\ loads' \in [Peer -> Int]
    BY DEF LobbyInv, TypeOK
  <2> QED  BY <1>4, <1>5, <2>1, <2>2, <2>3, BackstageHolds
<1> QED  BY <1>4, <1>6

\* The queue after the job that ran, with what it left behind.
LEMMA Followed ==
  ASSUME LobbyInv, NEW op, ServerRuns(op),
         NEW more \in Seq(ServerJob), \A n \in 1..Len(more) : more[n].op # "begin"
  PROVE  /\ Tail(serverJobs) \o more \in Seq(ServerJob)
         /\ \A n \in 1..Len(Tail(serverJobs) \o more) :
               (Tail(serverJobs) \o more)[n].op = "begin" =>
                  (Tail(serverJobs) \o more)[n].room <= created
<1> DEFINE rest == Tail(serverJobs)
<1>1. /\ rest \in Seq(ServerJob)
      /\ \A n \in 1..Len(rest) : rest[n].op = "begin" => rest[n].room <= created
  BY ServerRunning
<1> HIDE DEF rest
<1>2. /\ rest \o more \in Seq(ServerJob) /\ Len(rest) \in Nat /\ Len(more) \in Nat
      /\ Len(rest \o more) = Len(rest) + Len(more)
      /\ \A n \in 1..Len(rest) + Len(more) :
           (rest \o more)[n] = IF n <= Len(rest) THEN rest[n] ELSE more[n - Len(rest)]
  BY <1>1, ConcatProperties, LenProperties
<1>3. \A n \in 1..Len(rest) + Len(more) : n \in 1..Len(rest) \/ (~(n <= Len(rest)) /\
        n - Len(rest) \in 1..Len(more))
  BY <1>2
<1>4. ASSUME NEW n \in 1..Len(rest) + Len(more), (rest \o more)[n].op = "begin"
      PROVE  (rest \o more)[n].room <= created
  <2>1. n <= Len(rest) => n \in 1..Len(rest)
    BY <1>3
  <2> QED  BY <1>1, <1>2, <1>3, <1>4, <2>1
<1> QED  BY <1>2, <1>4 DEF rest

\* The same for a single job.
LEMMA FollowedByOne ==
  ASSUME LobbyInv, NEW op, ServerRuns(op), NEW job \in ServerJob, job.op # "begin"
  PROVE  /\ Append(Tail(serverJobs), job) \in Seq(ServerJob)
         /\ \A n \in 1..Len(Append(Tail(serverJobs), job)) :
               Append(Tail(serverJobs), job)[n].op = "begin" =>
                  Append(Tail(serverJobs), job)[n].room <= created
<1>1. Tail(serverJobs) \in Seq(ServerJob)
  BY ServerRunning
<1>2. Append(Tail(serverJobs), job) = Tail(serverJobs) \o <<job>>
  BY <1>1, AppendIsConcat
<1> DEFINE more == <<job>>
<1>3. more \in Seq(ServerJob) /\ Len(more) = 1 /\ more[1] = job
  OBVIOUS
<1> HIDE DEF more
<1>4. \A n \in 1..Len(more) : more[n].op # "begin"
  BY <1>3
<1>5. /\ Tail(serverJobs) \o more \in Seq(ServerJob)
      /\ \A n \in 1..Len(Tail(serverJobs) \o more) :
               (Tail(serverJobs) \o more)[n].op = "begin" =>
                  (Tail(serverJobs) \o more)[n].room <= created
  BY <1>3, <1>4, Followed
<1> QED  BY <1>2, <1>5 DEF more

\* What it says of the types behind the lobby.
LEMMA OthersTyped ==
  ASSUME LobbyInv
  PROVE  /\ memberships \subseteq Session \X Channel
         /\ handoffs \in [InstanceId -> Handoff \cup {None}] /\ started \in 0..InstanceCount
         /\ instances \in [InstanceId -> Life] /\ peers \in [Peer -> Presence]
         /\ loads \in [Peer -> Int]
  BY DEF LobbyInv, TypeOK

\* BeginHandoff keeps the invariant.
LEMMA BeginHandoffHolds ==
  ASSUME LobbyInv, BeginHandoff
  PROVE  LobbyInv' /\ ToBeTold' = ToBeTold
<1> DEFINE job == Head(serverJobs)
<1> USE DEF peerVars, handoffVars
<1>1. /\ ServerRuns("begin") /\ serverJobs' = Tail(serverJobs)
      /\ UNCHANGED <<sessionVars, indexVars, rooms, memberships, peers>>
  BY DEF BeginHandoff
<1>2. /\ serverJobs # <<>> /\ serverJobs \in Seq(ServerJob)
      /\ job \in ServerJob /\ job.op = "begin" /\ job = serverJobs[1]
      /\ Tail(serverJobs) \in Seq(ServerJob) /\ Len(serverJobs) \in Nat \ {0}
      /\ \A n \in 1..Len(Tail(serverJobs)) : Tail(serverJobs)[n].op = "begin" =>
            Tail(serverJobs)[n].room <= created
  BY <1>1, ServerRunning
<1>3. job.room \in RoomId /\ job.roster \in SUBSET Session
  BY <1>2, ServerJobFields
<1>4. job.room <= created
  <2>1. 1 \in 1..Len(serverJobs)
    BY <1>2
  <2> QED  BY <1>2, <2>1 DEF LobbyInv, Queues
<1>5. ToBeTold' = ToBeTold
  BY <1>1, ToldAsBefore DEF ToBeTold
<1>6. CASE NoServer /\ roomJobs' = Post(roomJobs, job.room, FailedJob)
           /\ UNCHANGED <<handoffs, started, instances, loads>>
  <2>1. /\ roomJobs \in [RoomId -> Seq(RoomJob)] /\ FailedJob \in RoomJob
        /\ \A q \in RoomId : q > created => roomJobs[q] = <<>>
    BY RoomJobsKept, RoomJobsMade
  <2> HIDE DEF job
  <2>2. /\ Post(roomJobs, job.room, FailedJob) \in [RoomId -> Seq(RoomJob)]
        /\ \A q \in RoomId : q # job.room => Post(roomJobs, job.room, FailedJob)[q] = roomJobs[q]
        /\ \A q \in RoomId : Opens(roomJobs[q]) => Opens(Post(roomJobs, job.room, FailedJob)[q])
    BY <1>3, <2>1, Posted
  <2>3. \A q \in RoomId : q > created => q # job.room
    BY <1>4, MatchServerAssumption DEF RoomId, LobbyInv, TypeOK
  <2> QED  BY <1>1, <1>2, <1>5, <1>6, <2>1, <2>2, <2>3, OthersTyped, BackstageHolds
<1>7. ASSUME NEW p \in LeastLoaded, ~NoServer, started' = started + 1,
             handoffs' = [handoffs EXCEPT ![started + 1] =
                [room |-> job.room, phase |-> "AwaitingCreate", roster |-> job.roster,
                 peer |-> p, late |-> FALSE]],
             loads' = [loads EXCEPT ![p] = @ + 1],
             instances' = [instances EXCEPT ![started + 1] = "asked"],
             UNCHANGED roomJobs
      PROVE  LobbyInv'
  <2>1. started' \in 0..InstanceCount /\ started + 1 \in InstanceId
    BY <1>7, OthersTyped, MatchServerAssumption DEF NoServer, InstanceId
  <2>2. p \in Peer
    BY DEF LeastLoaded, Spare
  <2>3. handoffs' \in [InstanceId -> Handoff \cup {None}]
    <3> DEFINE handoff == [room |-> job.room, phase |-> "AwaitingCreate", roster |-> job.roster,
                           peer |-> p, late |-> FALSE]
    <3>1. handoff \in Handoff
      BY <1>3, <2>2 DEF Handoff, Phase
    <3> HIDE DEF handoff
    <3>2. handoffs' = [handoffs EXCEPT ![started + 1] = handoff]
      BY <1>7 DEF handoff
    <3> QED  BY <3>1, <3>2, OthersTyped
  <2>4. loads' \in [Peer -> Int] /\ instances' \in [InstanceId -> Life]
    <3>1. loads \in [Peer -> Int] /\ instances \in [InstanceId -> Life]
      BY OthersTyped
    <3>2. loads' \in [Peer -> Int]
      BY <1>7, <2>2, <3>1
    <3>3. instances' \in [InstanceId -> Life]
      BY <1>7, <3>1 DEF Life
    <3> QED  BY <3>2, <3>3
  <2> QED  BY <1>1, <1>2, <1>5, <1>7, <2>1, <2>3, <2>4, RoomJobsKept, OthersTyped, BackstageHolds
<1> QED  BY <1>5, <1>6, <1>7 DEF BeginHandoff

\* A report nobody waits for keeps it.
LEMMA StaleHolds ==
  ASSUME LobbyInv, NEW op \in {"created", "live", "over"}, Stale(op)
  PROVE  LobbyInv' /\ ToBeTold' = ToBeTold
<1> USE DEF Stale, handoffVars, peerVars
<1>1. ToBeTold' = ToBeTold
  BY ToldAsBefore DEF ToBeTold
<1>2. LobbyInv'
  BY <1>1, ServerRunning, RoomJobsKept, OthersTyped, BackstageHolds
<1> QED  BY <1>1, <1>2

\* Loads stay integers when handoffs end.
LEMMA LoadsWithoutType ==
  ASSUME LobbyInv, NEW ended \in SUBSET InstanceId
  PROVE  LoadsWithout(ended) \in [Peer -> Int]
<1>1. ASSUME NEW p \in Peer
      PROVE  loads[p] - Cardinality({i \in ended : handoffs[i].peer = p}) \in Int
  <2> DEFINE those == {i \in ended : handoffs[i].peer = p}
  <2>1. those \in SUBSET InstanceId
    OBVIOUS
  <2> HIDE DEF those
  <2>2. Cardinality(those) \in Nat /\ loads[p] \in Int
    BY <2>1, InstancesFinite, OthersTyped
  <2>3. loads[p] - Cardinality(those) \in Int
    BY <2>2
  <2> QED  BY <2>3 DEF those
<1> QED  BY <1>1 DEF LoadsWithout

\* The instance a job of the server is about.
LEMMA Pending ==
  ASSUME LobbyInv, NEW op \in {"created", "live", "over"}, ServerRuns(op)
  PROVE  LET i == Head(serverJobs).instance IN
         /\ i \in InstanceId
         /\ handoffs[i] # None => /\ handoffs[i] \in Handoff /\ handoffs[i].room \in RoomId
                                  /\ handoffs[i].roster \in SUBSET Session
                                  /\ handoffs[i].peer \in Peer
<1> DEFINE i == Head(serverJobs).instance
<1>1. Head(serverJobs) \in ServerJob /\ Head(serverJobs).op = op
  BY ServerRunning
<1>2. i \in InstanceId
  BY <1>1, ServerJobFields
<1>3. handoffs[i] # None => handoffs[i] \in Handoff
  <2> HIDE DEF i
  <2> QED  BY <1>2, OthersTyped
<1> QED  BY <1>2, <1>3 DEF Handoff

\* HandleInstanceCreateAck keeps the invariant.
LEMMA CreateAckHolds ==
  ASSUME LobbyInv, HandleInstanceCreateAck
  PROVE  LobbyInv'
<1> DEFINE job == Head(serverJobs)
           i == job.instance
           handoff == handoffs[i]
           r == handoff.room
           usable == job.ok /\ r \in registered
<1> USE DEF handoffVars, peerVars
<1>1. CASE Stale("created")
  BY <1>1, StaleHolds
<1>2. ASSUME ServerRuns("created"), handoff # None
      PROVE  /\ i \in InstanceId /\ handoff \in Handoff /\ r \in RoomId
             /\ handoff.roster \in SUBSET Session
  BY <1>2, Pending
<1>3. CASE /\ ServerRuns("created") /\ handoff # None /\ ~usable
           /\ loads' = LoadsWithout({i})
           /\ handoffs' = [handoffs EXCEPT ![i] = None]
           /\ roomJobs' = Answered({i}, FailedJob)
           /\ serverJobs' = Tail(serverJobs)
           /\ UNCHANGED <<sessionVars, indexVars, rooms, memberships, started, instances, peers>>
  <2>1. i \in InstanceId
    BY <1>2, <1>3
  <2> HIDE DEF i
  <2>2. {i} \in SUBSET InstanceId /\ FailedJob \in RoomJob
    BY <2>1, RoomJobsMade
  <2>3. /\ Answered({i}, FailedJob) \in [RoomId -> Seq(RoomJob)]
        /\ \A q \in RoomId : q > created => Answered({i}, FailedJob)[q] = <<>>
        /\ \A q \in RoomId : Opens(roomJobs[q]) => Opens(Answered({i}, FailedJob)[q])
    BY <2>2, AnsweredIsOK
  <2>4. loads' \in [Peer -> Int]
    BY <1>3, <2>2, LoadsWithoutType
  <2>5. handoffs' \in [InstanceId -> Handoff \cup {None}]
    BY <1>3, <2>1, OthersTyped
  <2>6. ToBeTold' = ToBeTold
    BY <1>3, ToldAsBefore DEF ToBeTold
  <2>7. /\ serverJobs' \in Seq(ServerJob)
        /\ \A n \in 1..Len(serverJobs') : serverJobs'[n].op = "begin" =>
             serverJobs'[n].room <= created
    BY <1>3, ServerRunning
  <2> QED  BY <1>3, <2>3, <2>4, <2>5, <2>6, <2>7, OthersTyped, BackstageHolds
<1>4. CASE /\ ServerRuns("created") /\ handoff # None /\ usable
           /\ handoffs' = [handoffs EXCEPT ![i].phase = "AwaitingJoin", ![i].late = FALSE]
           /\ roomJobs' = Post(roomJobs, r,
                 [op |-> "tickets", instance |-> i, roster |-> handoff.roster])
           /\ serverJobs' = Append(Tail(serverJobs), EnterJob(handoff.roster, <<"instance", i>>))
           /\ UNCHANGED <<sessionVars, indexVars, rooms, memberships, started, peerVars>>
  <2> DEFINE tickets == [op |-> "tickets", instance |-> i, roster |-> handoff.roster]
             enter == EnterJob(handoff.roster, <<"instance", i>>)
  <2>1. /\ i \in InstanceId /\ handoff \in Handoff /\ r \in RoomId
        /\ handoff.roster \in SUBSET Session
    BY <1>2, <1>4
  <2>2. tickets \in RoomJob
    BY <2>1, RoomJobsMade
  <2>3. enter \in ServerJob /\ enter.op # "begin"
    <3>1. <<"instance", i>> \in Channel
      BY <2>1 DEF Channel
    <3>2. enter \in ServerJob
      BY <2>1, <3>1, ServerJobsMade
    <3> QED  BY <3>2 DEF EnterJob
  <2>4. /\ roomJobs' \in [RoomId -> Seq(RoomJob)]
        /\ \A q \in RoomId : q > created => roomJobs'[q] = <<>>
        /\ \A q \in RoomId : Opens(roomJobs[q]) => Opens(roomJobs'[q])
    <3>1. /\ roomJobs \in [RoomId -> Seq(RoomJob)]
          /\ \A q \in RoomId : q > created => roomJobs[q] = <<>>
      BY RoomJobsKept
    <3>2. roomJobs' = Post(roomJobs, r, tickets)
      BY <1>4
    <3>3. ~(r > created)
      <4>1. registered \subseteq 1..created /\ created \in 0..RoomCount /\ RoomCount \in Nat
        BY MatchServerAssumption DEF LobbyInv, TypeOK
      <4>2. r \in 1..created
        BY <1>4, <4>1
      <4> HIDE DEF r
      <4> QED  BY <4>1, <4>2
    <3> HIDE DEF tickets, r
    <3>4. /\ Post(roomJobs, r, tickets) \in [RoomId -> Seq(RoomJob)]
          /\ \A q \in RoomId : q # r => Post(roomJobs, r, tickets)[q] = roomJobs[q]
          /\ \A q \in RoomId : Opens(roomJobs[q]) => Opens(Post(roomJobs, r, tickets)[q])
      BY <2>1, <2>2, <3>1, Posted
    <3> QED  BY <3>1, <3>2, <3>3, <3>4
  <2>5. /\ serverJobs' \in Seq(ServerJob)
        /\ \A n \in 1..Len(serverJobs') : serverJobs'[n].op = "begin" =>
             serverJobs'[n].room <= created
    <3>1. serverJobs' = Append(Tail(serverJobs), enter) /\ ServerRuns("created")
      BY <1>4
    <3> HIDE DEF enter
    <3> QED  BY <2>3, <3>1, FollowedByOne
  <2>6. \A q \in RoomId, s \in Session :
            <<s, <<"room", q>>>> \in ToBeTold' <=> <<s, <<"room", q>>>> \in ToBeTold
    <3> TAKE q \in RoomId, s \in Session
    <3> DEFINE m == <<s, <<"room", q>>>>
    <3>1. ~Enters(enter, m) /\ ~Removes(enter, m)
      BY OtherChannel
    <3>2. serverJobs' = Append(Tail(serverJobs), enter) /\ ServerRuns("created")
          /\ memberships' = memberships
      BY <1>4
    <3> HIDE DEF enter
    <3>3. m \in ToBeTold' <=> Enters(enter, m) \/ (m \in ToBeTold /\ ~Removes(enter, m))
      BY <2>3, <3>2, ToldThen, RoomChannels
    <3> QED  BY <3>1, <3>3
  <2>7. handoffs' \in [InstanceId -> Handoff \cup {None}]
    <3>1. [[handoff EXCEPT !.phase = "AwaitingJoin"] EXCEPT !.late = FALSE] \in Handoff
      <4> HIDE DEF handoff
      <4> QED  BY <2>1 DEF Handoff, Phase
    <3>2. handoffs' = [handoffs EXCEPT ![i] =
              [[handoff EXCEPT !.phase = "AwaitingJoin"] EXCEPT !.late = FALSE]]
      <4> HIDE DEF i
      <4> QED  BY <1>4, <2>1, OthersTyped
    <3> HIDE DEF handoff, i
    <3> QED  BY <2>1, <3>1, <3>2, OthersTyped
  <2> QED  BY <1>4, <2>4, <2>5, <2>6, <2>7, OthersTyped, BackstageHolds
<1> QED  BY <1>1, <1>3, <1>4 DEF HandleInstanceCreateAck

\* HandleInstanceReady keeps it.
LEMMA InstanceReadyHolds ==
  ASSUME LobbyInv, HandleInstanceReady
  PROVE  LobbyInv' /\ ToBeTold' = ToBeTold
<1> DEFINE i == Head(serverJobs).instance
           running == RunningJob(handoffs[i].roster)
<1> USE DEF handoffVars, peerVars
<1>1. CASE Stale("live")
  BY <1>1, StaleHolds
<1>2. CASE /\ ServerRuns("live") /\ handoffs[i] # None
           /\ handoffs' = [handoffs EXCEPT ![i].phase = "Running"]
           /\ roomJobs' = Answered({i}, running)
           /\ serverJobs' = Tail(serverJobs)
           /\ UNCHANGED <<sessionVars, indexVars, rooms, memberships, started, peerVars>>
  <2>1. i \in InstanceId /\ handoffs[i] \in Handoff
    BY <1>2, Pending
  <2>2. running \in RoomJob
    BY <2>1, RoomJobsMade DEF Handoff
  <2> HIDE DEF i, running
  <2>3. /\ Answered({i}, running) \in [RoomId -> Seq(RoomJob)]
        /\ \A q \in RoomId : q > created => Answered({i}, running)[q] = <<>>
        /\ \A q \in RoomId : Opens(roomJobs[q]) => Opens(Answered({i}, running)[q])
    <3>1. {i} \in SUBSET InstanceId
      BY <2>1
    <3> QED  BY <2>2, <3>1, AnsweredIsOK
  <2>4. handoffs' \in [InstanceId -> Handoff \cup {None}]
    <3>1. [handoffs[i] EXCEPT !.phase = "Running"] \in Handoff
      BY <2>1 DEF Handoff, Phase
    <3> QED  BY <1>2, <2>1, <3>1, OthersTyped
  <2>5. ToBeTold' = ToBeTold
    BY <1>2, ToldAsBefore DEF ToBeTold
  <2>6. /\ serverJobs' \in Seq(ServerJob)
        /\ \A n \in 1..Len(serverJobs') : serverJobs'[n].op = "begin" =>
             serverJobs'[n].room <= created
    BY <1>2, ServerRunning
  <2>7. LobbyInv'
    BY <1>2, <2>3, <2>4, <2>5, <2>6, OthersTyped, BackstageHolds
  <2> QED  BY <2>5, <2>7
<1> QED  BY <1>1, <1>2 DEF HandleInstanceReady

\* What the end of matches has in common.
LEMMA EndsHold ==
  ASSUME LobbyInv, NEW op, op \notin {"enter", "exit", "closed"}, ServerRuns(op),
         NEW ended \in SUBSET InstanceId, \A i \in ended : handoffs[i] # None,
         NEW job \in RoomJob,
         handoffs' \in [InstanceId -> Handoff \cup {None}],
         loads' = LoadsWithout(ended),
         roomJobs' = Answered(ended, job),
         serverJobs' = Tail(serverJobs) \o ChannelsLeft(ended),
         UNCHANGED <<sessionVars, indexVars, rooms, memberships, started, instances, peers>>
  PROVE  LobbyInv'
<1>1. /\ Answered(ended, job) \in [RoomId -> Seq(RoomJob)]
      /\ \A q \in RoomId : q > created => Answered(ended, job)[q] = <<>>
      /\ \A q \in RoomId : Opens(roomJobs[q]) => Opens(Answered(ended, job)[q])
  BY AnsweredIsOK
<1>2. loads' \in [Peer -> Int]
  BY LoadsWithoutType
<1> DEFINE exits == ChannelsLeft(ended)
<1>3. /\ exits \in Seq(ServerJob)
      /\ \A n \in 1..Len(exits) : \E i \in ended :
            exits[n] = ExitJob(handoffs[i].roster, <<"instance", i>>)
  BY ChannelsLeftIsOK
<1>4. \A n \in 1..Len(exits) : exits[n].op # "begin"
  <2>1. \A i : ExitJob(handoffs[i].roster, <<"instance", i>>).op # "begin"
    BY DEF ExitJob
  <2> HIDE DEF exits
  <2> QED  BY <1>3, <2>1
<1>5. /\ serverJobs' \in Seq(ServerJob)
      /\ \A n \in 1..Len(serverJobs') : serverJobs'[n].op = "begin" =>
           serverJobs'[n].room <= created
  <2>1. serverJobs' = Tail(serverJobs) \o exits
    OBVIOUS
  <2> HIDE DEF exits
  <2> QED  BY <1>3, <1>4, <2>1, Followed
<1>6. \A q \in RoomId, s \in Session :
        <<s, <<"room", q>>>> \in ToBeTold' <=> <<s, <<"room", q>>>> \in ToBeTold
  <2> TAKE q \in RoomId, s \in Session
  <2> DEFINE c == <<"room", q>>
  <2>1. \A i : c # <<"instance", i>>
    OBVIOUS
  <2>2. c \in Channel
    BY RoomChannels
  <2> HIDE DEF c
  <2>3. <<s, c>> \in ToBeTold' <=>
            /\ <<s, c>> \in ToBeTold
            /\ ~\E i \in ended : c = <<"instance", i>> /\ s \in handoffs[i].roster
    BY <2>2, ToldWithout
  <2> QED  BY <2>1, <2>3 DEF c
<1> QED  BY <1>1, <1>2, <1>5, <1>6, OthersTyped, BackstageHolds

\* HandleInstanceClosed keeps it.
LEMMA InstanceClosedHolds ==
  ASSUME LobbyInv, HandleInstanceClosed
  PROVE  LobbyInv'
<1> DEFINE i == Head(serverJobs).instance
           outcome == IF handoffs[i].phase = "Running" THEN [op |-> "finished"] ELSE FailedJob
<1>1. CASE Stale("over")
  BY <1>1, StaleHolds
<1>2. CASE /\ ServerRuns("over") /\ handoffs[i] # None
           /\ handoffs' = [handoffs EXCEPT ![i] = None]
           /\ loads' = LoadsWithout({i})
           /\ roomJobs' = Answered({i}, outcome)
           /\ serverJobs' = Tail(serverJobs) \o ChannelsLeft({i})
           /\ UNCHANGED <<sessionVars, indexVars, rooms, memberships, started, instances, peers>>
  <2>1. i \in InstanceId
    BY <1>2, Pending
  <2>2. outcome \in RoomJob
    BY RoomJobsMade
  <2> HIDE DEF i, outcome
  <2>3. {i} \in SUBSET InstanceId /\ \A j \in {i} : handoffs[j] # None
    BY <1>2, <2>1
  <2>4. handoffs' \in [InstanceId -> Handoff \cup {None}]
    BY <1>2, <2>1, OthersTyped
  <2> QED  BY <1>2, <2>2, <2>3, <2>4, EndsHold
<1> QED  BY <1>1, <1>2 DEF HandleInstanceClosed

\* SweepHandoffs keeps it.
LEMMA SweepHolds ==
  ASSUME LobbyInv, SweepHandoffs
  PROVE  LobbyInv'
<1>1. Expired \in SUBSET InstanceId /\ \A j \in Expired : handoffs[j] # None
  BY DEF Expired, Unfinished
<1>2. handoffs' \in [InstanceId -> Handoff \cup {None}]
  BY OthersTyped DEF SweepHandoffs
<1>3. FailedJob \in RoomJob
  BY RoomJobsMade
<1> QED  BY <1>1, <1>2, <1>3, EndsHold DEF SweepHandoffs

\* Every job of the server keeps it.
LEMMA ServerStepHolds ==
  ASSUME LobbyInv, ServerStep
  PROVE  LobbyInv'
BY TellChannelsHolds, BeginHandoffHolds, CreateAckHolds, InstanceReadyHolds, InstanceClosedHolds,
   SweepHolds DEF ServerStep

\* The timers, the control links and the instance server post jobs that tell
\* nobody anything.
LEMMA PostsHold ==
  ASSUME LobbyInv, UNCHANGED <<sessionVars, indexVars, rooms, roomJobs, memberships, started>>,
         \/ UNCHANGED serverJobs
         \/ \E job \in ServerJob : /\ job.op \notin {"enter", "exit", "closed", "begin"}
                                   /\ serverJobs' = Append(serverJobs, job),
         handoffs' \in [InstanceId -> Handoff \cup {None}],
         instances' \in [InstanceId -> Life],
         peers' \in [Peer -> Presence],
         loads' \in [Peer -> Int]
  PROVE  LobbyInv' /\ ToBeTold' = ToBeTold
<1>1. ToBeTold' = ToBeTold /\ serverJobs' \in Seq(ServerJob)
      /\ \A n \in 1..Len(serverJobs') : serverJobs'[n].op = "begin" =>
           serverJobs'[n].room <= created
  <2>1. CASE UNCHANGED serverJobs
    BY <2>1, ToldUnchanged DEF LobbyInv, TypeOK, Queues
  <2>2. ASSUME NEW job \in ServerJob, job.op \notin {"enter", "exit", "closed", "begin"},
               serverJobs' = Append(serverJobs, job)
        PROVE  /\ ToBeTold' = ToBeTold /\ serverJobs' \in Seq(ServerJob)
               /\ \A n \in 1..Len(serverJobs') : serverJobs'[n].op = "begin" =>
                     serverJobs'[n].room <= created
    <3>1. \A s \in Session, c \in Channel : <<s, c>> \in ToBeTold' <=> <<s, c>> \in ToBeTold
      <4> TAKE s \in Session, c \in Channel
      <4>1. ~Enters(job, <<s, c>>) /\ ~Removes(job, <<s, c>>)
        BY <2>2 DEF Enters, Removes
      <4>2. <<s, c>> \in ToBeTold' <=>
              Enters(job, <<s, c>>) \/ (<<s, c>> \in ToBeTold /\ ~Removes(job, <<s, c>>))
        BY <2>2, ToldMore
      <4> QED  BY <4>1, <4>2
    <3>2. ToBeTold \subseteq Session \X Channel /\ ToBeTold' \subseteq Session \X Channel
      BY DEF ToBeTold, Known
    <3>3. ToBeTold' = ToBeTold
      <4>1. \A m \in Session \X Channel : m \in ToBeTold' <=> m \in ToBeTold
        BY <3>1
      <4> QED  BY <3>2, <4>1
    <3> QED  BY <2>2, <3>3, ServerPosted
  <2> QED  BY <2>1, <2>2
<1>2. LobbyInv'
  BY <1>1, RoomJobsKept, OthersTyped, BackstageHolds
<1> QED  BY <1>1, <1>2

\* The timers, the control connections and the instance server keep it.
LEMMA OutsideHolds ==
  ASSUME LobbyInv,
         \/ MaintenanceTimer
         \/ \E i \in InstanceId :
               Overdue(i) \/ InstanceCreated(i) \/ InstanceLive(i) \/ InstanceOver(i)
         \/ \E p \in Peer : PeerHello(p) \/ PeerDisconnected(p)
  PROVE  LobbyInv' /\ ToBeTold' = ToBeTold
<1> USE DEF peerVars, handoffVars
<1>0. /\ handoffs \in [InstanceId -> Handoff \cup {None}]
      /\ instances \in [InstanceId -> Life] /\ peers \in [Peer -> Presence]
      /\ loads \in [Peer -> Int]
  BY OthersTyped
<1>1. CASE MaintenanceTimer
  BY <1>0, <1>1, PostsHold, ServerJobsMade DEF MaintenanceTimer
<1>2. ASSUME NEW i \in InstanceId, Overdue(i) PROVE LobbyInv' /\ ToBeTold' = ToBeTold
  <2>1. handoffs[i] \in Handoff
    BY <1>0, <1>2 DEF Overdue, Unfinished
  <2>2. [handoffs[i] EXCEPT !.late = TRUE] \in Handoff
    BY <2>1 DEF Handoff
  <2>3. handoffs' \in [InstanceId -> Handoff \cup {None}]
    BY <1>0, <1>2, <2>2 DEF Overdue
  <2> QED  BY <1>0, <1>2, <2>3, PostsHold DEF Overdue
<1>3. ASSUME NEW i \in InstanceId, InstanceCreated(i) PROVE LobbyInv' /\ ToBeTold' = ToBeTold
  <2>1. PICK ok \in BOOLEAN :
          /\ Moves(i, IF ok THEN "created" ELSE "over")
          /\ serverJobs' = IF Connected(i)
                           THEN Append(serverJobs, [op |-> "created", instance |-> i, ok |-> ok])
                           ELSE serverJobs
    BY <1>3 DEF InstanceCreated
  <2> DEFINE job == [op |-> "created", instance |-> i, ok |-> ok]
  <2>2. job \in ServerJob /\ job.op \notin {"enter", "exit", "closed", "begin"}
    BY ServerJobsMade
  <2>3. instances' \in [InstanceId -> Life]
    BY <1>0, <2>1 DEF Moves, Life
  <2>4. UNCHANGED serverJobs \/ serverJobs' = Append(serverJobs, job)
    BY <2>1
  <2> HIDE DEF job
  <2> QED  BY <1>0, <2>1, <2>2, <2>3, <2>4, PostsHold DEF Moves
<1>4. ASSUME NEW i \in InstanceId, NEW life \in Life, NEW job \in ServerJob, Reports(i, life, job),
             job.op \notin {"enter", "exit", "closed", "begin"}
      PROVE  LobbyInv' /\ ToBeTold' = ToBeTold
  <2>1. instances' \in [InstanceId -> Life]
    BY <1>0, <1>4 DEF Reports, Moves
  <2> QED  BY <1>0, <1>4, <2>1, PostsHold DEF Reports, Moves
<1>5. ASSUME NEW i \in InstanceId, InstanceLive(i) PROVE LobbyInv' /\ ToBeTold' = ToBeTold
  BY <1>4, <1>5, ServerJobsMade DEF InstanceLive, Life
<1>6. ASSUME NEW i \in InstanceId, InstanceOver(i) PROVE LobbyInv' /\ ToBeTold' = ToBeTold
  BY <1>4, <1>6, ServerJobsMade DEF InstanceOver, Life
<1>7. ASSUME NEW p \in Peer, PeerHello(p) PROVE LobbyInv' /\ ToBeTold' = ToBeTold
  <2>1. peers' \in [Peer -> Presence] /\ loads' \in [Peer -> Int]
    BY <1>0, <1>7 DEF PeerHello, Presence
  <2> QED  BY <1>0, <1>7, <2>1, PostsHold DEF PeerHello
<1>8. ASSUME NEW p \in Peer, PeerDisconnected(p) PROVE LobbyInv' /\ ToBeTold' = ToBeTold
  <2>1. peers' \in [Peer -> Presence]
    BY <1>0, <1>8 DEF PeerDisconnected, Presence
  <2> QED  BY <1>0, <1>8, <2>1, PostsHold DEF PeerDisconnected
<1> QED  BY <1>1, <1>2, <1>3, <1>5, <1>6, <1>7, <1>8

\* What clients do keeps it.
LEMMA ClientStepHolds ==
  ASSUME LobbyInv, NEW s \in Session, ClientStep(s)
  PROVE  LobbyInv'
<1>1. CASE \E r \in 1..created, right \in BOOLEAN : C_RoomJoin(s, r, right)
  <2>1. PICK r \in 1..created, right \in BOOLEAN : C_RoomJoin(s, r, right)
    BY <1>1
  <2> DEFINE opens == right \/ ~rooms[r].locked
             job == JoinJob(s, opens, "hand", <<>>)
  <2>2. opens \in BOOLEAN /\ <<>> \in Seq(RoomId)
    BY EmptySeq
  <2> HIDE DEF opens
  <2>3. job \in RoomJob
    BY <2>2, RoomJobsMade
  <2>4. Enqueue(s, r, job)
    BY <2>1 DEF C_RoomJoin, opens
  <2> HIDE DEF job
  <2> QED  BY <2>3, <2>4, EnqueueHolds
<1>2. ASSUME NEW job \in RoomJob, ToOwnRoom(s, job) PROVE LobbyInv'
  BY <1>2, EnqueueHolds DEF ToOwnRoom
<1>3. CASE C_RoomLeave(s)
  BY <1>2, <1>3, RoomJobsMade DEF C_RoomLeave
<1>4. CASE \E target \in Session : C_RoomKick(s, target)
  BY <1>2, <1>4, RoomJobsMade DEF C_RoomKick
<1>5. CASE \E ready \in BOOLEAN : C_RoomReady(s, ready)
  BY <1>2, <1>5, RoomJobsMade DEF C_RoomReady
<1>6. CASE C_RoomStart(s)
  BY <1>2, <1>6, RoomJobsMade DEF C_RoomStart
<1> QED
  BY <1>1, <1>3, <1>4, <1>5, <1>6, HelloHolds, RoomCreateHolds, QuickMatchHolds, DisconnectedHolds
  DEF ClientStep

\* So does every step.
LEMMA LobbyNext ==
  ASSUME LobbyInv, [Next]_vars
  PROVE  LobbyInv'
<1>1. CASE UNCHANGED vars
  <2>1. UNCHANGED <<sessionVars, indexVars, rooms, roomJobs, memberships, started, serverJobs,
                    handoffs, instances, peers, loads>>
    BY <1>1 DEF vars, sessionVars, indexVars
  <2> QED  BY <2>1, OthersTyped, PostsHold
<1>2. CASE Next
  BY <1>2, ClientStepHolds, RoomStepHolds, ServerStepHolds, OutsideHolds DEF Next
<1> QED  BY <1>1, <1>2
-----------------------------------------------------------------------------
\* In every reachable state the rooms, their index, the pointers of the sessions
\* and what chat and voice will be told agree (Room.cpp, RoomManager.cpp,
\* MatchServer.cpp).
THEOREM LobbyInvariant == Spec => []LobbyInv
<1>1. Init => LobbyInv
  BY LobbyInit
<1>2. LobbyInv /\ [Next]_vars => LobbyInv'
  BY LobbyNext
<1> QED  BY <1>1, <1>2, PTL DEF Spec

\* The match server is type correct: among others, a room that is registered was
\* created, and every job in a queue is one its handler can run.
THEOREM TypeCorrect == Spec => []TypeOK
<1>1. LobbyInv => TypeOK
  BY DEF LobbyInv
<1> QED  BY <1>1, LobbyInvariant, PTL

\* Only a join and the second half of a leave or a kick write a pointer.
LEMMA WhoWritesPointers ==
  ASSUME [Next]_vars
  PROVE  \/ UNCHANGED roomOf
         \/ \E r \in RoomId : JoinAdmitted(r)
         \/ \E r \in RoomId : \E s \in Roster(rooms[r]) :
               \/ Runs(r, "leave") /\ Departs(r, s, Drop(rooms[r], s))
               \/ /\ Runs(r, "kick") /\ MayKick(rooms[r], Head(roomJobs[r]).who, s)
                  /\ Departs(r, s, Kicked(rooms[r], s))
<1> USE DEF sessionVars
<1>1. ASSUME NEW s \in Session, ClientStep(s) PROVE UNCHANGED roomOf
  BY <1>1 DEF ClientStep, C_Hello, C_RoomCreate, C_RoomJoin, C_QuickMatch, C_RoomLeave, C_RoomKick,
       C_RoomReady, C_RoomStart, OnDisconnected, ToOwnRoom, Enqueue, Packet
<1>2. ASSUME NEW r \in RoomId, HandleLeave(r) \/ HandleKick(r)
      PROVE  \/ UNCHANGED roomOf
             \/ \E s \in Roster(rooms[r]) :
                  \/ Runs(r, "leave") /\ Departs(r, s, Drop(rooms[r], s))
                  \/ /\ Runs(r, "kick") /\ MayKick(rooms[r], Head(roomJobs[r]).who, s)
                     /\ Departs(r, s, Kicked(rooms[r], s))
  BY <1>2 DEF HandleLeave, HandleKick, Passes, Compare, MayKick
<1>3. ASSUME NEW r \in RoomId, RoomStep(r), ~JoinAdmitted(r), ~HandleLeave(r), ~HandleKick(r)
      PROVE  UNCHANGED roomOf
  BY <1>3 DEF RoomStep, JoinRefused, HandleReady, HandleStart, HandleTickets, HandleFailed,
       HandleRunning, HandleFinished, Turns, Passes
<1>4. ASSUME ServerStep PROVE UNCHANGED roomOf
  BY <1>4 DEF ServerStep, TellChannels, BeginHandoff, HandleInstanceCreateAck, HandleInstanceReady,
       HandleInstanceClosed, SweepHandoffs, Stale
<1>5. ASSUME MaintenanceTimer \/ \E p \in Peer : PeerHello(p) \/ PeerDisconnected(p)
      PROVE  UNCHANGED roomOf
  BY <1>5 DEF MaintenanceTimer, PeerHello, PeerDisconnected
<1>6. ASSUME NEW i \in InstanceId,
             Overdue(i) \/ InstanceCreated(i) \/ InstanceLive(i) \/ InstanceOver(i)
      PROVE  UNCHANGED roomOf
  BY <1>6 DEF Overdue, InstanceCreated, InstanceLive, InstanceOver, Reports, Moves
<1>7. CASE UNCHANGED vars
  BY <1>7 DEF vars
<1> QED  BY <1>1, <1>2, <1>3, <1>4, <1>5, <1>6, <1>7 DEF Next

\* A room that clears a pointer has read it as its own before, and lets go of the
\* player in the same step; a join sets one.
LEMMA PointersKept ==
  ASSUME LobbyInv, [Next]_vars
  PROVE  KeepsPointer
<1> SUFFICES ASSUME NEW x \in Session, NEW q \in RoomId,
                    roomOf[x] = q, roomOf'[x] # q, x \in Roster(rooms'[q])
             PROVE  \/ roomOf'[x] # None
                    \/ \E p \in clearing \ {q} : x \in Roster(rooms[p]) \ Roster(rooms'[p])
  BY DEF KeepsPointer
<1>1. rooms \in [RoomId -> RoomRecord] /\ roomOf \in [Session -> RoomId \cup {None}]
  BY DEF LobbyInv, TypeOK
<1>2. ASSUME NEW r \in RoomId, JoinAdmitted(r)
      PROVE  roomOf'[x] # None
  <2> DEFINE s == Head(roomJobs[r]).who
  <2>1. roomOf' = [roomOf EXCEPT ![s] = r]
    BY <1>2 DEF JoinAdmitted
  <2> HIDE DEF s
  <2>2. roomOf'[x] = r
    BY <1>1, <2>1
  <2> QED  BY <2>2, NoneAssumption
<1>3. ASSUME NEW r \in RoomId, NEW s \in Roster(rooms[r]), NEW room, NEW op, Runs(r, op),
             RoomOK(room), Roster(room) = Roster(rooms[r]) \ {s}, Departs(r, s, room)
      PROVE  r \in clearing \ {q} /\ x \in Roster(rooms[r]) \ Roster(rooms'[r])
  <2>1. roomOf' = (IF r \in clearing THEN [roomOf EXCEPT ![s] = None] ELSE roomOf)
        /\ rooms' = [rooms EXCEPT ![r] = room]
    BY <1>3 DEF Departs, Unpoint
  <2>2. x = s /\ r \in clearing
    BY <1>1, <2>1
  <2>3. rooms'[r] = room
    BY <1>1, <2>1
  <2> QED  BY <1>3, <2>2, <2>3
<1>4. ASSUME NEW r \in RoomId, NEW s \in Roster(rooms[r]), Runs(r, "leave"),
             Departs(r, s, Drop(rooms[r], s))
      PROVE  r \in clearing \ {q} /\ x \in Roster(rooms[r]) \ Roster(rooms'[r])
  <2> DEFINE room == Drop(rooms[r], s)
  <2>1. RoomOK(room) /\ Roster(room) = Roster(rooms[r]) \ {s}
    BY <1>4, Running, DropIsOK
  <2>2. Departs(r, s, room)
    BY <1>4
  <2> HIDE DEF room
  <2> QED  BY <1>3, <1>4, <2>1, <2>2
<1>5. ASSUME NEW r \in RoomId, NEW s \in Roster(rooms[r]), Runs(r, "kick"),
             MayKick(rooms[r], Head(roomJobs[r]).who, s),
             Departs(r, s, Kicked(rooms[r], s))
      PROVE  r \in clearing \ {q} /\ x \in Roster(rooms[r]) \ Roster(rooms'[r])
  <2> DEFINE room == Kicked(rooms[r], s)
  <2>1. RoomOK(room) /\ Roster(room) = Roster(rooms[r]) \ {s}
    BY <1>5, Running, KickedIsOK
  <2>2. Departs(r, s, room)
    BY <1>5
  <2> HIDE DEF room
  <2> QED  BY <1>3, <1>5, <2>1, <2>2
<1>6. ~UNCHANGED roomOf
  OBVIOUS
<1> QED  BY <1>2, <1>4, <1>5, <1>6, WhoWritesPointers

\* The room a session points to has it as a member, and a room that keeps a player
\* loses the pointer to another room's join or, with all pointers gone, only to a leave
\* from another that compared before and overwrites after (Room.cpp:179-180).
THEOREM PointersLead == Spec => PointerLeads
<1>1. LobbyInv /\ LobbyInv' /\ [Next]_vars => [PointerIsMember' /\ KeepsPointer]_vars
  BY PointersKept DEF LobbyInv
<1> QED  BY <1>1, LobbyInvariant, PTL DEF Spec, PointerLeads

\* The host of a room is its longest-present member, whatever leaves, kicks,
\* disconnections and joins cross (Room.cpp:494).
THEOREM HostLeads == Spec => []HostIsLongestPresent
<1>1. LobbyInv => HostIsLongestPresent
  BY LobbyImplies
<1> QED  BY <1>1, LobbyInvariant, PTL

\* No two members of a room share a slot.
THEOREM SlotsStayDistinct == Spec => []SlotsDistinct
<1>1. LobbyInv => SlotsDistinct
  BY LobbyImplies
<1> QED  BY <1>1, LobbyInvariant, PTL

\* A room with members is registered and listed as it is, and one without is not
\* listed (Room.h:96).
THEOREM ListingsAreCurrent == Spec => []ListingIsCurrent
<1>1. LobbyInv => ListingIsCurrent
  BY LobbyImplies
<1> QED  BY <1>1, LobbyInvariant, PTL

\* A registered room that is empty has the join that will open it in its queue, so
\* no room id leaks.
THEOREM NothingLeaks == Spec => []NoRoomLeaks
<1>1. LobbyInv => NoRoomLeaks
  BY LobbyImplies
<1> QED  BY <1>1, LobbyInvariant, PTL

\* What chat and voice have been and will be told of a room is its roster, except
\* for players whose connection is gone.
THEOREM RostersAreTold == Spec => []RosterIsTold
<1>1. LobbyInv => RosterIsTold
  BY LobbyImplies
<1> QED  BY <1>1, LobbyInvariant, PTL
-----------------------------------------------------------------------------
(***************************************************************************)
(* The handoff of rooms to instance servers                                *)
(*                                                                         *)
(* That a start is pending, a load counted and a channel ended depends on  *)
(* the order in which the server hears of an instance: that it was asked   *)
(* for, acknowledged once, ready only after that.  Nothing in the handlers *)
(* checks it; it holds because of who posts what when, and HandoffInv says *)
(* so of every instance, next to the properties themselves.                *)
(***************************************************************************)

(***************************************************************************)
(* What is in a queue                                                      *)
(***************************************************************************)
\* No job of kind op is about instance i.
Unsaid(jobs, op, i) == \A n \in DOMAIN jobs : jobs[n].op = op => jobs[n].instance # i

\* At most one job acknowledges instance i.
Once(jobs, i) ==
    \A n, k \in DOMAIN jobs :
        /\ jobs[n].op = "created" /\ jobs[n].instance = i
        /\ jobs[k].op = "created" /\ jobs[k].instance = i
        => n = k

\* A start of room r.
Begins(jobs, r) == \E n \in DOMAIN jobs : jobs[n].op = "begin" /\ jobs[n].room = r

\* An answer to a start.
Answers(jobs) == \E n \in DOMAIN jobs : jobs[n].op \in {"failed", "running", "finished"}

\* No tickets for instance i.
Untold(jobs, i) == \A n \in DOMAIN jobs : jobs[n].op = "tickets" => jobs[n].instance # i

\* What is in two queues, one behind the other.
LEMMA ConcatJobs ==
  ASSUME NEW S, NEW jobs \in Seq(S), NEW more \in Seq(S)
  PROVE  /\ \A op, i : Unsaid(jobs \o more, op, i) <=> Unsaid(jobs, op, i) /\ Unsaid(more, op, i)
         /\ \A r : Begins(jobs \o more, r) <=> Begins(jobs, r) \/ Begins(more, r)
         /\ Answers(jobs \o more) <=> Answers(jobs) \/ Answers(more)
         /\ \A i : Untold(jobs \o more, i) <=> Untold(jobs, i) /\ Untold(more, i)
         /\ \A i : Once(jobs \o more, i) <=>
                      /\ Once(jobs, i) /\ Once(more, i)
                      /\ Unsaid(jobs, "created", i) \/ Unsaid(more, "created", i)
<1> DEFINE all == jobs \o more  l == Len(jobs)
<1>1. /\ l \in Nat /\ DOMAIN jobs = 1..l /\ Len(more) \in Nat /\ DOMAIN more = 1..Len(more)
      /\ DOMAIN all = 1..l + Len(more)
      /\ \A n \in 1..l + Len(more) : all[n] = IF n <= l THEN jobs[n] ELSE more[n - l]
  BY ConcatProperties, LenProperties
<1> HIDE DEF all, l
<1>2. \A n \in DOMAIN jobs : n \in DOMAIN all /\ all[n] = jobs[n]
  BY <1>1
<1>3. \A n \in DOMAIN more : l + n \in DOMAIN all /\ all[l + n] = more[n] /\
        l + n \notin DOMAIN jobs
  <2> TAKE n \in DOMAIN more
  <2>1. l + n \in DOMAIN all /\ ~(l + n <= l) /\ (l + n) - l = n
    BY <1>1
  <2> QED  BY <1>1, <2>1
<1>4. \A n \in DOMAIN all : \/ n \in DOMAIN jobs
                            \/ n - l \in DOMAIN more /\ n = l + (n - l) /\ all[n] = more[n - l]
  <2> TAKE n \in DOMAIN all
  <2>1. n \in 1 .. l + Len(more)
    BY <1>1
  <2>2. CASE n <= l
    <3>1. n \in DOMAIN jobs
      BY <1>1, <2>1, <2>2
    <3> QED  BY <3>1
  <2>3. CASE ~(n <= l)
    <3>1. all[n] = more[n - l]
      BY <1>1, <2>1, <2>3
    <3>2. n - l \in DOMAIN more /\ n = l + (n - l)
      BY <1>1, <2>1, <2>3
    <3> QED  BY <3>1, <3>2
  <2> QED  BY <1>1, <2>1, <2>2, <2>3
<1>5. \A op, i : Unsaid(all, op, i) <=> Unsaid(jobs, op, i) /\ Unsaid(more, op, i)
  BY <1>2, <1>3, <1>4 DEF Unsaid
<1>6. \A r : Begins(all, r) <=> Begins(jobs, r) \/ Begins(more, r)
  BY <1>2, <1>3, <1>4 DEF Begins
<1>7. Answers(all) <=> Answers(jobs) \/ Answers(more)
  BY <1>2, <1>3, <1>4 DEF Answers
<1>8. \A i : Untold(all, i) <=> Untold(jobs, i) /\ Untold(more, i)
  BY <1>2, <1>3, <1>4 DEF Untold
<1>9. ASSUME NEW i
      PROVE  Once(all, i) <=> /\ Once(jobs, i) /\ Once(more, i)
                              /\ Unsaid(jobs, "created", i) \/ Unsaid(more, "created", i)
  <2>1. ASSUME Once(all, i) PROVE Once(jobs, i)
    BY <1>2, <2>1 DEF Once
  <2>2. ASSUME Once(all, i) PROVE Once(more, i)
    <3> SUFFICES ASSUME NEW n \in DOMAIN more, NEW k \in DOMAIN more,
                        more[n].op = "created" /\ more[n].instance = i,
                        more[k].op = "created" /\ more[k].instance = i
                 PROVE  n = k
      BY DEF Once
    <3>1. l + n = l + k
      BY <1>3, <2>2 DEF Once
    <3> QED  BY <1>1, <3>1
  <2>3. ASSUME Once(all, i) PROVE Unsaid(jobs, "created", i) \/ Unsaid(more, "created", i)
    <3> SUFFICES ASSUME NEW n \in DOMAIN jobs, NEW k \in DOMAIN more,
                        jobs[n].op = "created" /\ jobs[n].instance = i,
                        more[k].op = "created" /\ more[k].instance = i
                 PROVE  FALSE
      BY DEF Unsaid
    <3>1. n = l + k
      BY <1>2, <1>3, <2>3 DEF Once
    <3> QED  BY <1>3, <3>1
  <2>4. ASSUME Once(jobs, i), Once(more, i),
               Unsaid(jobs, "created", i) \/ Unsaid(more, "created", i)
        PROVE  Once(all, i)
    <3> SUFFICES ASSUME NEW n \in DOMAIN all, NEW k \in DOMAIN all,
                        all[n].op = "created" /\ all[n].instance = i,
                        all[k].op = "created" /\ all[k].instance = i
                 PROVE  n = k
      BY DEF Once
    <3>1. CASE n \in DOMAIN jobs /\ k \in DOMAIN jobs
      BY <1>2, <2>4, <3>1 DEF Once
    <3>2. CASE n \notin DOMAIN jobs /\ k \notin DOMAIN jobs
      <4>1. n - l = k - l
        BY <1>4, <2>4, <3>2 DEF Once
      <4> QED  BY <1>4, <3>2, <4>1
    <3>3. CASE n \in DOMAIN jobs /\ k \notin DOMAIN jobs
      BY <1>2, <1>4, <2>4, <3>3 DEF Unsaid
    <3>4. CASE n \notin DOMAIN jobs /\ k \in DOMAIN jobs
      BY <1>2, <1>4, <2>4, <3>4 DEF Unsaid
    <3> QED  BY <3>1, <3>2, <3>3, <3>4
  <2> QED  BY <2>1, <2>2, <2>3, <2>4
<1> QED  BY <1>5, <1>6, <1>7, <1>8, <1>9 DEF all

\* What is in a queue of one job.
LEMMA OneJob ==
  ASSUME NEW S, NEW job \in S
  PROVE  /\ <<job>> \in Seq(S)
         /\ \A op, i : Unsaid(<<job>>, op, i) <=> ~(job.op = op /\ job.instance = i)
         /\ \A r : Begins(<<job>>, r) <=> job.op = "begin" /\ job.room = r
         /\ Answers(<<job>>) <=> job.op \in {"failed", "running", "finished"}
         /\ \A i : Untold(<<job>>, i) <=> ~(job.op = "tickets" /\ job.instance = i)
         /\ \A i : Once(<<job>>, i)
<1> DEFINE jobs == <<job>>
<1>1. jobs \in Seq(S) /\ DOMAIN jobs = {1} /\ jobs[1] = job
  OBVIOUS
<1> HIDE DEF jobs
<1>2. \A op, i : Unsaid(jobs, op, i) <=> ~(job.op = op /\ job.instance = i)
  BY <1>1 DEF Unsaid
<1>3. \A r : Begins(jobs, r) <=> job.op = "begin" /\ job.room = r
  BY <1>1 DEF Begins
<1>4. Answers(jobs) <=> job.op \in {"failed", "running", "finished"}
  BY <1>1 DEF Answers
<1>5. \A i : Untold(jobs, i) <=> ~(job.op = "tickets" /\ job.instance = i)
  BY <1>1 DEF Untold
<1>6. \A i : Once(jobs, i)
  BY <1>1 DEF Once
<1> QED  BY <1>1, <1>2, <1>3, <1>4, <1>5, <1>6 DEF jobs

\* What is in a queue a job was appended to.
LEMMA AppendJobs ==
  ASSUME NEW S, NEW jobs \in Seq(S), NEW job \in S
  PROVE  /\ \A op, i : Unsaid(Append(jobs, job), op, i) <=>
                          Unsaid(jobs, op, i) /\ ~(job.op = op /\ job.instance = i)
         /\ \A r : Begins(Append(jobs, job), r) <=>
                      Begins(jobs, r) \/ (job.op = "begin" /\ job.room = r)
         /\ Answers(Append(jobs, job)) <=>
                      Answers(jobs) \/ job.op \in {"failed", "running", "finished"}
         /\ \A i : Untold(Append(jobs, job), i) <=>
                      Untold(jobs, i) /\ ~(job.op = "tickets" /\ job.instance = i)
         /\ \A i : Once(Append(jobs, job), i) <=>
                      /\ Once(jobs, i)
                      /\ job.op = "created" /\ job.instance = i => Unsaid(jobs, "created", i)
<1> DEFINE more == <<job>>
<1>1. Append(jobs, job) = jobs \o more
  BY AppendIsConcat
<1>2. /\ more \in Seq(S)
      /\ \A op, i : Unsaid(more, op, i) <=> ~(job.op = op /\ job.instance = i)
      /\ \A r : Begins(more, r) <=> job.op = "begin" /\ job.room = r
      /\ Answers(more) <=> job.op \in {"failed", "running", "finished"}
      /\ \A i : Untold(more, i) <=> ~(job.op = "tickets" /\ job.instance = i)
      /\ \A i : Once(more, i)
  BY OneJob
<1> HIDE DEF more
<1>3. /\ \A op, i : Unsaid(jobs \o more, op, i) <=> Unsaid(jobs, op, i) /\ Unsaid(more, op, i)
      /\ \A r : Begins(jobs \o more, r) <=> Begins(jobs, r) \/ Begins(more, r)
      /\ Answers(jobs \o more) <=> Answers(jobs) \/ Answers(more)
      /\ \A i : Untold(jobs \o more, i) <=> Untold(jobs, i) /\ Untold(more, i)
      /\ \A i : Once(jobs \o more, i) <=>
                   /\ Once(jobs, i) /\ Once(more, i)
                   /\ Unsaid(jobs, "created", i) \/ Unsaid(more, "created", i)
  BY <1>2, ConcatJobs
<1> QED  BY <1>1, <1>2, <1>3

\* What is in a queue is in its first job or behind it.
LEMMA TailJobs ==
  ASSUME NEW S, NEW jobs \in Seq(S), jobs # <<>>
  PROVE  LET job == Head(jobs) IN
         /\ \A op, i : Unsaid(jobs, op, i) <=>
                          ~(job.op = op /\ job.instance = i) /\ Unsaid(Tail(jobs), op, i)
         /\ \A r : Begins(jobs, r) <=> (job.op = "begin" /\ job.room = r) \/ Begins(Tail(jobs), r)
         /\ Answers(jobs) <=> job.op \in {"failed", "running", "finished"} \/ Answers(Tail(jobs))
         /\ \A i : Untold(jobs, i) <=>
                      ~(job.op = "tickets" /\ job.instance = i) /\ Untold(Tail(jobs), i)
         /\ \A i : Once(jobs, i) <=>
                      /\ Once(Tail(jobs), i)
                      /\ job.op = "created" /\ job.instance = i => Unsaid(Tail(jobs), "created", i)
<1> DEFINE job == Head(jobs)  first == <<job>>  rest == Tail(jobs)
<1>1. rest \in Seq(S) /\ job \in S
  BY Dropped
<1>2. jobs = first \o rest
  OBVIOUS
<1> HIDE DEF job, rest
<1>3. /\ first \in Seq(S)
      /\ \A op, i : Unsaid(first, op, i) <=> ~(job.op = op /\ job.instance = i)
      /\ \A r : Begins(first, r) <=> job.op = "begin" /\ job.room = r
      /\ Answers(first) <=> job.op \in {"failed", "running", "finished"}
      /\ \A i : Untold(first, i) <=> ~(job.op = "tickets" /\ job.instance = i)
      /\ \A i : Once(first, i)
  BY <1>1, OneJob
<1> HIDE DEF first
<1>4. /\ \A op, i : Unsaid(jobs, op, i) <=> Unsaid(first, op, i) /\ Unsaid(rest, op, i)
      /\ \A r : Begins(jobs, r) <=> Begins(first, r) \/ Begins(rest, r)
      /\ Answers(jobs) <=> Answers(first) \/ Answers(rest)
      /\ \A i : Untold(jobs, i) <=> Untold(first, i) /\ Untold(rest, i)
      /\ \A i : Once(jobs, i) <=>
                   /\ Once(first, i) /\ Once(rest, i)
                   /\ Unsaid(first, "created", i) \/ Unsaid(rest, "created", i)
  BY <1>1, <1>2, <1>3, ConcatJobs
<1> QED  BY <1>3, <1>4 DEF job, rest

-----------------------------------------------------------------------------
(***************************************************************************)
(* The invariant                                                           *)
(***************************************************************************)
\* No room has tickets for instance i coming.
NoTickets(i) == \A r \in RoomId : Untold(roomJobs[r], i)

\* Nothing but the request has been made for instance i.
Early(i) ==
    /\ NoTickets(i)
    /\ handoffs[i] # None => handoffs[i].phase = "AwaitingCreate"

\* An instance is heard of once it was asked for, and first that it was created.
Ordered(i) ==
    /\ instances[i] \in {"none", "asked"} =>
          Early(i) /\ Unsaid(serverJobs, "created", i) /\ Unsaid(serverJobs, "live", i)
    /\ Once(serverJobs, i)
    /\ ~Unsaid(serverJobs, "created", i) =>
          instances[i] \in {"created", "over"} /\ Early(i) /\ Unsaid(serverJobs, "live", i)

\* Ids beyond the last one given out are unused.
NotYetStarted(i) == i > started => handoffs[i] = None /\ instances[i] = "none"

\* A handoff is on a connection that has said hello.
ServedByKnown(i) == handoffs[i] # None => peers[handoffs[i].peer] # "new"

\* Who will be known in the channel of a match is on the roster of its handoff.
Rostered(i) ==
    \A s \in Session : <<s, <<"instance", i>>>> \in ToBeTold =>
        /\ handoffs[i] # None /\ handoffs[i].phase # "AwaitingCreate"
        /\ s \in handoffs[i].roster

\* What holds of each instance.
Handed(i) == NotYetStarted(i) /\ ServedByKnown(i) /\ Ordered(i) /\ Rostered(i)

\* Together with LobbyInv they are inductive.
HandoffInv == (\A i \in InstanceId : Handed(i)) /\ StartingIsPending /\ LoadIsPending

\* StartPending in these terms.
LEMMA StartPendingIs ==
  ASSUME NEW r
  PROVE  StartPending(r) <=> \/ Begins(serverJobs, r)
                             \/ \E i \in InstanceId : Unfinished(i) /\ handoffs[i].room = r
                             \/ Answers(roomJobs[r])
BY DEF StartPending, Begins, Answers

\* The invariant contains the properties it is for.
LEMMA HandoffImplies ==
  ASSUME HandoffInv
  PROVE  StartingIsPending /\ LoadIsPending /\ MatchChannelsEnd
BY DEF HandoffInv, Handed, Rostered, MatchChannelsEnd

\* It holds at the start.
LEMMA HandoffInit == Init => HandoffInv
<1> SUFFICES ASSUME Init PROVE HandoffInv
  OBVIOUS
<1> USE DEF Init
<1>1. ToBeTold = {}
  <2>1. DOMAIN serverJobs = {}
    OBVIOUS
  <2> QED  BY <2>1 DEF ToBeTold, Known
<1>2. ASSUME NEW i \in InstanceId PROVE Handed(i)
  <2>1. NotYetStarted(i) /\ ServedByKnown(i)
    BY DEF NotYetStarted, ServedByKnown
  <2>2. Rostered(i)
    BY <1>1 DEF Rostered
  <2>3. Ordered(i)
    <3>1. \A r \in RoomId : DOMAIN roomJobs[r] = {}
      OBVIOUS
    <3>2. DOMAIN serverJobs = {}
      OBVIOUS
    <3> QED  BY <3>1, <3>2 DEF Ordered, Early, NoTickets, Untold, Unsaid, Once
  <2> QED  BY <2>1, <2>2, <2>3 DEF Handed
<1>3. StartingIsPending
  BY DEF StartingIsPending, NewRoom
<1>4. LoadIsPending
  BY DEF LoadIsPending
<1> QED  BY <1>2, <1>3, <1>4 DEF HandoffInv
-----------------------------------------------------------------------------
(***************************************************************************)
(* The lobby                                                               *)
(***************************************************************************)

\* A job that reports nothing, nor enters anybody into a match.
Silent(job) ==
    /\ job.op \in {"enter", "exit", "closed", "begin"}
    /\ job.op = "enter" => \E r \in RoomId : job.channel = <<"room", r>>

\* What the lobby says puts nobody into the channel of a match.
LEMMA ToldNoMore ==
  ASSUME LobbyInv, memberships' = memberships,
         \/ serverJobs' = serverJobs
         \/ \E job \in ServerJob : Silent(job) /\ serverJobs' = Append(serverJobs, job),
         NEW i \in InstanceId, NEW s \in Session, <<s, <<"instance", i>>>> \in ToBeTold'
  PROVE  <<s, <<"instance", i>>>> \in ToBeTold
<1>1. CASE serverJobs' = serverJobs
  BY <1>1, ToldUnchanged
<1>2. ASSUME NEW job \in ServerJob, Silent(job), serverJobs' = Append(serverJobs, job)
      PROVE  <<s, <<"instance", i>>>> \in ToBeTold
  <2>1. ~Enters(job, <<s, <<"instance", i>>>>)
    BY <1>2 DEF Silent, Enters
  <2>2. <<"instance", i>> \in Channel
    BY DEF Channel
  <2>3. <<s, <<"instance", i>>>> \in ToBeTold' <=>
          \/ Enters(job, <<s, <<"instance", i>>>>)
          \/ <<s, <<"instance", i>>>> \in ToBeTold /\ ~Removes(job, <<s, <<"instance", i>>>>)
    BY <1>2, <2>2, ToldMore
  <2> QED  BY <2>1, <2>3
<1> QED  BY <1>1, <1>2

\* A step of the lobby keeps the invariant if it answers no start it did not
\* post itself, takes no answer from a room that stays Starting, and hands out
\* tickets only for an instance that had some coming.
LEMMA LobbySide ==
  ASSUME LobbyInv, HandoffInv, UNCHANGED <<handoffVars, peers, loads>>,
         \A i \in InstanceId :
            \/ instances'[i] = instances[i]
            \/ instances[i] = "created" /\ instances'[i] = "told" /\ ~NoTickets(i),
         \A q \in RoomId, i \in InstanceId : Untold(roomJobs[q], i) => Untold(roomJobs'[q], i),
         \A q \in RoomId : rooms'[q].state = "Starting" =>
            \/ rooms[q].state = "Starting" /\ (Answers(roomJobs[q]) => Answers(roomJobs'[q]))
            \/ Begins(serverJobs', q),
         \/ serverJobs' = serverJobs
         \/ \E job \in ServerJob : Silent(job) /\ serverJobs' = Append(serverJobs, job)
  PROVE  HandoffInv'
<1> USE DEF handoffVars
<1>1. /\ \A i : /\ Unsaid(serverJobs', "created", i) <=> Unsaid(serverJobs, "created", i)
                /\ Unsaid(serverJobs', "live", i) <=> Unsaid(serverJobs, "live", i)
                /\ Once(serverJobs, i) => Once(serverJobs', i)
      /\ \A q : Begins(serverJobs, q) => Begins(serverJobs', q)
  <2>1. CASE serverJobs' = serverJobs
    BY <2>1
  <2>2. ASSUME NEW job \in ServerJob, Silent(job), serverJobs' = Append(serverJobs, job)
        PROVE  /\ \A i : /\ Unsaid(serverJobs', "created", i) <=> Unsaid(serverJobs, "created", i)
                         /\ Unsaid(serverJobs', "live", i) <=> Unsaid(serverJobs, "live", i)
                         /\ Once(serverJobs, i) => Once(serverJobs', i)
               /\ \A q : Begins(serverJobs, q) => Begins(serverJobs', q)
    <3>1. serverJobs \in Seq(ServerJob)
      BY DEF LobbyInv, TypeOK
    <3>2. job.op # "created" /\ job.op # "live"
      BY <2>2 DEF Silent
    <3>3. /\ \A op, i : Unsaid(Append(serverJobs, job), op, i) <=>
                          Unsaid(serverJobs, op, i) /\ ~(job.op = op /\ job.instance = i)
          /\ \A r : Begins(Append(serverJobs, job), r) <=>
                      Begins(serverJobs, r) \/ (job.op = "begin" /\ job.room = r)
          /\ \A i : Once(Append(serverJobs, job), i) <=>
                      /\ Once(serverJobs, i)
                      /\ job.op = "created" /\ job.instance = i => Unsaid(serverJobs, "created", i)
      BY <3>1, AppendJobs
    <3> QED  BY <2>2, <3>2, <3>3
  <2> QED  BY <2>1, <2>2
<1>2. \A i \in InstanceId : NoTickets(i) => NoTickets(i)'
  BY DEF NoTickets
<1>3. ASSUME NEW i \in InstanceId PROVE Handed(i)'
  <2>1. NotYetStarted(i) /\ ServedByKnown(i) /\ Ordered(i) /\ Rostered(i)
    BY DEF HandoffInv, Handed
  <2>2. NotYetStarted(i)'
    BY <2>1 DEF NotYetStarted
  <2>3. ServedByKnown(i)'
    BY <2>1 DEF ServedByKnown
  <2>4. Rostered(i)'
    BY <2>1, ToldNoMore DEF Rostered
  <2>5. Early(i) => Early(i)'
    BY <1>2 DEF Early
  <2>6. Ordered(i)'
    <3>1. CASE instances'[i] = instances[i]
      BY <1>1, <2>1, <2>5, <3>1 DEF Ordered
    <3>2. CASE instances[i] = "created" /\ instances'[i] = "told" /\ ~NoTickets(i)
      <4>1. Unsaid(serverJobs, "created", i)
        BY <2>1, <3>2 DEF Ordered, Early
      <4> QED  BY <1>1, <2>1, <3>2, <4>1 DEF Ordered
    <3> QED  BY <3>1, <3>2
  <2> QED  BY <2>2, <2>3, <2>4, <2>6 DEF Handed
<1>4. StartingIsPending'
  <2> SUFFICES ASSUME NEW q \in RoomId, rooms'[q].state = "Starting" PROVE StartPending(q)'
    BY DEF StartingIsPending
  <2>1. StartPending(q)' <=> \/ Begins(serverJobs', q)
                             \/ \E i \in InstanceId : Unfinished(i) /\ handoffs[i].room = q
                             \/ Answers(roomJobs'[q])
    BY DEF StartPending, Begins, Answers, Unfinished
  <2>2. CASE Begins(serverJobs', q)
    BY <2>1, <2>2
  <2>3. CASE rooms[q].state = "Starting" /\ (Answers(roomJobs[q]) => Answers(roomJobs'[q]))
    <3>1. StartPending(q)
      BY <2>3 DEF HandoffInv, StartingIsPending
    <3> QED  BY <1>1, <2>1, <2>3, <3>1, StartPendingIs
  <2> QED  BY <2>2, <2>3
<1>5. LoadIsPending'
  BY DEF HandoffInv, LoadIsPending
<1> QED  BY <1>3, <1>4, <1>5 DEF HandoffInv

\* A job that is no tickets adds none, and takes no answer away.
LEMMA PostJobs ==
  ASSUME NEW jobs \in [RoomId -> Seq(RoomJob)], NEW r \in RoomId, NEW job \in RoomJob,
         job.op # "tickets"
  PROVE  \A q \in RoomId : /\ \A i : Untold(jobs[q], i) => Untold(Post(jobs, r, job)[q], i)
                           /\ Answers(jobs[q]) => Answers(Post(jobs, r, job)[q])
<1>1. /\ Post(jobs, r, job)[r] = Append(jobs[r], job)
      /\ \A q \in RoomId : q # r => Post(jobs, r, job)[q] = jobs[q]
  BY Posted
<1>2. jobs[r] \in Seq(RoomJob)
  OBVIOUS
<1>3. /\ \A i : Untold(jobs[r], i) => Untold(Append(jobs[r], job), i)
      /\ Answers(jobs[r]) => Answers(Append(jobs[r], job))
  BY <1>2, AppendJobs
<1> QED  BY <1>1, <1>3

\* The job that runs is the only one that leaves.
LEMMA PoppedJobs ==
  ASSUME LobbyInv, NEW r \in RoomId, NEW op, Runs(r, op)
  PROVE  \A q \in RoomId : /\ \A i : Untold(roomJobs[q], i) => Untold(Popped(r)[q], i)
                           /\ op \notin {"failed", "running", "finished"} \/ q # r =>
                                 (Answers(roomJobs[q]) => Answers(Popped(r)[q]))
<1> DEFINE jobs == roomJobs[r]
<1>1. /\ jobs # <<>> /\ jobs \in Seq(RoomJob) /\ Head(jobs).op = op
      /\ Popped(r)[r] = Tail(jobs)
      /\ \A q \in RoomId : q # r => Popped(r)[q] = roomJobs[q]
  BY Running
<1>2. /\ Answers(jobs) <=> Head(jobs).op \in {"failed", "running", "finished"} \/
           Answers(Tail(jobs))
      /\ \A i : Untold(jobs, i) <=>
                  ~(Head(jobs).op = "tickets" /\ Head(jobs).instance = i) /\ Untold(Tail(jobs), i)
  <2> HIDE DEF jobs
  <2> QED  BY <1>1, TailJobs
<1> QED  BY <1>1, <1>2

\* What clients do keeps the invariant.
LEMMA ClientStepHandoff ==
  ASSUME LobbyInv, HandoffInv, NEW s \in Session, ClientStep(s)
  PROVE  HandoffInv'
<1> USE DEF handoffVars, peerVars, indexVars, Packet, Event
<1>0. /\ roomJobs \in [RoomId -> Seq(RoomJob)]
      /\ \A q \in RoomId : q > created => roomJobs[q] = <<>>
      /\ registered \subseteq RoomId
  BY RoomJobsKept
<1>1. ASSUME UNCHANGED <<handoffVars, peerVars>>,
             \A q \in RoomId : rooms'[q].state = "Starting" => rooms[q].state = "Starting",
             \/ roomJobs' = roomJobs
             \/ \E q \in RoomId, job \in RoomJob :
                   /\ job.op \in {"join", "leave", "kick", "ready", "start"}
                   /\ roomJobs' = Post(roomJobs, q, job),
             \/ serverJobs' = serverJobs
             \/ \E job \in ServerJob : Silent(job) /\ serverJobs' = Append(serverJobs, job)
      PROVE  HandoffInv'
  <2>1. \A q \in RoomId : /\ \A i : Untold(roomJobs[q], i) => Untold(roomJobs'[q], i)
                          /\ Answers(roomJobs[q]) => Answers(roomJobs'[q])
    <3>1. CASE roomJobs' = roomJobs
      BY <3>1
    <3>2. ASSUME NEW q \in RoomId, NEW job \in RoomJob,
                 job.op \in {"join", "leave", "kick", "ready", "start"},
                 roomJobs' = Post(roomJobs, q, job)
          PROVE  \A p \in RoomId : /\ \A i : Untold(roomJobs[p], i) => Untold(roomJobs'[p], i)
                                   /\ Answers(roomJobs[p]) => Answers(roomJobs'[p])
      <4>1. job.op # "tickets"
        BY <3>2
      <4> QED  BY <1>0, <3>2, <4>1, PostJobs
    <3> QED  BY <1>1, <3>1, <3>2
  <2> QED  BY <1>1, <2>1, LobbySide
<1>2. CASE C_Hello(s)
  BY <1>1, <1>2 DEF C_Hello
<1>3. ASSUME NEW r, NEW job \in RoomJob, job.op \in {"join", "leave", "kick", "ready", "start"},
             Enqueue(s, r, job)
      PROVE  HandoffInv'
  BY <1>0, <1>1, <1>3 DEF Enqueue
<1>4. ASSUME NEW locked \in Locks, C_RoomCreate(s, locked) PROVE HandoffInv'
  <2> DEFINE job == JoinJob(s, TRUE, "hand", <<>>)
  <2>1. job \in RoomJob /\ job.op = "join" /\ job.opens = TRUE
    <3>1. <<>> \in Seq(RoomId)
      BY EmptySeq
    <3> QED  BY <3>1, RoomJobsMade
  <2>2. Create(job, roomJobs)
    BY <1>4 DEF C_RoomCreate
  <2> HIDE DEF job
  <2>3. Grown(roomJobs)
    BY <1>0, <2>1, <2>2, CreateGrows
  <2>4. \A q \in RoomId : rooms'[q].state = "Starting" => rooms[q].state = "Starting"
    <3>1. rooms \in [RoomId -> RoomRecord]
      BY DEF LobbyInv, TypeOK
    <3> QED  BY <1>4, <3>1 DEF C_RoomCreate, NewRoom
  <2> QED  BY <1>1, <1>4, <2>3, <2>4 DEF C_RoomCreate, Grown
<1>5. CASE C_QuickMatch(s)
  <2>1. PICK candidates \in Candidates : QuickMatchStep(s, candidates, roomJobs)
    BY <1>5 DEF C_QuickMatch
  <2>2. candidates \in Seq(RoomId)
    BY CandidatesType
  <2>3. Grown(roomJobs)
    BY <1>0, <2>1, <2>2, QuickMatchGrows
  <2> QED  BY <1>1, <1>5, <2>3 DEF C_QuickMatch, Grown
<1>6. CASE OnDisconnected(s)
  <2> DEFINE job == [op |-> "closed", who |-> s]
  <2>1. job \in ServerJob /\ Silent(job)
    BY ServerJobsMade DEF Silent
  <2>2. serverJobs' = Append(serverJobs, job)
    BY <1>6 DEF OnDisconnected
  <2> HIDE DEF job
  <2>3. LeaveJob(s) \in RoomJob /\ LeaveJob(s).op = "leave"
    BY RoomJobsMade DEF LeaveJob
  <2>4. \/ roomJobs' = roomJobs
        \/ \E q \in RoomId : roomJobs' = Post(roomJobs, q, LeaveJob(s))
    BY <1>0, <1>6 DEF OnDisconnected
  <2> QED  BY <1>1, <1>6, <2>1, <2>2, <2>3, <2>4 DEF OnDisconnected
<1>7. CASE \E r \in 1..created, right \in BOOLEAN : C_RoomJoin(s, r, right)
  <2>1. PICK r \in 1..created, right \in BOOLEAN : C_RoomJoin(s, r, right)
    BY <1>7
  <2> DEFINE opens == right \/ ~rooms[r].locked
             job == JoinJob(s, opens, "hand", <<>>)
  <2>2. opens \in BOOLEAN /\ <<>> \in Seq(RoomId)
    BY EmptySeq
  <2> HIDE DEF opens
  <2>3. job \in RoomJob /\ job.op = "join"
    BY <2>2, RoomJobsMade
  <2>4. Enqueue(s, r, job)
    BY <2>1 DEF C_RoomJoin, opens
  <2> HIDE DEF job
  <2> QED  BY <1>3, <2>3, <2>4
<1>8. CASE C_RoomLeave(s)
  <2>1. LeaveJob(s) \in RoomJob /\ LeaveJob(s).op = "leave"
    BY RoomJobsMade DEF LeaveJob
  <2> QED  BY <1>3, <1>8, <2>1 DEF C_RoomLeave, ToOwnRoom
<1>9. CASE \E target \in Session : C_RoomKick(s, target)
  BY <1>3, <1>9, RoomJobsMade DEF C_RoomKick, ToOwnRoom
<1>10. CASE \E ready \in BOOLEAN : C_RoomReady(s, ready)
  BY <1>3, <1>10, RoomJobsMade DEF C_RoomReady, ToOwnRoom
<1>11. CASE C_RoomStart(s)
  BY <1>3, <1>11, RoomJobsMade DEF C_RoomStart, ToOwnRoom
<1> QED  BY <1>2, <1>4, <1>5, <1>6, <1>7, <1>8, <1>9, <1>10, <1>11 DEF ClientStep

\* What a body of a room may leave of a room that is Starting.
LEMMA RoomSide ==
  ASSUME LobbyInv, HandoffInv, NEW r \in RoomId, NEW op, Runs(r, op), roomJobs' = Popped(r),
         UNCHANGED <<handoffVars, peerVars>>,
         \A q \in RoomId : q # r => rooms'[q] = rooms[q],
         rooms'[r].state = "Starting" =>
            \/ rooms[r].state = "Starting" /\ op \notin {"failed", "running", "finished"}
            \/ Begins(serverJobs', r),
         \/ serverJobs' = serverJobs
         \/ \E job \in ServerJob : Silent(job) /\ serverJobs' = Append(serverJobs, job)
  PROVE  HandoffInv'
<1> USE DEF peerVars
<1>1. \A q \in RoomId : /\ \A i : Untold(roomJobs[q], i) => Untold(roomJobs'[q], i)
                        /\ op \notin {"failed", "running", "finished"} \/ q # r =>
                              (Answers(roomJobs[q]) => Answers(roomJobs'[q]))
  BY PoppedJobs
<1>2. \A q \in RoomId : rooms'[q].state = "Starting" =>
            \/ rooms[q].state = "Starting" /\ (Answers(roomJobs[q]) => Answers(roomJobs'[q]))
            \/ Begins(serverJobs', q)
  BY <1>1
<1> QED  BY <1>1, <1>2, LobbySide

\* The channels of rooms are not those of matches.
LEMMA SilentExit ==
  ASSUME NEW who \in SUBSET Session, NEW r \in RoomId
  PROVE  /\ EnterJob(who, <<"room", r>>) \in ServerJob /\ Silent(EnterJob(who, <<"room", r>>))
         /\ ExitJob(who, <<"room", r>>) \in ServerJob /\ Silent(ExitJob(who, <<"room", r>>))
<1>1. EnterJob(who, <<"room", r>>) \in ServerJob /\ ExitJob(who, <<"room", r>>) \in ServerJob
  BY ServerJobsMade, RoomChannels
<1>2. Silent(EnterJob(who, <<"room", r>>)) /\ Silent(ExitJob(who, <<"room", r>>))
  BY DEF Silent, EnterJob, ExitJob
<1> QED  BY <1>1, <1>2

\* A leave that looks at the pointer changes nothing of a handoff.
LEMMA CompareHandoff ==
  ASSUME LobbyInv, HandoffInv, NEW r \in RoomId, NEW s, Compare(r, s)
  PROVE  HandoffInv'
<1>1. UNCHANGED <<handoffVars, peerVars, rooms, roomJobs, serverJobs>>
  BY DEF Compare
<1>2. \A q \in RoomId : rooms'[q].state = "Starting" =>
         /\ rooms[q].state = "Starting"
         /\ Answers(roomJobs[q]) => Answers(roomJobs'[q])
  BY <1>1
<1> QED  BY <1>1, <1>2, LobbySide DEF peerVars

\* Every job of a room keeps the invariant: an answer ends the wait of its room,
\* and tickets are given out once.
LEMMA RoomStepHandoff ==
  ASSUME LobbyInv, HandoffInv, NEW r \in RoomId, RoomStep(r)
  PROVE  HandoffInv'
<1> DEFINE job == Head(roomJobs[r])
<1> USE DEF handoffVars, indexVars, sessionVars
<1>0. rooms \in [RoomId -> RoomRecord] /\ rooms[r] \in RoomRecord
  BY DEF LobbyInv, TypeOK
<1>1. ASSUME NEW op, Runs(r, op)
      PROVE  /\ job \in RoomJob /\ job.op = op
             /\ op = "join" => job.who \in Session /\ job.rest \in Seq(RoomId)
             /\ op \in {"leave", "start", "kick"} => job.who \in Session
             /\ op = "kick" => job.target \in Session
             /\ op = "tickets" => job.instance \in InstanceId
  <2>1. job \in RoomJob /\ job.op = op
    BY <1>1, Running
  <2> HIDE DEF job
  <2> QED  BY <2>1, RoomJobFields
<1>2. ASSUME NEW op, Runs(r, op), Passes(r), rooms[r].state = "Starting" => op \notin {"failed",
             "running", "finished"}
      PROVE  HandoffInv'
  BY <1>2, RoomSide DEF Passes
<1>3. CASE JoinAdmitted(r)
  <2>1. Runs(r, "join") /\ job.who \in Session
    BY <1>1, <1>3 DEF JoinAdmitted
  <2>2. \A q \in RoomId : rooms'[q].state = rooms[q].state
    BY <1>0, <1>3 DEF JoinAdmitted, Admit, RoomRecord
  <2>3. /\ \A q \in RoomId : q # r => rooms'[q] = rooms[q]
        /\ serverJobs' = Append(serverJobs, EnterJob({job.who}, <<"room", r>>))
        /\ roomJobs' = Popped(r)
        /\ UNCHANGED <<handoffVars, peerVars>>
    BY <1>0, <1>3 DEF JoinAdmitted
  <2> HIDE DEF job
  <2> QED  BY <2>1, <2>2, <2>3, SilentExit, RoomSide
<1>4. CASE JoinRefused(r)
  <2>1. Runs(r, "join") /\ job.who \in Session /\ job.rest \in Seq(RoomId)
    BY <1>1, <1>4 DEF JoinRefused
  <2>2. \A q \in RoomId : rooms'[q].state = rooms[q].state
    BY <1>0, <1>4 DEF JoinRefused, Lapsed, RoomRecord
  <2>3. /\ Popped(r) \in [RoomId -> Seq(RoomJob)]
        /\ \A q \in RoomId : q > created => Popped(r)[q] = <<>>
    BY <2>1, Running
  <2>4. \/ roomJobs' = Popped(r)
        \/ \E q \in RoomId, j \in RoomJob : j.op = "join" /\ roomJobs' = Post(Popped(r), q, j)
    <3>1. QuickMatchStep(job.who, job.rest, Popped(r)) \/ roomJobs' = Popped(r)
      BY <1>4 DEF JoinRefused
    <3> HIDE DEF job
    <3>2. QuickMatchStep(job.who, job.rest, Popped(r)) => Grown(Popped(r))
      BY <2>1, <2>3, QuickMatchGrows
    <3> QED  BY <3>1, <3>2 DEF Grown
  <2>5. \A q \in RoomId : /\ \A i : Untold(Popped(r)[q], i) => Untold(roomJobs'[q], i)
                          /\ Answers(Popped(r)[q]) => Answers(roomJobs'[q])
    <3>1. ASSUME NEW q \in RoomId, NEW j \in RoomJob, j.op = "join", roomJobs' = Post(Popped(r),
                 q, j)
          PROVE  \A p \in RoomId : /\ \A i : Untold(Popped(r)[p], i) => Untold(roomJobs'[p], i)
                                   /\ Answers(Popped(r)[p]) => Answers(roomJobs'[p])
      <4>1. j.op # "tickets"
        BY <3>1
      <4> DEFINE jobs == Popped(r)
      <4>2. jobs \in [RoomId -> Seq(RoomJob)]
        BY <2>3
      <4> HIDE DEF jobs
      <4>3. \A p \in RoomId : /\ \A i : Untold(jobs[p], i) => Untold(Post(jobs, q, j)[p], i)
                              /\ Answers(jobs[p]) => Answers(Post(jobs, q, j)[p])
        BY <4>1, <4>2, PostJobs
      <4> QED  BY <3>1, <4>3 DEF jobs
    <3> QED  BY <2>4, <3>1
  <2>6. \A q \in RoomId : /\ \A i : Untold(roomJobs[q], i) => Untold(Popped(r)[q], i)
                          /\ Answers(roomJobs[q]) => Answers(Popped(r)[q])
    BY <2>1, PoppedJobs
  <2>7. UNCHANGED <<handoffVars, peerVars, serverJobs>>
    BY <1>4 DEF JoinRefused
  <2> QED  BY <2>2, <2>5, <2>6, <2>7, LobbySide DEF peerVars
<1>5. ASSUME NEW op \in {"leave", "kick"}, Runs(r, op), NEW s \in Session, NEW room,
             Departs(r, s, room), room.state = "Starting" => rooms[r].state = "Starting",
             roomJobs' = Popped(r), UNCHANGED <<handoffVars, peerVars>>
      PROVE  HandoffInv'
  <2>1. /\ \A q \in RoomId : q # r => rooms'[q] = rooms[q]
        /\ rooms'[r] = room
        /\ serverJobs' = Append(serverJobs, ExitJob({s}, <<"room", r>>))
    BY <1>0, <1>5 DEF Departs
  <2>2. {s} \in SUBSET Session
    OBVIOUS
  <2>3. op \notin {"failed", "running", "finished"}
    OBVIOUS
  <2> QED  BY <1>5, <2>1, <2>2, <2>3, SilentExit, RoomSide
<1>6. ASSUME NEW room \in RoomRecord, NEW s
      PROVE  Drop(room, s).state = "Starting" => room.state = "Starting"
  BY <1>6 DEF Drop, RoomRecord
<1>7. CASE HandleLeave(r)
  <2>1. Runs(r, "leave") /\ job.who \in Session
    BY <1>1, <1>7 DEF HandleLeave
  <2> QED  BY <1>0, <1>2, <1>5, <1>6, <1>7, <2>1, CompareHandoff DEF HandleLeave
<1>8. CASE HandleKick(r)
  <2>1. Runs(r, "kick") /\ job.target \in Session
    BY <1>1, <1>8 DEF HandleKick
  <2>2. Kicked(rooms[r], job.target).state = "Starting" => rooms[r].state = "Starting"
    <3> DEFINE room == [rooms[r] EXCEPT !.cooldown = @ \cup {job.target}]
    <3>1. room \in RoomRecord /\ room.state = rooms[r].state
      BY <1>0, <2>1 DEF RoomRecord
    <3> HIDE DEF room
    <3>2. Drop(room, job.target).state = "Starting" => room.state = "Starting"
      BY <1>6, <3>1
    <3> QED  BY <3>1, <3>2 DEF Kicked, room
  <2> QED  BY <1>2, <1>5, <1>8, <2>1, <2>2, CompareHandoff DEF HandleKick
<1>9. CASE HandleReady(r)
  <2>1. Runs(r, "ready") /\ rooms' = [rooms EXCEPT ![r] = SetReady(@, job.who, job.ready)]
    BY <1>9 DEF HandleReady
  <2>2. \A q \in RoomId : rooms'[q].state = rooms[q].state /\ (q # r => rooms'[q] = rooms[q])
    BY <1>0, <2>1 DEF SetReady, RoomRecord
  <2> QED  BY <1>9, <2>1, <2>2, RoomSide DEF HandleReady
<1>10. CASE HandleStart(r)
  <2>1. Runs(r, "start")
    BY <1>10 DEF HandleStart
  <2>2. CASE Passes(r)
    BY <1>2, <2>1, <2>2
  <2> DEFINE start == [op |-> "begin", room |-> r, roster |-> Roster(rooms[r])]
  <2>3. CASE Turns(r, [rooms[r] EXCEPT !.state = "Starting"], <<start>>) /\ UNCHANGED peerVars
    <3>1. serverJobs \in Seq(ServerJob)
      BY DEF LobbyInv, TypeOK
    <3>2. start \in ServerJob
      <4>1. rooms[r].members \in Seq(Member)
        BY <1>0 DEF RoomRecord
      <4>2. \A i \in 1..Len(rooms[r].members) : rooms[r].members[i] \in Member
        BY <4>1, ElementOfSeq
      <4>3. \A i \in 1..Len(rooms[r].members) : rooms[r].members[i].sid \in Session
        BY <4>2 DEF Member
      <4>4. Roster(rooms[r]) \in SUBSET Session
        BY <4>1, <4>3, RosterOf
      <4> QED  BY <4>4, ServerJobsMade
    <3>3. start.op = "begin" /\ start.room = r /\ Silent(start)
      BY DEF Silent
    <3>4. /\ serverJobs' = serverJobs \o <<start>> /\ roomJobs' = Popped(r)
          /\ \A q \in RoomId : q # r => rooms'[q] = rooms[q]
          /\ UNCHANGED <<handoffVars, peerVars>>
      BY <1>0, <2>3 DEF Turns
    <3> HIDE DEF start
    <3>5. serverJobs' = Append(serverJobs, start)
      BY <3>1, <3>2, <3>4, AppendIsConcat
    <3>6. Begins(serverJobs', r)
      BY <3>1, <3>2, <3>3, <3>5, AppendJobs
    <3> QED  BY <2>1, <3>2, <3>3, <3>4, <3>5, <3>6, RoomSide
  <2> QED  BY <1>10, <2>2, <2>3 DEF HandleStart
<1>11. CASE HandleTickets(r)
  <2>1. Runs(r, "tickets") /\ job.instance \in InstanceId
    BY <1>1, <1>11 DEF HandleTickets
  <2>2. ~NoTickets(job.instance)
    <3>1. roomJobs[r] # <<>> /\ roomJobs[r] \in Seq(RoomJob) /\ job.op = "tickets"
      BY <2>1, Running
    <3>2. ~Untold(roomJobs[r], job.instance)
      BY <3>1, TailJobs
    <3> QED  BY <3>2 DEF NoTickets
  <2>3. \A i \in InstanceId :
            \/ instances'[i] = instances[i]
            \/ instances[i] = "created" /\ instances'[i] = "told" /\ ~NoTickets(i)
    <3>1. instances \in [InstanceId -> Life]
      BY OthersTyped
    <3> QED  BY <1>11, <2>1, <2>2, <3>1 DEF HandleTickets
  <2>4. /\ roomJobs' = Popped(r) /\ UNCHANGED <<handoffVars, rooms, serverJobs, peers, loads>>
    BY <1>11 DEF HandleTickets
  <2>5. \A q \in RoomId : /\ \A i : Untold(roomJobs[q], i) => Untold(Popped(r)[q], i)
                          /\ Answers(roomJobs[q]) => Answers(Popped(r)[q])
    BY <2>1, PoppedJobs
  <2> QED  BY <2>3, <2>4, <2>5, LobbySide
<1>12. ASSUME NEW op, Runs(r, op), NEW room, room.state # "Starting", Turns(r, room, <<>>),
              UNCHANGED peerVars
       PROVE  HandoffInv'
  <2>1. serverJobs' = serverJobs
    <3>1. serverJobs \in Seq(ServerJob)
      BY DEF LobbyInv, TypeOK
    <3> QED  BY <1>12, <3>1, ConcatEmptySeq DEF Turns
  <2>2. /\ \A q \in RoomId : q # r => rooms'[q] = rooms[q]
        /\ rooms'[r] = room /\ roomJobs' = Popped(r) /\ UNCHANGED handoffVars
    BY <1>0, <1>12 DEF Turns
  <2> QED  BY <1>12, <2>1, <2>2, RoomSide
<1>13. CASE HandleFailed(r)
  <2>1. [rooms[r] EXCEPT !.state = "Waiting"].state # "Starting"
    BY <1>0 DEF RoomRecord
  <2> QED  BY <1>2, <1>12, <1>13, <2>1 DEF HandleFailed
<1>14. CASE HandleRunning(r)
  <2>1. [rooms[r] EXCEPT !.state = "InGame"].state # "Starting"
    BY <1>0 DEF RoomRecord
  <2> QED  BY <1>2, <1>12, <1>14, <2>1 DEF HandleRunning
<1>15. CASE HandleFinished(r)
  <2>1. Returned(rooms[r]).state # "Starting"
    BY <1>0 DEF RoomRecord, Returned
  <2> QED  BY <1>2, <1>12, <1>15, <2>1 DEF HandleFinished
<1> QED
  BY <1>3, <1>4, <1>7, <1>8, <1>9, <1>10, <1>11, <1>13, <1>14, <1>15 DEF RoomStep

-----------------------------------------------------------------------------
(***************************************************************************)
(* The server                                                              *)
(***************************************************************************)

\* An instance for which no more is said or done than before, or less.
LEMMA HandedKept ==
  ASSUME HandoffInv, NEW i \in InstanceId,
         i > started' => i > started,
         instances'[i] = instances[i],
         \/ handoffs'[i] = None
         \/ /\ handoffs[i] # None
            /\ handoffs'[i].phase = handoffs[i].phase
            /\ handoffs'[i].roster = handoffs[i].roster
            /\ handoffs'[i].peer = handoffs[i].peer,
         \A p : peers[p] # "new" => peers'[p] # "new",
         NoTickets(i) => NoTickets(i)',
         Unsaid(serverJobs, "created", i) => Unsaid(serverJobs', "created", i),
         Unsaid(serverJobs, "live", i) => Unsaid(serverJobs', "live", i),
         Once(serverJobs, i) => Once(serverJobs', i),
         \A s \in Session : <<s, <<"instance", i>>>> \in ToBeTold' =>
            <<s, <<"instance", i>>>> \in ToBeTold /\ handoffs'[i] # None
  PROVE  Handed(i)'
<1>1. NotYetStarted(i) /\ ServedByKnown(i) /\ Ordered(i) /\ Rostered(i)
  BY DEF HandoffInv, Handed
<1>2. NotYetStarted(i)'
  BY <1>1 DEF NotYetStarted
<1>3. ServedByKnown(i)'
  BY <1>1 DEF ServedByKnown
<1>4. Rostered(i)'
  BY <1>1 DEF Rostered
<1>5. Early(i) => Early(i)'
  BY DEF Early
<1>6. Ordered(i)'
  BY <1>1, <1>5 DEF Ordered
<1> QED  BY <1>2, <1>3, <1>4, <1>6 DEF Handed

\* A load stays right while the handoffs behind it do.
LEMMA LoadKept ==
  ASSUME HandoffInv, UNCHANGED loads, \A p \in Peer : peers'[p] = "in" => peers[p] = "in",
         \A i \in InstanceId : /\ handoffs'[i] # None <=> handoffs[i] # None
                               /\ handoffs[i] # None => handoffs'[i].peer = handoffs[i].peer
  PROVE  LoadIsPending'
<1> SUFFICES ASSUME NEW p \in Peer, peers'[p] = "in"
             PROVE  loads'[p] = Cardinality({i \in InstanceId : handoffs'[i] # None /\
                      handoffs'[i].peer = p})
  BY DEF LoadIsPending
<1>1. loads[p] = Cardinality({i \in InstanceId : handoffs[i] # None /\ handoffs[i].peer = p})
  BY DEF HandoffInv, LoadIsPending
<1>2. {i \in InstanceId : handoffs'[i] # None /\ handoffs'[i].peer = p} =
      {i \in InstanceId : handoffs[i] # None /\ handoffs[i].peer = p}
  OBVIOUS
<1> QED  BY <1>1, <1>2

\* Handoffs that end take off each load what they put on it, once.
LEMMA LoadEnds ==
  ASSUME LobbyInv, HandoffInv, NEW ended \in SUBSET InstanceId, \A i \in ended : handoffs[i] # None,
         \A i \in InstanceId : handoffs'[i] = IF i \in ended THEN None ELSE handoffs[i],
         loads' = LoadsWithout(ended), UNCHANGED peers
  PROVE  LoadIsPending'
<1> SUFFICES ASSUME NEW p \in Peer, peers'[p] = "in"
             PROVE  loads'[p] = Cardinality({i \in InstanceId : handoffs'[i] # None /\
                      handoffs'[i].peer = p})
  BY DEF LoadIsPending
<1> DEFINE old == {i \in InstanceId : handoffs[i] # None /\ handoffs[i].peer = p}
           gone == {i \in ended : handoffs[i].peer = p}
           left == {i \in InstanceId : handoffs'[i] # None /\ handoffs'[i].peer = p}
<1>1. loads[p] = Cardinality(old)
  BY DEF HandoffInv, LoadIsPending
<1>2. loads'[p] = loads[p] - Cardinality(gone)
  BY DEF LoadsWithout
<1>3. left = old \ gone /\ old \cap gone = gone
  OBVIOUS
<1>4. IsFiniteSet(old) /\ Cardinality(old) \in Nat
  <2>1. old \in SUBSET InstanceId
    OBVIOUS
  <2> HIDE DEF old
  <2> QED  BY <2>1, InstancesFinite
<1> HIDE DEF old, gone, left
<1>5. Cardinality(old \ gone) = Cardinality(old) - Cardinality(old \cap gone)
  BY <1>4, FS_Difference
<1> QED  BY <1>1, <1>2, <1>3, <1>5 DEF left

\* A room that is Starting is registered.
LEMMA StartingIsRegistered ==
  ASSUME LobbyInv, NEW q \in RoomId, rooms[q].state = "Starting"
  PROVE  q \in registered
<1>1. created \in Nat /\ q \in Nat
  BY MatchServerAssumption DEF LobbyInv, TypeOK, RoomId
<1>2. q <= created \/ q > created
  BY <1>1
<1> QED  BY <1>2 DEF LobbyInv, Index, Indexed, NewRoom

\* A room is answered once for every handoff that ended, if it is still there.
LEMMA AnsweredJobs ==
  ASSUME LobbyInv, NEW ended \in SUBSET InstanceId, NEW job \in RoomJob,
         job.op \in {"failed", "running", "finished"}
  PROVE  \A q \in RoomId :
            /\ \A i : Untold(roomJobs[q], i) => Untold(Answered(ended, job)[q], i)
            /\ Answers(roomJobs[q]) => Answers(Answered(ended, job)[q])
            /\ q \in registered /\ (\E i \in ended : handoffs[i].room = q) =>
                  Answers(Answered(ended, job)[q])
<1> TAKE q \in RoomId
<1> DEFINE those == {i \in ended : handoffs[i].room = q}
           n == Cardinality(those)
           answer == [k \in 1..n |-> job]
           more == IF q \in registered THEN answer ELSE <<>>
<1>1. Answered(ended, job)[q] = roomJobs[q] \o more
  BY DEF Answered
<1>2. IsFiniteSet(those) /\ n \in Nat
  <2>1. those \in SUBSET InstanceId
    OBVIOUS
  <2> HIDE DEF those
  <2> QED  BY <2>1, InstancesFinite
<1>3. those # {} => 1 \in 1..n
  <2> HIDE DEF those
  <2>1. those # {} => n # 0
    BY <1>2, FS_EmptySet
  <2> QED  BY <1>2, <2>1
<1>4. answer \in Seq(RoomJob)
  <2>1. answer \in [1..n -> RoomJob]
    OBVIOUS
  <2> HIDE DEF answer, n
  <2> QED  BY <1>2, <2>1, FunctionIsSeq
<1>5. /\ \A i : Untold(answer, i)
      /\ those # {} => Answers(answer)
  <2> HIDE DEF n, those
  <2>1. DOMAIN answer = 1..n /\ \A k \in 1..n : answer[k] = job
    OBVIOUS
  <2> HIDE DEF answer
  <2> QED  BY <1>3, <2>1 DEF Untold, Answers
<1> HIDE DEF answer
<1>6. /\ more \in Seq(RoomJob) /\ \A i : Untold(more, i)
      /\ q \in registered /\ those # {} => Answers(more)
  <2>1. <<>> \in Seq(RoomJob) /\ \A i : Untold(<<>>, i)
    BY EmptySeq DEF Untold
  <2> HIDE DEF those
  <2> QED  BY <1>4, <1>5, <2>1
<1>7. roomJobs[q] \in Seq(RoomJob)
  BY RoomJobsKept
<1> HIDE DEF more
<1>8. /\ Answers(roomJobs[q] \o more) <=> Answers(roomJobs[q]) \/ Answers(more)
      /\ \A i : Untold(roomJobs[q] \o more, i) <=> Untold(roomJobs[q], i) /\ Untold(more, i)
  BY <1>6, <1>7, ConcatJobs
<1>9. (\E i \in ended : handoffs[i].room = q) => those # {}
  OBVIOUS
<1> HIDE DEF those
<1> QED  BY <1>1, <1>6, <1>8, <1>9

\* Exits report nothing.
LEMMA ExitJobs ==
  ASSUME LobbyInv, NEW ended \in SUBSET InstanceId, \A i \in ended : handoffs[i] # None
  PROVE  /\ ChannelsLeft(ended) \in Seq(ServerJob)
         /\ \A i : /\ Unsaid(ChannelsLeft(ended), "created", i)
                   /\ Unsaid(ChannelsLeft(ended), "live", i)
                   /\ Once(ChannelsLeft(ended), i)
<1> DEFINE exits == ChannelsLeft(ended)
<1>1. /\ exits \in Seq(ServerJob)
      /\ \A n \in 1..Len(exits) : \E i \in ended :
            exits[n] = ExitJob(handoffs[i].roster, <<"instance", i>>)
  BY ChannelsLeftIsOK
<1> HIDE DEF exits
<1>2. DOMAIN exits = 1..Len(exits)
  BY <1>1, LenProperties
<1>3. \A n \in DOMAIN exits : exits[n].op = "exit"
  BY <1>1, <1>2 DEF ExitJob
<1>4. \A i : Unsaid(exits, "created", i) /\ Unsaid(exits, "live", i) /\ Once(exits, i)
  BY <1>3 DEF Unsaid, Once
<1> QED  BY <1>1, <1>4 DEF exits

\* The queue once its first job is off.
LEMMA ServerTail ==
  ASSUME LobbyInv, NEW op, ServerRuns(op)
  PROVE  /\ Tail(serverJobs) \in Seq(ServerJob)
         /\ Head(serverJobs) \in ServerJob /\ Head(serverJobs).op = op
         /\ \A i : /\ Unsaid(serverJobs, "created", i) => Unsaid(Tail(serverJobs), "created", i)
                   /\ Unsaid(serverJobs, "live", i) => Unsaid(Tail(serverJobs), "live", i)
                   /\ Once(serverJobs, i) => Once(Tail(serverJobs), i)
                   /\ op = "created" /\ Head(serverJobs).instance = i =>
                         /\ ~Unsaid(serverJobs, "created", i)
                         /\ Once(serverJobs, i) => Unsaid(Tail(serverJobs), "created", i)
                   /\ op = "live" /\ Head(serverJobs).instance = i =>
                         ~Unsaid(serverJobs, "live", i)
         /\ \A r : op # "begin" \/ Head(serverJobs).room # r =>
                      (Begins(serverJobs, r) => Begins(Tail(serverJobs), r))
<1>1. /\ serverJobs # <<>> /\ serverJobs \in Seq(ServerJob)
      /\ Tail(serverJobs) \in Seq(ServerJob)
      /\ Head(serverJobs) \in ServerJob /\ Head(serverJobs).op = op
  BY ServerRunning
<1>2. LET job == Head(serverJobs) IN
      /\ \A oop, i : Unsaid(serverJobs, oop, i) <=>
                      ~(job.op = oop /\ job.instance = i) /\ Unsaid(Tail(serverJobs), oop, i)
      /\ \A r : Begins(serverJobs, r) <=> (job.op = "begin" /\ job.room = r) \/
           Begins(Tail(serverJobs), r)
      /\ \A i : Once(serverJobs, i) <=>
                  /\ Once(Tail(serverJobs), i)
                  /\ job.op = "created" /\ job.instance = i => Unsaid(Tail(serverJobs), "created",
                       i)
  BY <1>1, TailJobs
<1> QED  BY <1>1, <1>2

\* Handoffs that end leave no load, no channels and no room waiting.
LEMMA EndsHandoff ==
  ASSUME LobbyInv, HandoffInv,
         NEW op, op \notin {"enter", "exit", "closed", "begin"}, ServerRuns(op),
         NEW ended \in SUBSET InstanceId, \A i \in ended : handoffs[i] # None,
         NEW job \in RoomJob, job.op \in {"failed", "running", "finished"},
         \A i \in InstanceId : handoffs'[i] = IF i \in ended THEN None ELSE handoffs[i],
         loads' = LoadsWithout(ended),
         roomJobs' = Answered(ended, job),
         \/ serverJobs' = Tail(serverJobs) \o ChannelsLeft(ended)
         \/ /\ serverJobs' = Tail(serverJobs)
            /\ \A i \in ended : handoffs[i].phase = "AwaitingCreate",
         UNCHANGED <<rooms, memberships, started, instances, peers>>
  PROVE  HandoffInv'
<1>1. /\ \A i : /\ Unsaid(serverJobs, "created", i) => Unsaid(serverJobs', "created", i)
                /\ Unsaid(serverJobs, "live", i) => Unsaid(serverJobs', "live", i)
                /\ Once(serverJobs, i) => Once(serverJobs', i)
      /\ \A r : Begins(serverJobs, r) => Begins(serverJobs', r)
  <2> DEFINE rest == Tail(serverJobs)  exits == ChannelsLeft(ended)
  <2>1. /\ rest \in Seq(ServerJob)
        /\ \A i : /\ Unsaid(serverJobs, "created", i) => Unsaid(rest, "created", i)
                  /\ Unsaid(serverJobs, "live", i) => Unsaid(rest, "live", i)
                  /\ Once(serverJobs, i) => Once(rest, i)
        /\ \A r : Begins(serverJobs, r) => Begins(rest, r)
    BY ServerTail
  <2>2. /\ exits \in Seq(ServerJob)
        /\ \A i : Unsaid(exits, "created", i) /\ Unsaid(exits, "live", i) /\ Once(exits, i)
    BY ExitJobs
  <2>3. serverJobs' = rest \o exits \/ serverJobs' = rest
    OBVIOUS
  <2> HIDE DEF rest, exits
  <2>4. /\ \A oop, i : Unsaid(rest \o exits, oop, i) <=> Unsaid(rest, oop, i) /\ Unsaid(exits,
             oop, i)
        /\ \A r : Begins(rest \o exits, r) <=> Begins(rest, r) \/ Begins(exits, r)
        /\ \A i : Once(rest \o exits, i) <=>
                    /\ Once(rest, i) /\ Once(exits, i)
                    /\ Unsaid(rest, "created", i) \/ Unsaid(exits, "created", i)
    BY <2>1, <2>2, ConcatJobs
  <2> QED  BY <2>1, <2>2, <2>3, <2>4
<1>2. \A q \in RoomId :
        /\ \A i : Untold(roomJobs[q], i) => Untold(roomJobs'[q], i)
        /\ Answers(roomJobs[q]) => Answers(roomJobs'[q])
        /\ q \in registered /\ (\E i \in ended : handoffs[i].room = q) => Answers(roomJobs'[q])
  BY AnsweredJobs
<1>3. ASSUME NEW i \in InstanceId PROVE Handed(i)'
  <2>1. Rostered(i)
    BY DEF HandoffInv, Handed
  <2>2. ASSUME NEW s \in Session, <<s, <<"instance", i>>>> \in ToBeTold'
        PROVE  <<s, <<"instance", i>>>> \in ToBeTold /\ i \notin ended
    <3> DEFINE c == <<"instance", i>>
    <3>1. c \in Channel
      BY DEF Channel
    <3>2. CASE serverJobs' = Tail(serverJobs) \o ChannelsLeft(ended)
      <4>1. <<s, c>> \in ToBeTold' <=>
              /\ <<s, c>> \in ToBeTold
              /\ ~\E j \in ended : c = <<"instance", j>> /\ s \in handoffs[j].roster
        <5> HIDE DEF c
        <5> QED  BY <3>1, <3>2, ToldWithout
      <4> QED  BY <2>1, <2>2, <4>1 DEF Rostered
    <3>3. CASE /\ serverJobs' = Tail(serverJobs)
               /\ \A j \in ended : handoffs[j].phase = "AwaitingCreate"
      <4>1. ToBeTold' = ToBeTold
        BY <3>3, ToldAsBefore DEF ToBeTold
      <4> QED  BY <2>1, <2>2, <3>3, <4>1 DEF Rostered
    <3> QED  BY <3>2, <3>3
  <2>3. \A s \in Session : <<s, <<"instance", i>>>> \in ToBeTold' =>
            <<s, <<"instance", i>>>> \in ToBeTold /\ handoffs'[i] # None
    BY <2>1, <2>2 DEF Rostered
  <2>4. NoTickets(i) => NoTickets(i)'
    BY <1>2 DEF NoTickets
  <2>5. handoffs'[i] = None \/ (handoffs[i] # None /\ handoffs'[i] = handoffs[i])
    OBVIOUS
  <2> QED  BY <1>1, <2>3, <2>4, <2>5, HandedKept
<1>4. StartingIsPending'
  <2> SUFFICES ASSUME NEW q \in RoomId, rooms[q].state = "Starting" PROVE StartPending(q)'
    BY DEF StartingIsPending
  <2>1. StartPending(q)' <=> \/ Begins(serverJobs', q)
                             \/ \E i \in InstanceId : Unfinished(i)' /\ handoffs'[i].room = q
                             \/ Answers(roomJobs'[q])
    BY DEF StartPending, Begins, Answers
  <2>2. StartPending(q)
    BY DEF HandoffInv, StartingIsPending
  <2>3. ASSUME NEW i \in InstanceId, Unfinished(i), handoffs[i].room = q
        PROVE  StartPending(q)'
    <3>1. CASE i \in ended
      BY <1>2, <2>1, <2>3, <3>1, StartingIsRegistered
    <3>2. CASE i \notin ended
      BY <2>1, <2>3, <3>2 DEF Unfinished
    <3> QED  BY <3>1, <3>2
  <2> QED  BY <1>1, <1>2, <2>1, <2>2, <2>3, StartPendingIs
<1>5. LoadIsPending'
  BY LoadEnds
<1> QED  BY <1>3, <1>4, <1>5 DEF HandoffInv

\* Telling chat and voice keeps the invariant.
LEMMA TellChannelsHandoff ==
  ASSUME LobbyInv, HandoffInv, TellChannels
  PROVE  HandoffInv'
<1> USE DEF TellChannels, peerVars
<1>1. PICK op \in {"enter", "exit", "closed"} : ServerRuns(op)
  OBVIOUS
<1>2. ToBeTold' = ToBeTold
  BY TellChannelsHolds
<1>3. /\ \A i : /\ Unsaid(serverJobs, "created", i) => Unsaid(serverJobs', "created", i)
                /\ Unsaid(serverJobs, "live", i) => Unsaid(serverJobs', "live", i)
                /\ Once(serverJobs, i) => Once(serverJobs', i)
      /\ \A r : Begins(serverJobs, r) => Begins(serverJobs', r)
  BY <1>1, ServerTail
<1>4. ASSUME NEW i \in InstanceId PROVE Handed(i)'
  <2>1. \A s \in Session : <<s, <<"instance", i>>>> \in ToBeTold => handoffs[i] # None
    BY DEF HandoffInv, Handed, Rostered
  <2>2. NoTickets(i) => NoTickets(i)'
    BY DEF NoTickets
  <2> QED  BY <1>2, <1>3, <2>1, <2>2, HandedKept
<1>5. StartingIsPending'
  <2> SUFFICES ASSUME NEW q \in RoomId, rooms[q].state = "Starting" PROVE StartPending(q)'
    BY DEF StartingIsPending
  <2>1. StartPending(q)' <=> \/ Begins(serverJobs', q)
                             \/ \E i \in InstanceId : Unfinished(i) /\ handoffs[i].room = q
                             \/ Answers(roomJobs[q])
    BY DEF StartPending, Begins, Answers, Unfinished
  <2>2. StartPending(q)
    BY DEF HandoffInv, StartingIsPending
  <2> QED  BY <1>3, <2>1, <2>2, StartPendingIs
<1>6. LoadIsPending'
  BY LoadKept
<1> QED  BY <1>4, <1>5, <1>6 DEF HandoffInv

\* BeginHandoff keeps it: the start it takes off the queue is answered with a
\* failure, or becomes a handoff that is on the load of its server.
LEMMA BeginHandoffHandoff ==
  ASSUME LobbyInv, HandoffInv, BeginHandoff
  PROVE  HandoffInv'
<1> DEFINE job == Head(serverJobs)
           handoff(p) == [room |-> job.room, phase |-> "AwaitingCreate", roster |-> job.roster,
                          peer |-> p, late |-> FALSE]
<1>1. /\ ServerRuns("begin") /\ serverJobs' = Tail(serverJobs)
      /\ UNCHANGED <<sessionVars, indexVars, rooms, memberships, peers>>
      /\ \/ /\ NoServer /\ roomJobs' = Post(roomJobs, job.room, FailedJob)
            /\ UNCHANGED <<handoffs, started, instances, loads>>
         \/ \E p \in LeastLoaded :
            /\ ~NoServer
            /\ started' = started + 1
            /\ handoffs' = [handoffs EXCEPT ![started + 1] = handoff(p)]
            /\ loads' = [loads EXCEPT ![p] = @ + 1]
            /\ instances' = [instances EXCEPT ![started + 1] = "asked"]
            /\ UNCHANGED roomJobs
  BY DEF BeginHandoff
<1>2. job \in ServerJob /\ job.op = "begin" /\ job.room \in RoomId /\ job.roster \in SUBSET Session
  BY <1>1, ServerTail, ServerJobFields
<1>3. /\ \A i : /\ Unsaid(serverJobs, "created", i) => Unsaid(serverJobs', "created", i)
                /\ Unsaid(serverJobs, "live", i) => Unsaid(serverJobs', "live", i)
                /\ Once(serverJobs, i) => Once(serverJobs', i)
      /\ \A r : job.room # r => (Begins(serverJobs, r) => Begins(serverJobs', r))
  BY <1>1, ServerTail
<1>4. ToBeTold' = ToBeTold
  BY BeginHandoffHolds
<1>5. \A i \in InstanceId, s \in Session : <<s, <<"instance", i>>>> \in ToBeTold =>
        handoffs[i] # None
  BY DEF HandoffInv, Handed, Rostered
<1>6. handoffs \in [InstanceId -> Handoff \cup {None}] /\ started \in 0..InstanceCount
      /\ instances \in [InstanceId -> Life] /\ peers \in [Peer -> Presence] /\
           loads \in [Peer -> Int]
  BY OthersTyped
<1> HIDE DEF job
<1>7. CASE /\ NoServer /\ roomJobs' = Post(roomJobs, job.room, FailedJob)
           /\ UNCHANGED <<handoffs, started, instances, loads>>
  <2>1. /\ roomJobs \in [RoomId -> Seq(RoomJob)] /\ FailedJob \in RoomJob
        /\ FailedJob.op = "failed"
    BY RoomJobsKept, RoomJobsMade DEF FailedJob
  <2>2. \A q \in RoomId : /\ \A i : Untold(roomJobs[q], i) => Untold(roomJobs'[q], i)
                          /\ Answers(roomJobs[q]) => Answers(roomJobs'[q])
    BY <1>2, <1>7, <2>1, PostJobs
  <2>3. Answers(roomJobs'[job.room])
    <3>1. roomJobs'[job.room] = Append(roomJobs[job.room], FailedJob)
      BY <1>2, <1>7, <2>1, Posted
    <3>2. roomJobs[job.room] \in Seq(RoomJob)
      BY <1>2, <2>1
    <3> QED  BY <2>1, <3>1, <3>2, AppendJobs
  <2>4. ASSUME NEW i \in InstanceId PROVE Handed(i)'
    <3>1. NoTickets(i) => NoTickets(i)'
      BY <2>2 DEF NoTickets
    <3> QED  BY <1>1, <1>3, <1>4, <1>5, <1>7, <3>1, HandedKept
  <2>5. StartingIsPending'
    <3> SUFFICES ASSUME NEW q \in RoomId, rooms[q].state = "Starting" PROVE StartPending(q)'
      BY <1>1 DEF StartingIsPending
    <3>1. StartPending(q)' <=> \/ Begins(serverJobs', q)
                               \/ \E i \in InstanceId : Unfinished(i) /\ handoffs[i].room = q
                               \/ Answers(roomJobs'[q])
      BY <1>7 DEF StartPending, Begins, Answers, Unfinished
    <3>2. StartPending(q)
      BY DEF HandoffInv, StartingIsPending
    <3> QED  BY <1>3, <2>2, <2>3, <3>1, <3>2, StartPendingIs
  <2>6. LoadIsPending'
    BY <1>1, <1>7, LoadKept
  <2> QED  BY <2>4, <2>5, <2>6 DEF HandoffInv
<1>8. ASSUME NEW p \in LeastLoaded, ~NoServer, started' = started + 1,
             handoffs' = [handoffs EXCEPT ![started + 1] = handoff(p)],
             loads' = [loads EXCEPT ![p] = @ + 1],
             instances' = [instances EXCEPT ![started + 1] = "asked"],
             UNCHANGED roomJobs
      PROVE  HandoffInv'
  <2>0. started + 1 \in InstanceId /\ started \in Nat
    BY <1>6, <1>8, MatchServerAssumption DEF NoServer, InstanceId
  <2> PICK new \in InstanceId : new = started + 1
    BY <2>0
  <2>1. new \in InstanceId /\ new > started /\ started \in Nat
    BY <2>0
  <2>2. p \in Peer /\ peers[p] = "in"
    BY DEF LeastLoaded, Spare
  <2>3. /\ handoffs'[new] = handoff(p) /\ instances'[new] = "asked"
        /\ \A i \in InstanceId : i # new => handoffs'[i] = handoffs[i] /\
             instances'[i] = instances[i]
    <3>1. handoffs' = [handoffs EXCEPT ![new] = handoff(p)] /\
            instances' = [instances EXCEPT ![new] = "asked"]
      BY <1>8
    <3> QED  BY <1>6, <2>1, <3>1
  <2>4. handoff(p) # None /\ handoff(p).phase = "AwaitingCreate" /\ handoff(p).peer = p
        /\ handoff(p).room = job.room
    <3>1. handoff(p) \in Handoff
      BY <1>2, <2>2 DEF Handoff, Phase
    <3> QED  BY <3>1, NoneAssumption
  <2>5. handoffs[new] = None /\ instances[new] = "none" /\ Ordered(new)
    BY <2>1 DEF HandoffInv, Handed, NotYetStarted
  <2> HIDE DEF handoff
  <2>6. ASSUME NEW i \in InstanceId, i # new PROVE Handed(i)'
    <3>1. i > started' => i > started
      BY <1>8, <2>1 DEF InstanceId
    <3>2. NoTickets(i) => NoTickets(i)'
      BY <1>8 DEF NoTickets
    <3>3. handoffs[i] = None => handoffs'[i] = None
      BY <2>3, <2>6
    <3> QED  BY <1>1, <1>3, <1>4, <1>5, <2>3, <2>6, <3>1, <3>2, HandedKept
  <2>7. Handed(new)'
    <3>1. NotYetStarted(new)'
      <4>1. ~(new > started')
        BY <1>8, <2>1
      <4> QED  BY <4>1 DEF NotYetStarted
    <3>2. ServedByKnown(new)'
      BY <1>1, <2>2, <2>3, <2>4 DEF ServedByKnown
    <3>3. Rostered(new)'
      BY <1>4, <1>5, <2>1, <2>5 DEF Rostered
    <3>4. NoTickets(new) => NoTickets(new)'
      BY <1>8 DEF NoTickets
    <3>5. Ordered(new)'
      BY <1>3, <2>3, <2>4, <2>5, <3>4 DEF Ordered, Early
    <3> QED  BY <3>1, <3>2, <3>3, <3>5 DEF Handed
  <2>8. StartingIsPending'
    <3> SUFFICES ASSUME NEW q \in RoomId, rooms[q].state = "Starting" PROVE StartPending(q)'
      BY <1>1 DEF StartingIsPending
    <3>1. StartPending(q)' <=> \/ Begins(serverJobs', q)
                               \/ \E i \in InstanceId : Unfinished(i)' /\ handoffs'[i].room = q
                               \/ Answers(roomJobs[q])
      BY <1>8 DEF StartPending, Begins, Answers
    <3>2. StartPending(q)
      BY DEF HandoffInv, StartingIsPending
    <3>3. CASE q = job.room
      <4>1. Unfinished(new)' /\ handoffs'[new].room = q
        BY <2>3, <2>4, <3>3 DEF Unfinished
      <4> QED  BY <2>1, <3>1, <4>1
    <3>4. ASSUME NEW i \in InstanceId, Unfinished(i), handoffs[i].room = q PROVE StartPending(q)'
      <4>1. handoffs'[i] = handoffs[i]
        BY <2>3, <2>5, <3>4 DEF Unfinished
      <4> QED  BY <3>1, <3>4, <4>1 DEF Unfinished
    <3> QED  BY <1>3, <3>1, <3>2, <3>3, <3>4, StartPendingIs
  <2>9. LoadIsPending'
    <3> SUFFICES ASSUME NEW k \in Peer, peers[k] = "in"
                 PROVE  loads'[k] = Cardinality({i \in InstanceId : handoffs'[i] # None /\
                          handoffs'[i].peer = k})
      BY <1>1 DEF LoadIsPending
    <3> DEFINE old == {i \in InstanceId : handoffs[i] # None /\ handoffs[i].peer = k}
               now == {i \in InstanceId : handoffs'[i] # None /\ handoffs'[i].peer = k}
    <3>1. loads[k] = Cardinality(old)
      BY DEF HandoffInv, LoadIsPending
    <3>2. IsFiniteSet(old) /\ new \notin old
      <4>1. old \in SUBSET InstanceId /\ new \notin old
        BY <2>5
      <4> HIDE DEF old
      <4> QED  BY <4>1, InstancesFinite
    <3>3. CASE k = p
      <4>1. now = old \cup {new}
        BY <2>1, <2>3, <2>4, <3>3
      <4>2. loads'[k] = loads[k] + 1
        BY <1>6, <1>8, <3>3
      <4> HIDE DEF old, now
      <4>3. Cardinality(old \cup {new}) = Cardinality(old) + 1
        BY <3>2, FS_AddElement
      <4> QED  BY <3>1, <4>1, <4>2, <4>3 DEF now
    <3>4. CASE k # p
      <4>1. now = old
        BY <2>1, <2>3, <2>4, <2>5, <3>4
      <4>2. loads'[k] = loads[k]
        BY <1>6, <1>8, <3>4
      <4> QED  BY <3>1, <4>1, <4>2
    <3> QED  BY <3>3, <3>4
  <2> QED  BY <2>6, <2>7, <2>8, <2>9 DEF HandoffInv
<1> QED  BY <1>1, <1>7, <1>8

\* A report nobody waits for keeps it.
LEMMA StaleHandoff ==
  ASSUME LobbyInv, HandoffInv, NEW op \in {"created", "live", "over"}, Stale(op)
  PROVE  HandoffInv'
<1> USE DEF Stale, handoffVars, peerVars
<1>1. ToBeTold' = ToBeTold
  BY StaleHolds
<1>2. /\ \A i : /\ Unsaid(serverJobs, "created", i) => Unsaid(serverJobs', "created", i)
                /\ Unsaid(serverJobs, "live", i) => Unsaid(serverJobs', "live", i)
                /\ Once(serverJobs, i) => Once(serverJobs', i)
      /\ \A r : Begins(serverJobs, r) => Begins(serverJobs', r)
  BY ServerTail
<1>3. ASSUME NEW i \in InstanceId PROVE Handed(i)'
  <2>1. \A s \in Session : <<s, <<"instance", i>>>> \in ToBeTold => handoffs[i] # None
    BY DEF HandoffInv, Handed, Rostered
  <2>2. NoTickets(i) => NoTickets(i)'
    BY DEF NoTickets
  <2> QED  BY <1>1, <1>2, <2>1, <2>2, HandedKept
<1>4. StartingIsPending'
  <2> SUFFICES ASSUME NEW q \in RoomId, rooms[q].state = "Starting" PROVE StartPending(q)'
    BY DEF StartingIsPending
  <2>1. StartPending(q)' <=> \/ Begins(serverJobs', q)
                             \/ \E i \in InstanceId : Unfinished(i) /\ handoffs[i].room = q
                             \/ Answers(roomJobs[q])
    BY DEF StartPending, Begins, Answers, Unfinished
  <2>2. StartPending(q)
    BY DEF HandoffInv, StartingIsPending
  <2> QED  BY <1>2, <2>1, <2>2, StartPendingIs
<1>5. LoadIsPending'
  BY LoadKept
<1> QED  BY <1>3, <1>4, <1>5 DEF HandoffInv

\* HandleInstanceCreateAck keeps it: a refusal ends the handoff and answers its
\* room; an acknowledgement is the only one, and nothing was handed out before.
LEMMA CreateAckHandoff ==
  ASSUME LobbyInv, HandoffInv, HandleInstanceCreateAck
  PROVE  HandoffInv'
<1> DEFINE job == Head(serverJobs)
           i == job.instance
           handoff == handoffs[i]
           r == handoff.room
           usable == job.ok /\ r \in registered
<1>1. CASE Stale("created")
  BY <1>1, StaleHandoff
<1>2. ASSUME ServerRuns("created"), handoff # None
      PROVE  /\ i \in InstanceId /\ handoff \in Handoff /\ r \in RoomId
             /\ handoff.roster \in SUBSET Session
             /\ handoff.phase = "AwaitingCreate" /\ instances[i] \notin {"none", "asked"}
             /\ Unsaid(Tail(serverJobs), "created", i) /\ Once(serverJobs, i)
  <2>1. i \in InstanceId /\ handoff \in Handoff /\ r \in RoomId /\ handoff.roster \in SUBSET Session
    BY <1>2, Pending
  <2>2. /\ ~Unsaid(serverJobs, "created", i)
        /\ Once(serverJobs, i) => Unsaid(Tail(serverJobs), "created", i)
    BY <1>2, ServerTail
  <2> HIDE DEF i
  <2>3. Ordered(i)
    BY <2>1 DEF HandoffInv, Handed
  <2> QED  BY <1>2, <2>1, <2>2, <2>3 DEF Ordered, Early
<1>3. CASE /\ ServerRuns("created") /\ handoff # None /\ ~usable
           /\ loads' = LoadsWithout({i})
           /\ handoffs' = [handoffs EXCEPT ![i] = None]
           /\ roomJobs' = Answered({i}, FailedJob)
           /\ serverJobs' = Tail(serverJobs)
           /\ UNCHANGED <<sessionVars, indexVars, rooms, memberships, started, instances, peers>>
  <2>1. i \in InstanceId /\ handoffs[i].phase = "AwaitingCreate" /\ handoffs[i] # None
    BY <1>2, <1>3
  <2>2. FailedJob \in RoomJob /\ FailedJob.op \in {"failed", "running", "finished"}
    BY RoomJobsMade DEF FailedJob
  <2> DEFINE ended == {i}
  <2>3. /\ ended \in SUBSET InstanceId
        /\ \A j \in ended : handoffs[j] # None /\ handoffs[j].phase = "AwaitingCreate"
    BY <2>1
  <2>4. \A j \in InstanceId : handoffs'[j] = IF j \in ended THEN None ELSE handoffs[j]
    <3> HIDE DEF i
    <3> QED  BY <1>3, <2>1, OthersTyped
  <2>5. /\ loads' = LoadsWithout(ended) /\ roomJobs' = Answered(ended, FailedJob)
        /\ serverJobs' = Tail(serverJobs) /\ ServerRuns("created")
        /\ UNCHANGED <<rooms, memberships, started, instances, peers>>
    BY <1>3
  <2> HIDE DEF ended
  <2> QED  BY <2>2, <2>3, <2>4, <2>5, EndsHandoff
<1>4. CASE /\ ServerRuns("created") /\ handoff # None /\ usable
           /\ handoffs' = [handoffs EXCEPT ![i].phase = "AwaitingJoin", ![i].late = FALSE]
           /\ roomJobs' = Post(roomJobs, r,
                 [op |-> "tickets", instance |-> i, roster |-> handoff.roster])
           /\ serverJobs' = Append(Tail(serverJobs), EnterJob(handoff.roster, <<"instance", i>>))
           /\ UNCHANGED <<sessionVars, indexVars, rooms, memberships, started, peerVars>>
  <2> DEFINE tickets == [op |-> "tickets", instance |-> i, roster |-> handoff.roster]
             enter == EnterJob(handoff.roster, <<"instance", i>>)
  <2>1. /\ i \in InstanceId /\ handoff \in Handoff /\ r \in RoomId
        /\ handoff.roster \in SUBSET Session
        /\ instances[i] \notin {"none", "asked"}
        /\ Unsaid(Tail(serverJobs), "created", i) /\ Once(serverJobs, i)
    BY <1>2, <1>4
  <2>2. tickets \in RoomJob /\ tickets.op = "tickets" /\ tickets.instance = i
    BY <2>1, RoomJobsMade
  <2>3. /\ enter \in ServerJob /\ enter.op = "enter"
        /\ \A s, j : Enters(enter, <<s, <<"instance", j>>>>) => j = i /\ s \in handoff.roster
    <3>1. <<"instance", i>> \in Channel
      BY <2>1 DEF Channel
    <3>2. enter \in ServerJob
      BY <2>1, <3>1, ServerJobsMade
    <3> QED  BY <3>2 DEF EnterJob, Enters
  <2>4. /\ \A j : /\ Unsaid(serverJobs, "created", j) => Unsaid(serverJobs', "created", j)
                  /\ Unsaid(serverJobs, "live", j) => Unsaid(serverJobs', "live", j)
                  /\ Once(serverJobs, j) => Once(serverJobs', j)
        /\ Unsaid(serverJobs', "created", i)
        /\ \A q : Begins(serverJobs, q) => Begins(serverJobs', q)
    <3> DEFINE rest == Tail(serverJobs)
    <3>1. /\ rest \in Seq(ServerJob)
          /\ \A j : /\ Unsaid(serverJobs, "created", j) => Unsaid(rest, "created", j)
                    /\ Unsaid(serverJobs, "live", j) => Unsaid(rest, "live", j)
                    /\ Once(serverJobs, j) => Once(rest, j)
          /\ \A q : Begins(serverJobs, q) => Begins(rest, q)
          /\ Unsaid(rest, "created", i)
      BY <1>4, <2>1, ServerTail
    <3>2. serverJobs' = Append(rest, enter)
      BY <1>4
    <3> HIDE DEF rest, enter, i
    <3>3. /\ \A op, j : Unsaid(Append(rest, enter), op, j) <=>
                          Unsaid(rest, op, j) /\ ~(enter.op = op /\ enter.instance = j)
          /\ \A q : Begins(Append(rest, enter), q) <=>
                      Begins(rest, q) \/ (enter.op = "begin" /\ enter.room = q)
          /\ \A j : Once(Append(rest, enter), j) <=>
                      /\ Once(rest, j)
                      /\ enter.op = "created" /\ enter.instance = j => Unsaid(rest, "created", j)
      BY <2>3, <3>1, AppendJobs
    <3> QED  BY <2>3, <3>1, <3>2, <3>3
  <2>5. \A s \in Session, j \in InstanceId : <<s, <<"instance", j>>>> \in ToBeTold' =>
           \/ <<s, <<"instance", j>>>> \in ToBeTold
           \/ j = i /\ s \in handoff.roster
    <3> TAKE s \in Session, j \in InstanceId
    <3> DEFINE c == <<"instance", j>>
    <3>1. c \in Channel
      BY DEF Channel
    <3>2. serverJobs' = Append(Tail(serverJobs), enter) /\ ServerRuns("created")
          /\ memberships' = memberships
      BY <1>4
    <3> HIDE DEF enter, c
    <3>3. <<s, c>> \in ToBeTold' <=>
            Enters(enter, <<s, c>>) \/ (<<s, c>> \in ToBeTold /\ ~Removes(enter, <<s, c>>))
      BY <2>3, <3>1, <3>2, ToldThen
    <3> QED  BY <2>3, <3>3 DEF c
  <2>6. /\ handoffs'[i] # None /\ handoffs'[i].phase = "AwaitingJoin"
        /\ handoffs'[i].roster = handoff.roster /\ handoffs'[i].room = handoff.room
        /\ handoffs'[i].peer = handoff.peer
        /\ \A j \in InstanceId : j # i => handoffs'[j] = handoffs[j]
    <3> DEFINE then == [[handoff EXCEPT !.phase = "AwaitingJoin"] EXCEPT !.late = FALSE]
    <3>1. then \in Handoff
      <4> HIDE DEF handoff
      <4> QED  BY <2>1 DEF Handoff, Phase
    <3>2. /\ then.phase = "AwaitingJoin" /\ then.roster = handoff.roster
          /\ then.room = handoff.room /\ then.peer = handoff.peer
      <4> HIDE DEF handoff
      <4> QED  BY <2>1 DEF Handoff, Phase
    <3>3. handoffs' = [handoffs EXCEPT ![i] = then]
      <4> HIDE DEF i
      <4> QED  BY <1>4, <2>1, OthersTyped
    <3> HIDE DEF then, i
    <3> QED  BY <2>1, <3>1, <3>2, <3>3, OthersTyped, NoneAssumption
  <2>7. \A q \in RoomId : /\ \A j : j # i => (Untold(roomJobs[q], j) => Untold(roomJobs'[q], j))
                          /\ Answers(roomJobs[q]) => Answers(roomJobs'[q])
    <3>1. roomJobs \in [RoomId -> Seq(RoomJob)]
      BY RoomJobsKept
    <3>2. roomJobs' = Post(roomJobs, r, tickets)
      BY <1>4
    <3> HIDE DEF tickets, r, i
    <3>3. /\ Post(roomJobs, r, tickets)[r] = Append(roomJobs[r], tickets)
          /\ \A q \in RoomId : q # r => Post(roomJobs, r, tickets)[q] = roomJobs[q]
      BY <2>1, <2>2, <3>1, Posted
    <3>4. roomJobs[r] \in Seq(RoomJob)
      BY <2>1, <3>1
    <3>5. /\ \A j : Untold(Append(roomJobs[r], tickets), j) <=>
                      Untold(roomJobs[r], j) /\ ~(tickets.op = "tickets" /\ tickets.instance = j)
          /\ Answers(roomJobs[r]) => Answers(Append(roomJobs[r], tickets))
      BY <2>2, <3>4, AppendJobs
    <3> QED  BY <2>2, <3>2, <3>3, <3>5
  <2>8. UNCHANGED <<rooms, started, instances, peers, loads>>
    BY <1>4 DEF peerVars
  <2>9. ASSUME NEW j \in InstanceId, j # i PROVE Handed(j)'
    <3>1. NoTickets(j) => NoTickets(j)'
      BY <2>7, <2>9 DEF NoTickets
    <3>2. \A s \in Session : <<s, <<"instance", j>>>> \in ToBeTold => handoffs[j] # None
      BY DEF HandoffInv, Handed, Rostered
    <3>3. handoffs'[j] = handoffs[j]
      BY <2>6, <2>9
    <3> HIDE DEF i, handoff
    <3> QED  BY <2>4, <2>5, <2>8, <2>9, <3>1, <3>2, <3>3, HandedKept
  <2> HIDE DEF i
  <2>10. ASSUME NEW j \in InstanceId, j = i PROVE Handed(j)'
    <3>1. NotYetStarted(j) /\ ServedByKnown(j) /\ Ordered(j) /\ Rostered(j)
      BY DEF HandoffInv, Handed
    <3>2. NotYetStarted(j)' /\ ServedByKnown(j)'
      BY <1>4, <2>6, <2>8, <2>10, <3>1 DEF NotYetStarted, ServedByKnown
    <3>3. Rostered(j)'
      BY <2>1, <2>5, <2>6, <2>10, <3>1 DEF Rostered
    <3>4. Ordered(j)'
      BY <2>1, <2>4, <2>8, <2>10, <3>1 DEF Ordered
    <3> QED  BY <3>2, <3>3, <3>4 DEF Handed
  <2>11. StartingIsPending'
    <3> SUFFICES ASSUME NEW q \in RoomId, rooms[q].state = "Starting" PROVE StartPending(q)'
      BY <2>8 DEF StartingIsPending
    <3>1. StartPending(q)' <=> \/ Begins(serverJobs', q)
                               \/ \E j \in InstanceId : Unfinished(j)' /\ handoffs'[j].room = q
                               \/ Answers(roomJobs'[q])
      BY DEF StartPending, Begins, Answers
    <3>2. StartPending(q)
      BY DEF HandoffInv, StartingIsPending
    <3>3. ASSUME NEW j \in InstanceId, Unfinished(j), handoffs[j].room = q PROVE StartPending(q)'
      <4>1. Unfinished(j)' /\ handoffs'[j].room = q
        BY <2>6, <3>3 DEF Unfinished
      <4> QED  BY <3>1, <4>1
    <3> QED  BY <2>4, <2>7, <3>1, <3>2, <3>3, StartPendingIs
  <2>12. LoadIsPending'
    BY <1>4, <2>6, <2>8, LoadKept
  <2> QED  BY <2>9, <2>10, <2>11, <2>12 DEF HandoffInv
<1> QED  BY <1>1, <1>3, <1>4 DEF HandleInstanceCreateAck

\* HandleInstanceReady keeps it: an instance that reports itself ready was
\* acknowledged, and its room is answered.
LEMMA InstanceReadyHandoff ==
  ASSUME LobbyInv, HandoffInv, HandleInstanceReady
  PROVE  HandoffInv'
<1> DEFINE i == Head(serverJobs).instance
           running == RunningJob(handoffs[i].roster)
<1>1. CASE Stale("live")
  BY <1>1, StaleHandoff
<1>2. CASE /\ ServerRuns("live") /\ handoffs[i] # None
           /\ handoffs' = [handoffs EXCEPT ![i].phase = "Running"]
           /\ roomJobs' = Answered({i}, running)
           /\ serverJobs' = Tail(serverJobs)
           /\ UNCHANGED <<sessionVars, indexVars, rooms, memberships, started, peerVars>>
  <2>1. i \in InstanceId /\ handoffs[i] \in Handoff
    BY <1>2, Pending
  <2>2. running \in RoomJob /\ running.op \in {"failed", "running", "finished"}
    BY <2>1, RoomJobsMade DEF Handoff
  <2>3. /\ \A j : /\ Unsaid(serverJobs, "created", j) => Unsaid(serverJobs', "created", j)
                  /\ Unsaid(serverJobs, "live", j) => Unsaid(serverJobs', "live", j)
                  /\ Once(serverJobs, j) => Once(serverJobs', j)
        /\ \A q : Begins(serverJobs, q) => Begins(serverJobs', q)
        /\ ~Unsaid(serverJobs, "live", i)
    BY <1>2, ServerTail
  <2>4. ToBeTold' = ToBeTold
    BY <1>2, ToldAsBefore DEF ToBeTold
  <2>5. UNCHANGED <<rooms, started, instances, peers, loads>>
    BY <1>2 DEF peerVars
  <2>6. /\ handoffs'[i] # None /\ handoffs'[i].phase = "Running"
        /\ handoffs'[i].roster = handoffs[i].roster /\ handoffs'[i].room = handoffs[i].room
        /\ handoffs'[i].peer = handoffs[i].peer
        /\ \A j \in InstanceId : j # i => handoffs'[j] = handoffs[j]
    <3> DEFINE then == [handoffs[i] EXCEPT !.phase = "Running"]
    <3>1. handoffs' = [handoffs EXCEPT ![i] = then]
      BY <1>2
    <3> HIDE DEF i
    <3>2. /\ then \in Handoff /\ then.phase = "Running" /\ then.roster = handoffs[i].roster
          /\ then.room = handoffs[i].room /\ then.peer = handoffs[i].peer
      BY <2>1 DEF Handoff, Phase
    <3> HIDE DEF then
    <3> QED  BY <2>1, <3>1, <3>2, OthersTyped, NoneAssumption
  <2> DEFINE ended == {i}
  <2>7. \A q \in RoomId : /\ \A j : Untold(roomJobs[q], j) => Untold(roomJobs'[q], j)
                          /\ Answers(roomJobs[q]) => Answers(roomJobs'[q])
                          /\ q \in registered /\ handoffs[i].room = q => Answers(roomJobs'[q])
    <3>1. ended \in SUBSET InstanceId /\ roomJobs' = Answered(ended, running) /\ i \in ended
      BY <1>2, <2>1
    <3> HIDE DEF ended, running, i
    <3>2. \A q \in RoomId :
            /\ \A j : Untold(roomJobs[q], j) => Untold(Answered(ended, running)[q], j)
            /\ Answers(roomJobs[q]) => Answers(Answered(ended, running)[q])
            /\ q \in registered /\ (\E j \in ended : handoffs[j].room = q) =>
                  Answers(Answered(ended, running)[q])
      BY <2>2, <3>1, AnsweredJobs
    <3> QED  BY <3>1, <3>2
  <2> HIDE DEF i, ended, running
  <2>8. \A j \in InstanceId : NoTickets(j) => NoTickets(j)'
    BY <2>7 DEF NoTickets
  <2>9. ASSUME NEW j \in InstanceId, j # i PROVE Handed(j)'
    <3>1. \A s \in Session : <<s, <<"instance", j>>>> \in ToBeTold => handoffs[j] # None
      BY DEF HandoffInv, Handed, Rostered
    <3>2. handoffs'[j] = handoffs[j]
      BY <2>6, <2>9
    <3> QED  BY <2>3, <2>4, <2>5, <2>8, <2>9, <3>1, <3>2, HandedKept
  <2>10. ASSUME NEW j \in InstanceId, j = i PROVE Handed(j)'
    <3>1. NotYetStarted(j) /\ ServedByKnown(j) /\ Ordered(j) /\ Rostered(j)
      BY DEF HandoffInv, Handed
    <3>2. NotYetStarted(j)' /\ ServedByKnown(j)'
      BY <1>2, <2>5, <2>6, <2>10, <3>1 DEF NotYetStarted, ServedByKnown
    <3>3. Rostered(j)'
      BY <2>4, <2>6, <2>10, <3>1 DEF Rostered
    <3>4. instances[j] \notin {"none", "asked"} /\ Unsaid(serverJobs, "created", j)
      BY <2>3, <2>10, <3>1 DEF Ordered
    <3>5. Ordered(j)'
      BY <2>3, <2>5, <3>1, <3>4 DEF Ordered
    <3> QED  BY <3>2, <3>3, <3>5 DEF Handed
  <2>11. StartingIsPending'
    <3> SUFFICES ASSUME NEW q \in RoomId, rooms[q].state = "Starting" PROVE StartPending(q)'
      BY <2>5 DEF StartingIsPending
    <3>1. StartPending(q)' <=> \/ Begins(serverJobs', q)
                               \/ \E j \in InstanceId : Unfinished(j)' /\ handoffs'[j].room = q
                               \/ Answers(roomJobs'[q])
      BY DEF StartPending, Begins, Answers
    <3>2. StartPending(q)
      BY DEF HandoffInv, StartingIsPending
    <3>3. ASSUME NEW j \in InstanceId, Unfinished(j), handoffs[j].room = q PROVE StartPending(q)'
      <4>1. CASE j = i
        BY <2>7, <3>1, <3>3, <4>1, StartingIsRegistered
      <4>2. CASE j # i
        BY <2>6, <3>1, <3>3, <4>2 DEF Unfinished
      <4> QED  BY <4>1, <4>2
    <3> QED  BY <2>3, <2>7, <3>1, <3>2, <3>3, StartPendingIs
  <2>12. LoadIsPending'
    <3>1. \A j \in InstanceId : /\ handoffs'[j] # None <=> handoffs[j] # None
                                /\ handoffs[j] # None => handoffs'[j].peer = handoffs[j].peer
      BY <1>2, <2>6
    <3> QED  BY <2>5, <3>1, LoadKept
  <2> QED  BY <2>9, <2>10, <2>11, <2>12 DEF HandoffInv
<1> QED  BY <1>1, <1>2 DEF HandleInstanceReady

\* HandleInstanceClosed keeps it.
LEMMA InstanceClosedHandoff ==
  ASSUME LobbyInv, HandoffInv, HandleInstanceClosed
  PROVE  HandoffInv'
<1> DEFINE i == Head(serverJobs).instance
           outcome == IF handoffs[i].phase = "Running" THEN [op |-> "finished"] ELSE FailedJob
           ended == {i}
<1>1. CASE Stale("over")
  BY <1>1, StaleHandoff
<1>2. CASE /\ ServerRuns("over") /\ handoffs[i] # None
           /\ handoffs' = [handoffs EXCEPT ![i] = None]
           /\ loads' = LoadsWithout({i})
           /\ roomJobs' = Answered({i}, outcome)
           /\ serverJobs' = Tail(serverJobs) \o ChannelsLeft({i})
           /\ UNCHANGED <<sessionVars, indexVars, rooms, memberships, started, instances, peers>>
  <2>1. i \in InstanceId
    BY <1>2, Pending
  <2>2. outcome \in RoomJob /\ outcome.op \in {"failed", "running", "finished"}
    <3>1. /\ FailedJob \in RoomJob /\ FailedJob.op = "failed"
          /\ [op |-> "finished"] \in RoomJob
      BY RoomJobsMade DEF FailedJob
    <3> QED  BY <3>1
  <2>3. ended \in SUBSET InstanceId /\ \A j \in ended : handoffs[j] # None
    BY <1>2, <2>1
  <2>4. \A j \in InstanceId : handoffs'[j] = IF j \in ended THEN None ELSE handoffs[j]
    <3>1. handoffs' = [handoffs EXCEPT ![i] = None]
      BY <1>2
    <3> HIDE DEF i
    <3> QED  BY <2>1, <3>1, OthersTyped
  <2>5. /\ loads' = LoadsWithout(ended) /\ roomJobs' = Answered(ended, outcome)
        /\ serverJobs' = Tail(serverJobs) \o ChannelsLeft(ended) /\ ServerRuns("over")
        /\ UNCHANGED <<rooms, memberships, started, instances, peers>>
    BY <1>2
  <2> HIDE DEF ended, outcome
  <2> QED  BY <2>2, <2>3, <2>4, <2>5, EndsHandoff
<1> QED  BY <1>1, <1>2 DEF HandleInstanceClosed

\* SweepHandoffs keeps it, for however many handoffs expire at once.
LEMMA SweepHandoff ==
  ASSUME LobbyInv, HandoffInv, SweepHandoffs
  PROVE  HandoffInv'
<1>1. FailedJob \in RoomJob /\ FailedJob.op \in {"failed", "running", "finished"}
  BY RoomJobsMade DEF FailedJob
<1>2. Expired \in SUBSET InstanceId /\ \A i \in Expired : handoffs[i] # None
  BY DEF Expired, Unfinished
<1>3. /\ \A i \in InstanceId : handoffs'[i] = IF i \in Expired THEN None ELSE handoffs[i]
      /\ loads' = LoadsWithout(Expired) /\ roomJobs' = Answered(Expired, FailedJob)
      /\ serverJobs' = Tail(serverJobs) \o ChannelsLeft(Expired) /\ ServerRuns("sweep")
      /\ UNCHANGED <<rooms, memberships, started, instances, peers>>
  BY DEF SweepHandoffs
<1> QED  BY <1>1, <1>2, <1>3, EndsHandoff

\* Every job of the server keeps it.
LEMMA ServerStepHandoff ==
  ASSUME LobbyInv, HandoffInv, ServerStep
  PROVE  HandoffInv'
BY TellChannelsHandoff, BeginHandoffHandoff, CreateAckHandoff, InstanceReadyHandoff,
   InstanceClosedHandoff, SweepHandoff DEF ServerStep

-----------------------------------------------------------------------------
(***************************************************************************)
(* Timers and instance servers                                             *)
(***************************************************************************)

\* What happens beside the lobby and the server queue: jobs are posted to the
\* server, handoffs grow late, connections and instances come and go.
LEMMA BesideHandoff ==
  ASSUME LobbyInv, HandoffInv, ToBeTold' = ToBeTold,
         UNCHANGED <<rooms, roomJobs, started>>,
         \A i \in InstanceId :
            \/ handoffs'[i] = handoffs[i]
            \/ /\ handoffs[i] # None /\ handoffs'[i] # None
               /\ handoffs'[i].phase = handoffs[i].phase
               /\ handoffs'[i].roster = handoffs[i].roster
               /\ handoffs'[i].room = handoffs[i].room
               /\ handoffs'[i].peer = handoffs[i].peer,
         \A p : peers[p] # "new" => peers'[p] # "new",
         \A q \in RoomId : Begins(serverJobs, q) => Begins(serverJobs', q),
         \A i \in InstanceId : instances[i] = "none" => instances'[i] = "none",
         \A i \in InstanceId : Ordered(i)',
         LoadIsPending'
  PROVE  HandoffInv'
<1>1. ASSUME NEW i \in InstanceId PROVE Handed(i)'
  <2>1. NotYetStarted(i) /\ ServedByKnown(i) /\ Rostered(i)
    BY DEF HandoffInv, Handed
  <2>2. NotYetStarted(i)'
    BY <2>1 DEF NotYetStarted
  <2>3. ServedByKnown(i)'
    BY <2>1 DEF ServedByKnown
  <2>4. Rostered(i)'
    BY <2>1 DEF Rostered
  <2> QED  BY <2>2, <2>3, <2>4 DEF Handed
<1>2. StartingIsPending'
  <2> SUFFICES ASSUME NEW q \in RoomId, rooms[q].state = "Starting" PROVE StartPending(q)'
    BY DEF StartingIsPending
  <2>1. StartPending(q)' <=> \/ Begins(serverJobs', q)
                             \/ \E i \in InstanceId : Unfinished(i)' /\ handoffs'[i].room = q
                             \/ Answers(roomJobs[q])
    BY DEF StartPending, Begins, Answers
  <2>2. StartPending(q)
    BY DEF HandoffInv, StartingIsPending
  <2>3. ASSUME NEW i \in InstanceId, Unfinished(i), handoffs[i].room = q
        PROVE  Unfinished(i)' /\ handoffs'[i].room = q
    BY <2>3 DEF Unfinished
  <2> QED  BY <2>1, <2>2, <2>3, StartPendingIs
<1> QED  BY <1>1, <1>2 DEF HandoffInv

\* An instance moves on, and what it reports reaches the server or is lost.
LEMMA MovesHandoff ==
  ASSUME LobbyInv, HandoffInv, ToBeTold' = ToBeTold,
         NEW i \in InstanceId, NEW life \in {"created", "live", "over"}, Moves(i, life),
         NEW job \in ServerJob, job.instance = i,
         serverJobs' = serverJobs \/ serverJobs' = Append(serverJobs, job),
         \/ job.op = "created" /\ instances[i] = "asked" /\ life \in {"created", "over"}
         \/ job.op = "live" /\ instances[i] = "told"
         \/ job.op = "over" /\ instances[i] \in {"created", "told", "live"} /\ life = "over"
  PROVE  HandoffInv'
<1>1. /\ UNCHANGED <<rooms, roomJobs, handoffs, started, peers, loads>>
      /\ instances'[i] = life
      /\ \A k \in InstanceId : k # i => instances'[k] = instances[k]
  BY OthersTyped DEF Moves, handoffVars
<1>2. /\ \A op, k : Unsaid(serverJobs', op, k) <=>
                      \/ Unsaid(serverJobs, op, k) /\ ~(job.op = op /\ i = k)
                      \/ Unsaid(serverJobs, op, k) /\ serverJobs' = serverJobs
      /\ \A q : Begins(serverJobs, q) => Begins(serverJobs', q)
      /\ \A k : /\ Once(serverJobs, k)
                /\ job.op = "created" /\ i = k => Unsaid(serverJobs, "created", k)
                => Once(serverJobs', k)
  <2>1. serverJobs \in Seq(ServerJob)
    BY DEF LobbyInv, TypeOK
  <2>2. /\ \A op, k : Unsaid(Append(serverJobs, job), op, k) <=>
                        Unsaid(serverJobs, op, k) /\ ~(job.op = op /\ job.instance = k)
        /\ \A r : Begins(Append(serverJobs, job), r) <=>
                    Begins(serverJobs, r) \/ (job.op = "begin" /\ job.room = r)
        /\ \A k : Once(Append(serverJobs, job), k) <=>
                    /\ Once(serverJobs, k)
                    /\ job.op = "created" /\ job.instance = k => Unsaid(serverJobs, "created", k)
    BY <2>1, AppendJobs
  <2>3. CASE serverJobs' = serverJobs
    BY <2>3
  <2>4. CASE serverJobs' = Append(serverJobs, job) /\ serverJobs' # serverJobs
    BY <2>2, <2>4
  <2> QED  BY <2>3, <2>4
<1>3. ASSUME NEW k \in InstanceId PROVE Ordered(k)'
  <2>1. Ordered(k)
    BY DEF HandoffInv, Handed
  <2>2. NoTickets(k)' <=> NoTickets(k)
    BY <1>1 DEF NoTickets
  <2>3. Early(k)' <=> Early(k)
    BY <1>1, <2>2 DEF Early
  <2>4. CASE k # i
    BY <1>1, <1>2, <2>1, <2>3, <2>4 DEF Ordered
  <2>5. CASE k = i /\ job.op = "created"
    <3>1. Early(k) /\ Unsaid(serverJobs, "created", k) /\ Unsaid(serverJobs, "live", k)
      BY <2>1, <2>5 DEF Ordered
    <3> QED  BY <1>1, <1>2, <2>1, <2>3, <2>5, <3>1 DEF Ordered
  <2>6. CASE k = i /\ job.op = "live"
    BY <1>1, <1>2, <2>1, <2>3, <2>6 DEF Ordered
  <2>7. CASE k = i /\ job.op = "over"
    BY <1>1, <1>2, <2>1, <2>3, <2>7 DEF Ordered
  <2> QED  BY <2>4, <2>5, <2>6, <2>7
<1>4. LoadIsPending'
  BY <1>1, LoadKept
<1>5. \A k \in InstanceId : instances[k] = "none" => instances'[k] = "none"
  BY <1>1
<1> QED  BY <1>1, <1>2, <1>3, <1>4, <1>5, BesideHandoff

\* The timers, the control connections and the instance server keep it: a
\* connection that says hello has no handoffs yet, and its load starts at none.
LEMMA OutsideHandoff ==
  ASSUME LobbyInv, HandoffInv,
         \/ MaintenanceTimer
         \/ \E i \in InstanceId :
               Overdue(i) \/ InstanceCreated(i) \/ InstanceLive(i) \/ InstanceOver(i)
         \/ \E p \in Peer : PeerHello(p) \/ PeerDisconnected(p)
  PROVE  HandoffInv'
<1>0. ToBeTold' = ToBeTold
  BY OutsideHolds
<1>1. ASSUME UNCHANGED <<rooms, roomJobs, handoffs, started, instances>>,
             \A p : peers[p] # "new" => peers'[p] # "new",
             \/ serverJobs' = serverJobs
             \/ serverJobs' = Append(serverJobs, [op |-> "sweep"]),
             LoadIsPending'
      PROVE  HandoffInv'
  <2> DEFINE job == [op |-> "sweep"]
  <2>1. job \in ServerJob /\ job.op = "sweep" /\ serverJobs \in Seq(ServerJob)
    BY ServerJobsMade DEF LobbyInv, TypeOK
  <2> HIDE DEF job
  <2>2. /\ \A op, k : Unsaid(Append(serverJobs, job), op, k) <=>
                        Unsaid(serverJobs, op, k) /\ ~(job.op = op /\ job.instance = k)
        /\ \A r : Begins(Append(serverJobs, job), r) <=>
                    Begins(serverJobs, r) \/ (job.op = "begin" /\ job.room = r)
        /\ \A k : Once(Append(serverJobs, job), k) <=>
                    /\ Once(serverJobs, k)
                    /\ job.op = "created" /\ job.instance = k => Unsaid(serverJobs, "created", k)
    BY <2>1, AppendJobs
  <2>3. serverJobs' = serverJobs \/ serverJobs' = Append(serverJobs, job)
    BY <1>1 DEF job
  <2>4. /\ \A k : /\ Unsaid(serverJobs, "created", k) <=> Unsaid(serverJobs', "created", k)
                  /\ Unsaid(serverJobs, "live", k) <=> Unsaid(serverJobs', "live", k)
                  /\ Once(serverJobs, k) <=> Once(serverJobs', k)
        /\ \A q : Begins(serverJobs, q) => Begins(serverJobs', q)
    BY <2>1, <2>2, <2>3
  <2>5. ASSUME NEW k \in InstanceId PROVE Ordered(k)'
    <3>1. Ordered(k)
      BY DEF HandoffInv, Handed
    <3>2. Early(k)' <=> Early(k)
      BY <1>1 DEF Early, NoTickets
    <3> QED  BY <1>1, <2>4, <3>1, <3>2 DEF Ordered
  <2> QED  BY <1>0, <1>1, <2>4, <2>5, BesideHandoff
<1>2. CASE MaintenanceTimer
  <2> USE DEF MaintenanceTimer, handoffVars, peerVars
  <2>1. LoadIsPending'
    BY <1>2, LoadKept
  <2> QED  BY <1>1, <1>2, <2>1
<1>3. ASSUME NEW p \in Peer, PeerDisconnected(p) PROVE HandoffInv'
  <2> USE DEF PeerDisconnected, handoffVars
  <2>1. /\ \A k : peers[k] # "new" => peers'[k] # "new"
        /\ \A k \in Peer : peers'[k] = "in" => peers[k] = "in"
    BY <1>3, OthersTyped
  <2>2. LoadIsPending'
    BY <1>3, <2>1, LoadKept
  <2> QED  BY <1>1, <1>3, <2>1, <2>2
<1>4. ASSUME NEW p \in Peer, PeerHello(p) PROVE HandoffInv'
  <2> USE DEF PeerHello, handoffVars
  <2>1. /\ \A k : peers[k] # "new" => peers'[k] # "new"
        /\ loads'[p] = 0
        /\ \A k \in Peer : k # p => peers'[k] = peers[k] /\ loads'[k] = loads[k]
    BY <1>4, OthersTyped
  <2>2. {i \in InstanceId : handoffs[i] # None /\ handoffs[i].peer = p} = {}
    BY <1>4 DEF HandoffInv, Handed, ServedByKnown
  <2>3. LoadIsPending'
    <3> SUFFICES ASSUME NEW k \in Peer, peers'[k] = "in"
                 PROVE  loads'[k] = Cardinality({i \in InstanceId :
                                        handoffs[i] # None /\ handoffs[i].peer = k})
      BY <1>4 DEF LoadIsPending
    <3>1. CASE k = p
      BY <2>1, <2>2, <3>1, FS_EmptySet
    <3>2. CASE k # p
      BY <2>1, <3>2 DEF HandoffInv, LoadIsPending
    <3> QED  BY <3>1, <3>2
  <2> QED  BY <1>1, <1>4, <2>1, <2>3
<1>5. ASSUME NEW i \in InstanceId, Overdue(i) PROVE HandoffInv'
  <2> DEFINE late == [handoffs[i] EXCEPT !.late = TRUE]
  <2>1. handoffs[i] # None /\ handoffs[i] \in Handoff
    BY <1>5, OthersTyped DEF Overdue, Unfinished
  <2>2. /\ late \in Handoff /\ late.phase = handoffs[i].phase /\ late.roster = handoffs[i].roster
        /\ late.room = handoffs[i].room /\ late.peer = handoffs[i].peer
    BY <2>1 DEF Handoff
  <2>3. /\ handoffs' = [handoffs EXCEPT ![i] = late]
        /\ UNCHANGED <<rooms, roomJobs, serverJobs, started, instances, peers, loads>>
    BY <1>5 DEF Overdue, peerVars
  <2> HIDE DEF late
  <2>4. \A k \in InstanceId :
            \/ handoffs'[k] = handoffs[k]
            \/ /\ handoffs[k] # None /\ handoffs'[k] # None
               /\ handoffs'[k].phase = handoffs[k].phase
               /\ handoffs'[k].roster = handoffs[k].roster
               /\ handoffs'[k].room = handoffs[k].room
               /\ handoffs'[k].peer = handoffs[k].peer
    BY <2>1, <2>2, <2>3, OthersTyped, NoneAssumption
  <2>5. ASSUME NEW k \in InstanceId PROVE Ordered(k)'
    <3>1. Ordered(k)
      BY DEF HandoffInv, Handed
    <3>2. Early(k) => Early(k)'
      BY <2>3, <2>4 DEF Early, NoTickets
    <3> QED  BY <2>3, <3>1, <3>2 DEF Ordered
  <2>6. LoadIsPending'
    BY <2>3, <2>4, LoadKept
  <2> QED  BY <1>0, <2>3, <2>4, <2>5, <2>6, BesideHandoff
<1>6. ASSUME NEW i \in InstanceId, InstanceCreated(i) PROVE HandoffInv'
  <2>1. PICK ok \in BOOLEAN :
          /\ Moves(i, IF ok THEN "created" ELSE "over")
          /\ serverJobs' = IF Connected(i)
                           THEN Append(serverJobs, [op |-> "created", instance |-> i, ok |-> ok])
                           ELSE serverJobs
    BY <1>6 DEF InstanceCreated
  <2> DEFINE job == [op |-> "created", instance |-> i, ok |-> ok]
             life == IF ok THEN "created" ELSE "over"
  <2>2. job \in ServerJob /\ job.op = "created" /\ job.instance = i
    BY ServerJobsMade
  <2>3. /\ serverJobs' = serverJobs \/ serverJobs' = Append(serverJobs, job)
        /\ life \in {"created", "over"} /\ Moves(i, life) /\ instances[i] = "asked"
    BY <1>6, <2>1 DEF InstanceCreated
  <2> HIDE DEF job, life
  <2> QED  BY <1>0, <2>2, <2>3, MovesHandoff
<1>7. ASSUME NEW i \in InstanceId, InstanceLive(i) PROVE HandoffInv'
  <2> DEFINE job == [op |-> "live", instance |-> i]
  <2>1. job \in ServerJob /\ job.op = "live" /\ job.instance = i
    BY ServerJobsMade
  <2>2. /\ serverJobs' = serverJobs \/ serverJobs' = Append(serverJobs, job)
        /\ Moves(i, "live") /\ instances[i] = "told"
    BY <1>7 DEF InstanceLive, Reports
  <2> HIDE DEF job
  <2> QED  BY <1>0, <2>1, <2>2, MovesHandoff
<1>8. ASSUME NEW i \in InstanceId, InstanceOver(i) PROVE HandoffInv'
  <2> DEFINE job == [op |-> "over", instance |-> i]
  <2>1. job \in ServerJob /\ job.op = "over" /\ job.instance = i
    BY ServerJobsMade
  <2>2. /\ serverJobs' = serverJobs \/ serverJobs' = Append(serverJobs, job)
        /\ Moves(i, "over") /\ instances[i] \in {"created", "told", "live"}
    BY <1>8 DEF InstanceOver, Reports
  <2> HIDE DEF job
  <2> QED  BY <1>0, <2>1, <2>2, MovesHandoff
<1> QED  BY <1>2, <1>3, <1>4, <1>5, <1>6, <1>7, <1>8

\* Every step keeps it.
LEMMA HandoffNext ==
  ASSUME LobbyInv, HandoffInv, [Next]_vars
  PROVE  HandoffInv'
<1>1. CASE UNCHANGED vars
  <2> USE <1>1 DEF vars
  <2>1. ToBeTold' = ToBeTold
    BY ToldUnchanged
  <2>2. ASSUME NEW i \in InstanceId PROVE Ordered(i)'
    <3>1. Ordered(i)
      BY DEF HandoffInv, Handed
    <3> QED  BY <3>1 DEF Ordered, Early, NoTickets
  <2>3. LoadIsPending'
    BY LoadKept
  <2> QED  BY <2>1, <2>2, <2>3, BesideHandoff
<1>2. CASE Next
  BY <1>2, ClientStepHandoff, RoomStepHandoff, ServerStepHandoff, OutsideHandoff DEF Next
<1> QED  BY <1>1, <1>2
-----------------------------------------------------------------------------
\* In every reachable state each handoff is where the queues, its instance and
\* the channels say it is (MatchServer.cpp:414-780).
THEOREM HandoffInvariant == Spec => []HandoffInv
<1>1. Init => HandoffInv
  BY HandoffInit
<1>2. LobbyInv /\ HandoffInv /\ [Next]_vars => HandoffInv'
  BY HandoffNext
<1> QED  BY <1>1, <1>2, LobbyInvariant, PTL DEF Spec

\* A room that is Starting has a start in the server queue, a handoff that has not
\* gone live, or its answer in its own queue: no room waits on nothing.
THEOREM StartsArePending == Spec => []StartingIsPending
<1>1. HandoffInv => StartingIsPending
  BY HandoffImplies
<1> QED  BY <1>1, HandoffInvariant, PTL

\* The load of a registered instance server is the number of its handoffs, through
\* refusals, sweeps, lost connections and matches that end.
THEOREM LoadsArePending == Spec => []LoadIsPending
<1>1. HandoffInv => LoadIsPending
  BY HandoffImplies
<1> QED  BY <1>1, HandoffInvariant, PTL

\* Nobody is left, or will be left, in the channel of a match that ended.
THEOREM ChannelsEndWithMatches == Spec => []MatchChannelsEnd
<1>1. HandoffInv => MatchChannelsEnd
  BY HandoffImplies
<1> QED  BY <1>1, HandoffInvariant, PTL
=============================================================================
