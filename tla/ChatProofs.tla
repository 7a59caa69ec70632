----------------------------- MODULE ChatProofs -----------------------------
(***************************************************************************)
(* For any players, rooms and number of channels: memberships that came    *)
(* before a player's hello are not held back after it, and a player can    *)
(* address only a room it is in.                                           *)
(***************************************************************************)
EXTENDS Chat, FiniteSetTheorems, TLAPS

(***************************************************************************)
(* The inductive invariant                                                 *)
(***************************************************************************)

\* The manager has a channel of a key under that key.
Mapped == \A k \in Key : channels[k] # None => keyOf[channels[k]] = k

CInv == TypeOK /\ Mapped /\ NothingHeldBack /\ AddressedIsJoined
-----------------------------------------------------------------------------
(***************************************************************************)
(* Calls                                                                   *)
(***************************************************************************)

\* A call is of the record its name says.
LEMMA CallIsOfItsKind ==
    ASSUME NEW c \in CallRecord
    PROVE  /\ c.op \in {"hear", "create", "unhear", "leave", "trim"} =>
                 c.who \in Session /\ c.key \in Room
           /\ c.op \in {"hangup", "forget", "take"} => c.who \in Session
           /\ c.op = "push" => c.object \in Object /\ c.job \in ChannelJob
BY DEF CallRecord

\* What handlers make of players and rooms are calls.
LEMMA CallsAreCalls ==
    /\ \A op \in {"hear", "create", "unhear", "leave", "trim"}, s \in Session, r \in Room :
          Call(op, s, r) \in CallRecord
    /\ \A op \in {"hangup", "forget", "take"}, s \in Session : Call(op, s, None) \in CallRecord
    /\ \A o \in Object, op \in {"join", "leave"}, s \in Session : Push(o, op, s) \in CallRecord
BY DEF Call, Push, CallRecord, ChannelJob

\* The call a thread is about to make.
LEMMA HeadIsCall ==
    ASSUME TypeOK, NEW t \in Thread, work[t] # <<>>
    PROVE  Head(work[t]) \in CallRecord /\ Tail(work[t]) \in Seq(CallRecord)
<1>1. work[t] \in Seq(CallRecord)
  BY DEF TypeOK
<1> QED  BY <1>1

\* The calls that come of one are calls.
LEMMA BecomesTyped ==
    ASSUME TypeOK, NEW t \in Thread, work[t] # <<>>, NEW calls \in Seq(CallRecord),
           Becomes(t, calls)
    PROVE  work' \in [Thread -> Seq(CallRecord)]
<1>1. Tail(work[t]) \in Seq(CallRecord)
  BY HeadIsCall
<1>2. calls \o Tail(work[t]) \in Seq(CallRecord)
  BY <1>1
<1>3. work' = [work EXCEPT ![t] = calls \o Tail(work[t])]
  BY DEF Becomes
<1> QED  BY <1>2, <1>3 DEF TypeOK

\* A list of one to three calls, and a list made of another.
LEMMA ListsOfCalls ==
    /\ <<>> \in Seq(CallRecord)
    /\ \A a \in CallRecord : <<a>> \in Seq(CallRecord)
    /\ \A a, b \in CallRecord : <<a, b>> \in Seq(CallRecord)
    /\ \A a, b, c \in CallRecord : <<a, b, c>> \in Seq(CallRecord)
OBVIOUS

\* What is left of a list of rooms is a list of rooms, and of none, none.
LEMMA ErasedIsList ==
    ASSUME NEW list \in Seq(Room), NEW r, NEW rest \in Erased(list, r)
    PROVE  rest \in Seq(Room) /\ (list = <<>> => rest = <<>>)
<1> DEFINE kept == {n \in DOMAIN list : list[n] # r}
<1>1. PICK at \in SetToSeqs(kept) : rest = [n \in DOMAIN at |-> list[at[n]]]
  BY DEF Erased
<1>2. IsFiniteSet(kept) /\ Cardinality(kept) \in Nat
  <2>1. IsFiniteSet(1..Len(list)) /\ kept \subseteq 1..Len(list)
    BY FS_Interval
  <2> HIDE DEF kept
  <2> QED  BY <2>1, FS_Subset, FS_CardinalityType
<1>3. at \in [1..Cardinality(kept) -> kept]
  BY <1>1 DEF SetToSeqs
<1>4. \A n \in 1..Cardinality(kept) : list[at[n]] \in Room
  BY <1>3
<1>5. list = <<>> => Cardinality(kept) = 0
  <2>1. ASSUME list = <<>> PROVE kept = {}
    BY <2>1
  <2> QED  BY <2>1, FS_EmptySet
<1> HIDE DEF kept
<1>6. rest = [n \in 1..Cardinality(kept) |-> list[at[n]]]
  BY <1>1, <1>3
<1>7. rest \in Seq(Room)
  BY <1>2, <1>4, <1>6
<1>8. list = <<>> => rest = <<>>
  BY <1>5, <1>6
<1> QED  BY <1>7, <1>8

\* There are finitely many channels, for each is an object of its own.
LEMMA FinitelyManyPresent ==
    ASSUME TypeOK, Mapped
    PROVE  LET present == {k \in Key : channels[k] # None}
           IN  Cardinality(present) \in Nat
<1> DEFINE present == {k \in Key : channels[k] # None}
           f == [k \in present |-> channels[k]]
<1>1. f \in Injection(present, Object)
  <2>1. f \in [present -> Object]
    BY DEF TypeOK
  <2>2. \A k, l \in present : f[k] = f[l] => k = l
    BY DEF Mapped
  <2> HIDE DEF f, present
  <2> QED  BY <2>1, <2>2 DEF Injection, IsInjective
<1>2. IsFiniteSet(Object)
  BY FS_Interval, ChatAssumption DEF Object
<1> HIDE DEF f, present
<1>3. Cardinality(present) \in Nat
  BY <1>1, <1>2, FS_Injection, FS_CardinalityType
<1> QED  BY <1>3 DEF present
-----------------------------------------------------------------------------

(***************************************************************************)
(* Packets, hellos and disconnections                                      *)
(***************************************************************************)

\* Nothing is said of what threads have left to do but that they are calls.
LEMMA OnlyCallsChange ==
    ASSUME CInv, TypeOK', UNCHANGED <<managerVars, channelVars>>
    PROVE  CInv'
<1> USE DEF managerVars, channelVars
<1>1. Mapped' /\ NothingHeldBack' /\ AddressedIsJoined'
  BY DEF CInv, Mapped, NothingHeldBack, AddressedIsJoined, In
<1> QED  BY <1>1 DEF CInv

\* A packet of the control link leaves calls to make.
LEMMA PacketKeeps ==
    ASSUME CInv, NEW s \in Session,
           (\E r \in Room : P_ChannelJoin(s, r)) \/ P_ChannelLeave(s) \/ P_SessionClosed(s)
    PROVE  CInv'
<1> USE DEF managerVars, channelVars
<1>1. PICK calls \in Seq(CallRecord) : Receive(s, calls)
  <2>1. CASE \E r \in Room : P_ChannelJoin(s, r)
    <3>1. PICK r \in Room : P_ChannelJoin(s, r)
      BY <2>1
    <3>2. <<Call("hear", s, r)>> \in Seq(CallRecord)
      BY CallsAreCalls, ListsOfCalls
    <3> QED  BY <3>1, <3>2 DEF P_ChannelJoin
  <2>2. CASE P_ChannelLeave(s)
    <3>1. told[s] \in Room
      BY <2>2 DEF P_ChannelLeave, CInv, TypeOK
    <3>2. <<Call("unhear", s, told[s]), Call("leave", s, told[s]), Call("trim", s, told[s])>>
             \in Seq(CallRecord)
      BY <3>1, CallsAreCalls, ListsOfCalls
    <3> QED  BY <2>2, <3>2 DEF P_ChannelLeave
  <2>3. CASE P_SessionClosed(s)
    <3>1. <<Call("hangup", s, None), Call("forget", s, None)>> \in Seq(CallRecord)
      BY CallsAreCalls, ListsOfCalls
    <3> QED  BY <2>3, <3>1 DEF P_SessionClosed
  <2> QED  BY <2>1, <2>2, <2>3
<1>2. /\ packets < MaxPackets /\ packets' = packets + 1
      /\ work' = [work EXCEPT ![Link] = calls]
      /\ UNCHANGED <<socket, managerVars, channelVars>>
  BY <1>1 DEF Receive
<1>3. packets' \in 0..MaxPackets
  BY <1>2, ChatAssumption DEF CInv, TypeOK
<1>4. work' \in [Thread -> Seq(CallRecord)]
  BY <1>2 DEF CInv, TypeOK
<1>5. told' \in [Session -> Room \cup {None}] /\ ended' \subseteq Session
  BY DEF CInv, TypeOK, P_ChannelJoin, P_ChannelLeave, P_SessionClosed
<1>6. TypeOK'
  BY <1>2, <1>3, <1>4, <1>5 DEF CInv, TypeOK
<1> QED  BY <1>2, <1>6, OnlyCallsChange

\* So do a hello and the end of a connection.
LEMMA ConnectionKeeps ==
    ASSUME CInv, NEW s \in Session, C_ChatHello(s) \/ OnDisconnected(s)
    PROVE  CInv'
<1> USE DEF managerVars, channelVars
<1>1. /\ socket' \in [Session -> {"new", "in", "gone"}]
      /\ UNCHANGED <<packets, told, ended, managerVars, channelVars>>
  BY DEF C_ChatHello, OnDisconnected, CInv, TypeOK
<1>2. work' \in [Thread -> Seq(CallRecord)]
  <2>1. <<Call("take", s, None)>> \in Seq(CallRecord) /\ <<Call("forget", s, None)>> \in Seq(CallRecord)
    BY CallsAreCalls, ListsOfCalls
  <2>2. work \in [Thread -> Seq(CallRecord)]
    BY DEF CInv, TypeOK
  <2> QED  BY <2>1, <2>2 DEF C_ChatHello, OnDisconnected
<1>3. TypeOK'
  BY <1>1, <1>2 DEF CInv, TypeOK
<1> QED  BY <1>1, <1>3, OnlyCallsChange
-----------------------------------------------------------------------------
(***************************************************************************)
(* The steps of a thread                                                   *)
(***************************************************************************)

\* A membership is held back only of a player that is not known.
LEMMA HearKeeps ==
    ASSUME CInv, NEW t \in Thread, Hear(t)
    PROVE  CInv'
<1> DEFINE c == Head(work[t])
<1>1. /\ work[t] # <<>> /\ c.op = "hear"
      /\ \/ /\ c.who \in sessions /\ Becomes(t, <<Call("create", c.who, c.key)>>)
            /\ UNCHANGED pending
         \/ /\ c.who \notin sessions /\ pending' = [pending EXCEPT ![c.who] = Append(@, c.key)]
            /\ Becomes(t, <<>>)
      /\ UNCHANGED <<outside, socket, sessions, channels, keyOf, channelVars>>
  BY DEF Hear, Calls
<1>2. c.who \in Session /\ c.key \in Room
  BY <1>1, HeadIsCall, CallIsOfItsKind DEF CInv
<1> HIDE DEF c
<1>3. work' \in [Thread -> Seq(CallRecord)]
  <2>1. <<Call("create", c.who, c.key)>> \in Seq(CallRecord) /\ <<>> \in Seq(CallRecord)
    BY <1>2, CallsAreCalls, ListsOfCalls
  <2> QED  BY <1>1, <2>1, BecomesTyped DEF CInv
<1>4. /\ pending' \in [Session -> Seq(Room)]
      /\ \A s \in Session : s \in sessions => pending'[s] = pending[s]
  <2>1. pending[c.who] \in Seq(Room)
    BY <1>2 DEF CInv, TypeOK
  <2>2. Append(pending[c.who], c.key) \in Seq(Room)
    BY <1>2, <2>1
  <2>3. pending \in [Session -> Seq(Room)]
    BY DEF CInv, TypeOK
  <2>4. CASE UNCHANGED pending
    BY <2>3, <2>4
  <2>5. CASE c.who \notin sessions /\ pending' = [pending EXCEPT ![c.who] = Append(@, c.key)]
    <3> DEFINE more == Append(pending[c.who], c.key)
    <3>1. pending' = [pending EXCEPT ![c.who] = more] /\ more \in Seq(Room)
      BY <2>2, <2>5
    <3> HIDE DEF more
    <3> QED  BY <1>2, <2>3, <2>5, <3>1
  <2> QED  BY <1>1, <2>4, <2>5
<1>5. TypeOK'
  BY <1>1, <1>3, <1>4 DEF CInv, TypeOK, outside, channelVars
<1>6. Mapped' /\ AddressedIsJoined'
  BY <1>1 DEF CInv, Mapped, AddressedIsJoined, In, channelVars
<1>7. NothingHeldBack'
  BY <1>1, <1>4 DEF CInv, NothingHeldBack, TypeOK
<1> QED  BY <1>5, <1>6, <1>7 DEF CInv

\* An object is made for one key, and that is the key the manager has it under.
LEMMA CreateKeeps ==
    ASSUME CInv, NEW t \in Thread, FindOrCreate(t)
    PROVE  CInv'
<1> DEFINE c == Head(work[t])
           fresh == {o \in Object : keyOf[o] = None}
<1>1. PICK o \in IF channels[c.key] = None THEN fresh ELSE {channels[c.key]} :
         /\ channels' = [channels EXCEPT ![c.key] = o]
         /\ keyOf' = [keyOf EXCEPT ![o] = c.key]
         /\ Becomes(t, <<Push(o, "join", c.who)>>)
  BY DEF FindOrCreate
<1>2. /\ work[t] # <<>> /\ c.op = "create"
      /\ UNCHANGED <<outside, socket, sessions, pending, channelVars>>
  BY DEF FindOrCreate, Calls
<1>3. c.who \in Session /\ c.key \in Room /\ c.key \in Key
  BY <1>2, HeadIsCall, CallIsOfItsKind DEF CInv, Key
<1> HIDE DEF c
<1>4. /\ o \in Object
      /\ \/ keyOf[o] = None
         \/ keyOf[o] = c.key /\ channels[c.key] = o
  BY <1>1, <1>3 DEF CInv, TypeOK, Mapped
<1>5. work' \in [Thread -> Seq(CallRecord)]
  <2>1. <<Push(o, "join", c.who)>> \in Seq(CallRecord)
    BY <1>3, <1>4, CallsAreCalls, ListsOfCalls
  <2> QED  BY <1>1, <1>2, <2>1, BecomesTyped DEF CInv
<1>6. channels' \in [Key -> Object \cup {None}] /\ keyOf' \in [Object -> Key \cup {None}]
  BY <1>1, <1>3, <1>4 DEF CInv, TypeOK
<1>7. TypeOK'
  BY <1>2, <1>5, <1>6 DEF CInv, TypeOK, outside, channelVars
<1>8. \A p \in Object : keyOf[p] # None => keyOf'[p] = keyOf[p]
  BY <1>1, <1>4 DEF CInv, TypeOK
<1>9. Mapped'
  <2>1. SUFFICES ASSUME NEW k \in Key, channels'[k] # None PROVE keyOf'[channels'[k]] = k
    BY DEF Mapped
  <2>2. CASE k = c.key
    BY <1>1, <1>3, <1>4, <2>2 DEF CInv, TypeOK
  <2>3. CASE k # c.key
    <3>1. channels'[k] = channels[k] /\ channels[k] \in Object /\ keyOf[channels[k]] = k
      BY <1>1, <2>1, <2>3 DEF CInv, TypeOK, Mapped
    <3>2. k # None
      BY ChatAssumption DEF Key
    <3> QED  BY <1>8, <3>1, <3>2
  <2> QED  BY <2>2, <2>3
<1>10. AddressedIsJoined'
  <2>1. SUFFICES ASSUME NEW s \in Session, roomId[s] # None PROVE In(s, roomId[s])'
    BY <1>2 DEF AddressedIsJoined, channelVars, In
  <2>2. PICK p \in Object : keyOf[p] = roomId[s] /\ s \in members[p]
    BY <2>1 DEF CInv, AddressedIsJoined, In
  <2>3. keyOf'[p] = roomId'[s] /\ s \in members'[p]
    BY <1>2, <1>8, <2>1, <2>2 DEF channelVars
  <2> QED  BY <1>2, <2>3 DEF In, channelVars
<1>11. NothingHeldBack'
  BY <1>2 DEF CInv, NothingHeldBack
<1> QED  BY <1>7, <1>9, <1>10, <1>11 DEF CInv

\* A membership that has ended is held back no longer.
LEMMA UnhearKeeps ==
    ASSUME CInv, NEW t \in Thread, Unhear(t)
    PROVE  CInv'
<1> DEFINE c == Head(work[t])
<1>1. PICK rest \in Erased(pending[c.who], c.key) : pending' = [pending EXCEPT ![c.who] = rest]
  BY DEF Unhear
<1>2. /\ work[t] # <<>> /\ c.op = "unhear" /\ Becomes(t, <<>>)
      /\ UNCHANGED <<outside, socket, sessions, channels, keyOf, channelVars>>
  BY DEF Unhear, Calls
<1>3. c.who \in Session /\ c.key \in Room
  BY <1>2, HeadIsCall, CallIsOfItsKind DEF CInv
<1> HIDE DEF c
<1>4. work' \in [Thread -> Seq(CallRecord)]
  BY <1>2, BecomesTyped, ListsOfCalls DEF CInv
<1>5. rest \in Seq(Room) /\ (pending[c.who] = <<>> => rest = <<>>)
  <2>1. pending[c.who] \in Seq(Room)
    BY <1>3 DEF CInv, TypeOK
  <2> QED  BY <1>1, <2>1, ErasedIsList
<1>6. /\ pending' \in [Session -> Seq(Room)]
      /\ \A s \in Session : pending[s] = <<>> => pending'[s] = <<>>
  BY <1>1, <1>3, <1>5 DEF CInv, TypeOK
<1>7. TypeOK'
  BY <1>2, <1>4, <1>6 DEF CInv, TypeOK, outside, channelVars
<1>8. Mapped' /\ AddressedIsJoined'
  BY <1>2 DEF CInv, Mapped, AddressedIsJoined, In, channelVars
<1>9. NothingHeldBack'
  BY <1>2, <1>6 DEF CInv, NothingHeldBack, TypeOK
<1> QED  BY <1>7, <1>8, <1>9 DEF CInv

\* A leave is pushed to the object the manager has, if any.
LEMMA LeaveKeeps ==
    ASSUME CInv, NEW t \in Thread, Leave(t)
    PROVE  CInv'
<1> DEFINE c == Head(work[t])
<1>1. /\ work[t] # <<>> /\ c.op = "leave"
      /\ Becomes(t, IF channels[c.key] = None THEN <<>>
                    ELSE <<Push(channels[c.key], "leave", c.who)>>)
      /\ UNCHANGED <<outside, socket, managerVars, channelVars>>
  BY DEF Leave, Calls
<1>2. c.who \in Session /\ c.key \in Room /\ c.key \in Key
  BY <1>1, HeadIsCall, CallIsOfItsKind DEF CInv, Key
<1> HIDE DEF c
<1>3. work' \in [Thread -> Seq(CallRecord)]
  <2>1. CASE channels[c.key] = None
    <3>1. Becomes(t, <<>>)
      BY <1>1, <2>1
    <3> QED  BY <1>1, <3>1, BecomesTyped, ListsOfCalls DEF CInv
  <2>2. CASE channels[c.key] # None
    <3>1. Becomes(t, <<Push(channels[c.key], "leave", c.who)>>)
      BY <1>1, <2>2
    <3>2. channels[c.key] \in Object
      BY <1>2, <2>2 DEF CInv, TypeOK
    <3>3. <<Push(channels[c.key], "leave", c.who)>> \in Seq(CallRecord)
      BY <1>2, <3>2, CallsAreCalls, ListsOfCalls
    <3> QED  BY <1>1, <3>1, <3>3, BecomesTyped DEF CInv
  <2> QED  BY <2>1, <2>2
<1>4. TypeOK'
  BY <1>1, <1>3 DEF CInv, TypeOK, outside, managerVars, channelVars
<1> QED  BY <1>1, <1>4, OnlyCallsChange

\* A channel that is erased stays an object.
LEMMA TrimKeeps ==
    ASSUME CInv, NEW t \in Thread, RemoveIfEmpty(t)
    PROVE  CInv'
<1> DEFINE c == Head(work[t])
<1>1. /\ work[t] # <<>> /\ c.op = "trim" /\ Becomes(t, <<>>)
      /\ channels' = channels \/ channels' = [channels EXCEPT ![c.key] = None]
      /\ UNCHANGED <<outside, socket, sessions, pending, keyOf, channelVars>>
  BY DEF RemoveIfEmpty, Calls
<1> HIDE DEF c
<1>2. work' \in [Thread -> Seq(CallRecord)]
  BY <1>1, BecomesTyped, ListsOfCalls DEF CInv
<1>3. /\ channels' \in [Key -> Object \cup {None}]
      /\ \A k \in Key : channels'[k] # None => channels'[k] = channels[k]
  BY <1>1 DEF CInv, TypeOK
<1>4. TypeOK'
  BY <1>1, <1>2, <1>3 DEF CInv, TypeOK, outside, channelVars
<1>5. Mapped'
  BY <1>1, <1>3 DEF CInv, Mapped
<1>6. NothingHeldBack' /\ AddressedIsJoined'
  BY <1>1 DEF CInv, NothingHeldBack, AddressedIsJoined, In, channelVars
<1> QED  BY <1>4, <1>5, <1>6 DEF CInv

\* Who becomes known is handed what was held back, under the one lock.
LEMMA TakeKeeps ==
    ASSUME CInv, NEW t \in Thread, TakePending(t)
    PROVE  CInv'
<1> DEFINE s == Head(work[t]).who
           creates == [n \in DOMAIN pending[s] |-> Call("create", s, pending[s][n])]
<1>1. /\ work[t] # <<>> /\ Head(work[t]).op = "take"
      /\ sessions' = sessions \cup {s} /\ pending' = [pending EXCEPT ![s] = <<>>]
      /\ Becomes(t, <<Push(1, "join", s)>> \o creates)
      /\ UNCHANGED <<outside, socket, channels, keyOf, channelVars>>
  BY DEF TakePending, Calls
<1>2. s \in Session
  BY <1>1, HeadIsCall, CallIsOfItsKind DEF CInv
<1> HIDE DEF s
<1>3. work' \in [Thread -> Seq(CallRecord)]
  <2>1. pending[s] \in Seq(Room)
    BY <1>2 DEF CInv, TypeOK
  <2>2. creates \in Seq(CallRecord)
    <3>1. Len(pending[s]) \in Nat /\ DOMAIN pending[s] = 1..Len(pending[s])
      BY <2>1
    <3>2. \A n \in 1..Len(pending[s]) : Call("create", s, pending[s][n]) \in CallRecord
      BY <1>2, <2>1, CallsAreCalls
    <3>3. creates = [n \in 1..Len(pending[s]) |-> Call("create", s, pending[s][n])]
      BY <3>1
    <3> QED  BY <3>1, <3>2, <3>3
  <2>3. 1 \in Object
    BY ChatAssumption DEF Object
  <2>4. <<Push(1, "join", s)>> \in Seq(CallRecord)
    BY <1>2, <2>3, CallsAreCalls, ListsOfCalls
  <2> HIDE DEF creates
  <2>5. <<Push(1, "join", s)>> \o creates \in Seq(CallRecord)
    BY <2>2, <2>4
  <2> QED  BY <1>1, <2>5, BecomesTyped DEF CInv
<1>4. /\ pending' \in [Session -> Seq(Room)] /\ pending'[s] = <<>>
      /\ \A u \in Session : u # s => pending'[u] = pending[u]
  BY <1>1, <1>2 DEF CInv, TypeOK
<1>5. TypeOK'
  BY <1>1, <1>2, <1>3, <1>4 DEF CInv, TypeOK, outside, channelVars
<1>6. Mapped' /\ AddressedIsJoined'
  BY <1>1 DEF CInv, Mapped, AddressedIsJoined, In, channelVars
<1>7. NothingHeldBack'
  BY <1>1, <1>4 DEF CInv, NothingHeldBack, TypeOK
<1> QED  BY <1>5, <1>6, <1>7 DEF CInv

\* A player that is forgotten has nothing held back, and leaves what is there.
LEMMA ForgetKeeps ==
    ASSUME CInv, NEW t \in Thread, Forget(t)
    PROVE  CInv'
<1> DEFINE s == Head(work[t]).who
           present == {k \in Key : channels[k] # None}
<1>1. /\ work[t] # <<>> /\ Head(work[t]).op = "forget"
      /\ sessions' = sessions \ {s} /\ pending' = [pending EXCEPT ![s] = <<>>]
      /\ UNCHANGED <<outside, socket, channels, keyOf, channelVars>>
  BY DEF Forget, Calls
<1>2. PICK keys \in SetToSeqs(present) :
         Becomes(t, [n \in DOMAIN keys |-> Push(channels[keys[n]], "leave", s)])
  BY DEF Forget
<1>3. s \in Session
  BY <1>1, HeadIsCall, CallIsOfItsKind DEF CInv
<1> HIDE DEF s
<1>4. Cardinality(present) \in Nat
  BY FinitelyManyPresent DEF CInv
<1>5. keys \in [1..Cardinality(present) -> present]
  BY <1>2 DEF SetToSeqs
<1>6. \A n \in 1..Cardinality(present) : Push(channels[keys[n]], "leave", s) \in CallRecord
  <2>1. \A k \in present : channels[k] \in Object
    BY DEF CInv, TypeOK
  <2> HIDE DEF present
  <2> QED  BY <1>3, <1>5, <2>1, CallsAreCalls
<1> DEFINE leaves == [n \in DOMAIN keys |-> Push(channels[keys[n]], "leave", s)]
<1>7. leaves \in Seq(CallRecord)
  <2>1. leaves = [n \in 1..Cardinality(present) |-> Push(channels[keys[n]], "leave", s)]
    BY <1>5
  <2> HIDE DEF present, leaves
  <2> QED  BY <1>4, <1>6, <2>1
<1>8. work' \in [Thread -> Seq(CallRecord)]
  <2> HIDE DEF leaves
  <2>1. Becomes(t, leaves)
    BY <1>2 DEF leaves
  <2> QED  BY <1>1, <1>7, <2>1, BecomesTyped DEF CInv
<1>9. /\ pending' \in [Session -> Seq(Room)]
      /\ \A u \in Session : u # s => pending'[u] = pending[u]
  BY <1>1, <1>3 DEF CInv, TypeOK
<1>10. TypeOK'
  BY <1>1, <1>8, <1>9 DEF CInv, TypeOK, outside, channelVars
<1>11. Mapped' /\ AddressedIsJoined'
  BY <1>1 DEF CInv, Mapped, AddressedIsJoined, In, channelVars
<1>12. NothingHeldBack'
  BY <1>1, <1>9 DEF CInv, NothingHeldBack, TypeOK
<1> QED  BY <1>10, <1>11, <1>12 DEF CInv

\* A connection that is hung up forgets its player.
LEMMA HangUpKeeps ==
    ASSUME CInv, NEW t \in Thread, HangUp(t)
    PROVE  CInv'
<1> DEFINE s == Head(work[t]).who
           closes == s \in sessions /\ socket[s] = "in"
<1>1. /\ work[t] # <<>> /\ Head(work[t]).op = "hangup"
      /\ socket' = IF closes THEN [socket EXCEPT ![s] = "gone"] ELSE socket
      /\ work' = [work EXCEPT ![t] = Tail(@),
                              ![<<"gone", s>>] = IF closes THEN <<Call("forget", s, None)>> ELSE @]
      /\ UNCHANGED <<outside, managerVars, channelVars>>
  BY DEF HangUp, Calls
<1>2. s \in Session /\ Tail(work[t]) \in Seq(CallRecord)
  BY <1>1, HeadIsCall, CallIsOfItsKind DEF CInv
<1> HIDE DEF s
<1>3. <<Call("forget", s, None)>> \in Seq(CallRecord)
  BY <1>2, CallsAreCalls, ListsOfCalls
<1>4. work' \in [Thread -> Seq(CallRecord)]
  BY <1>1, <1>2, <1>3 DEF CInv, TypeOK
<1>5. TypeOK'
  BY <1>1, <1>2, <1>4 DEF CInv, TypeOK, outside, managerVars, channelVars
<1> QED  BY <1>1, <1>5, OnlyCallsChange

\* What is pushed to a channel is a job of a player.
LEMMA PushJobKeeps ==
    ASSUME CInv, NEW t \in Thread, PushJob(t)
    PROVE  CInv'
<1> DEFINE c == Head(work[t])
<1>1. /\ work[t] # <<>> /\ c.op = "push" /\ Becomes(t, <<>>)
      /\ jobs' = [jobs EXCEPT ![c.object] = Append(@, c.job)]
      /\ UNCHANGED <<outside, socket, managerVars, members, roomId>>
  BY DEF PushJob, Calls
<1>2. c.object \in Object /\ c.job \in ChannelJob
  BY <1>1, HeadIsCall, CallIsOfItsKind DEF CInv
<1> HIDE DEF c
<1>3. work' \in [Thread -> Seq(CallRecord)]
  BY <1>1, BecomesTyped, ListsOfCalls DEF CInv
<1>4. jobs' \in [Object -> Seq(ChannelJob)]
  <2>1. jobs[c.object] \in Seq(ChannelJob)
    BY <1>2 DEF CInv, TypeOK
  <2>2. Append(jobs[c.object], c.job) \in Seq(ChannelJob)
    BY <1>2, <2>1
  <2> QED  BY <1>1, <2>2 DEF CInv, TypeOK
<1>5. TypeOK'
  BY <1>1, <1>3, <1>4 DEF CInv, TypeOK, outside, managerVars
<1>6. Mapped' /\ NothingHeldBack' /\ AddressedIsJoined'
  BY <1>1 DEF CInv, Mapped, NothingHeldBack, AddressedIsJoined, In, managerVars
<1> QED  BY <1>5, <1>6 DEF CInv
-----------------------------------------------------------------------------
(***************************************************************************)
(* The jobs of a channel                                                   *)
(***************************************************************************)

\* The job an object is about to run, and those after it.
LEMMA JobIsTyped ==
    ASSUME TypeOK, NEW o \in Object, jobs[o] # <<>>
    PROVE  /\ Head(jobs[o]) \in ChannelJob /\ Tail(jobs[o]) \in Seq(ChannelJob)
           /\ Head(jobs[o]).who \in Session
<1>1. jobs[o] \in Seq(ChannelJob)
  BY DEF TypeOK
<1>2. Head(jobs[o]) \in ChannelJob /\ Tail(jobs[o]) \in Seq(ChannelJob)
  BY <1>1
<1> HIDE DEF ChannelJob
<1>3. \A job \in ChannelJob : job.who \in Session
  BY DEF ChannelJob
<1> QED  BY <1>2, <1>3

\* Who joins is a member before it can address the room.
LEMMA JoinedKeeps ==
    ASSUME CInv, NEW o \in Object, Joined(o)
    PROVE  CInv'
<1> DEFINE s == Head(jobs[o]).who
<1>1. /\ jobs[o] # <<>>
      /\ members' = [members EXCEPT ![o] = @ \cup {s}]
      /\ roomId' = IF keyOf[o] = Global THEN roomId ELSE [roomId EXCEPT ![s] = keyOf[o]]
      /\ jobs' = [jobs EXCEPT ![o] = Tail(@)]
      /\ UNCHANGED <<outside, socket, work, managerVars>>
  BY DEF Joined, Runs
<1>2. s \in Session /\ Tail(jobs[o]) \in Seq(ChannelJob)
  BY <1>1, JobIsTyped DEF CInv
<1> HIDE DEF s
<1>3. jobs' \in [Object -> Seq(ChannelJob)] /\ members' \in [Object -> SUBSET Session]
  BY <1>1, <1>2 DEF CInv, TypeOK
<1>4. roomId' \in [Session -> Room \cup {None}]
  BY <1>1, <1>2 DEF CInv, TypeOK, Key
<1>5. TypeOK'
  BY <1>1, <1>3, <1>4 DEF CInv, TypeOK, outside, managerVars
<1>6. Mapped' /\ NothingHeldBack'
  BY <1>1 DEF CInv, Mapped, NothingHeldBack, managerVars
<1>7. AddressedIsJoined'
  <2>1. SUFFICES ASSUME NEW u \in Session, roomId'[u] # None
                 PROVE  \E p \in Object : keyOf'[p] = roomId'[u] /\ u \in members'[p]
    BY DEF AddressedIsJoined, In
  <2>2. keyOf' = keyOf
    BY <1>1 DEF managerVars
  <2>3. CASE roomId'[u] = roomId[u]
    <3>1. PICK p \in Object : keyOf[p] = roomId[u] /\ u \in members[p]
      BY <2>1, <2>3 DEF CInv, AddressedIsJoined, In
    <3>2. u \in members'[p]
      BY <1>1, <3>1 DEF CInv, TypeOK
    <3> QED  BY <2>2, <2>3, <3>1, <3>2
  <2>4. CASE roomId'[u] # roomId[u]
    <3>1. u = s /\ roomId'[u] = keyOf[o]
      BY <1>1, <1>2, <2>4 DEF CInv, TypeOK
    <3>2. u \in members'[o]
      BY <1>1, <3>1 DEF CInv, TypeOK
    <3> QED  BY <2>2, <3>1, <3>2
  <2> QED  BY <2>3, <2>4
<1> QED  BY <1>5, <1>6, <1>7 DEF CInv

\* Who leaves the room it can address can address none; the others' are kept.
LEMMA LeftKeeps ==
    ASSUME CInv, NEW o \in Object, Left(o)
    PROVE  CInv'
<1> DEFINE s == Head(jobs[o]).who
<1>1. /\ jobs[o] # <<>>
      /\ members' = [members EXCEPT ![o] = @ \ {s}]
      /\ roomId' = IF s \notin members[o] \/ keyOf[o] = Global THEN roomId
                   ELSE [roomId EXCEPT ![s] = None]
      /\ jobs' = [jobs EXCEPT ![o] = Tail(@)]
      /\ UNCHANGED <<outside, socket, work, managerVars>>
  BY DEF Left, Runs
<1>2. s \in Session /\ Tail(jobs[o]) \in Seq(ChannelJob)
  BY <1>1, JobIsTyped DEF CInv
<1> HIDE DEF s
<1>3. jobs' \in [Object -> Seq(ChannelJob)] /\ members' \in [Object -> SUBSET Session]
  BY <1>1, <1>2 DEF CInv, TypeOK
<1>4. roomId' \in [Session -> Room \cup {None}]
  BY <1>1, <1>2 DEF CInv, TypeOK
<1>5. TypeOK'
  BY <1>1, <1>3, <1>4 DEF CInv, TypeOK, outside, managerVars
<1>6. Mapped' /\ NothingHeldBack'
  BY <1>1 DEF CInv, Mapped, NothingHeldBack, managerVars
<1>7. AddressedIsJoined'
  <2>1. SUFFICES ASSUME NEW u \in Session, roomId'[u] # None
                 PROVE  \E p \in Object : keyOf'[p] = roomId'[u] /\ u \in members'[p]
    BY DEF AddressedIsJoined, In
  <2>2. keyOf' = keyOf
    BY <1>1 DEF managerVars
  <2>3. roomId'[u] = roomId[u] /\ roomId[u] \in Room
    BY <1>1, <1>2, <2>1 DEF CInv, TypeOK
  <2>4. PICK p \in Object : keyOf[p] = roomId[u] /\ u \in members[p]
    BY <2>1, <2>3 DEF CInv, AddressedIsJoined, In
  <2>5. u \in members'[p]
    <3>1. CASE p = o /\ u = s
      <4>1. keyOf[o] # Global
        BY <2>3, <2>4, <3>1, ChatAssumption
      <4>2. roomId' = [roomId EXCEPT ![s] = None]
        BY <1>1, <2>4, <3>1, <4>1
      <4> QED  BY <1>2, <2>1, <3>1, <4>2 DEF CInv, TypeOK
    <3>2. CASE p # o \/ u # s
      BY <1>1, <2>4, <3>2 DEF CInv, TypeOK
    <3> QED  BY <3>1, <3>2
  <2> QED  BY <2>2, <2>3, <2>4, <2>5
<1> QED  BY <1>5, <1>6, <1>7 DEF CInv
-----------------------------------------------------------------------------

(***************************************************************************)
(* The theorems                                                            *)
(***************************************************************************)

\* Whatever a thread does next keeps the invariant.
LEMMA ThreadKeeps ==
    ASSUME CInv, NEW t \in Thread, ThreadStep(t)
    PROVE  CInv'
BY HearKeeps, CreateKeeps, UnhearKeeps, LeaveKeeps, TrimKeeps, TakeKeeps, ForgetKeeps,
   HangUpKeeps, PushJobKeeps DEF ThreadStep

\* Only the global channel is there at the start, and no one in it.
LEMMA InitIsInv == Init => CInv
<1> SUFFICES ASSUME Init PROVE CInv
  OBVIOUS
<1>1. work \in [Thread -> Seq(CallRecord)]
  BY ListsOfCalls DEF Init
<1>2. channels \in [Key -> Object \cup {None}] /\ keyOf \in [Object -> Key \cup {None}]
  BY ChatAssumption DEF Init, Key, Object
<1>3. TypeOK
  <2>1. pending \in [Session -> Seq(Room)] /\ jobs \in [Object -> Seq(ChannelJob)]
    BY DEF Init
  <2>2. 0 \in 0..MaxPackets
    BY ChatAssumption
  <2> QED  BY <1>1, <1>2, <2>1, <2>2 DEF Init, TypeOK
<1>4. Mapped
  <2>1. 1 \in Object
    BY ChatAssumption DEF Object
  <2> QED  BY <2>1 DEF Init, Mapped
<1>5. NothingHeldBack /\ AddressedIsJoined
  BY DEF Init, NothingHeldBack, AddressedIsJoined
<1> QED  BY <1>3, <1>4, <1>5 DEF CInv

\* The invariant holds in every state, and of it what the runs check: a
\* membership is held back only of a player the chat server does not know.
THEOREM ChatInvariant == Spec => []CInv
<1>1. CInv /\ [Next]_vars => CInv'
  <2> SUFFICES ASSUME CInv, [Next]_vars PROVE CInv'
    OBVIOUS
  <2>1. ASSUME NEW s \in Session,
               \/ \E r \in Room : P_ChannelJoin(s, r)
               \/ P_ChannelLeave(s) \/ P_SessionClosed(s)
        PROVE  CInv'
    BY <2>1, PacketKeeps
  <2>2. ASSUME NEW s \in Session, C_ChatHello(s) \/ OnDisconnected(s)
        PROVE  CInv'
    BY <2>2, ConnectionKeeps
  <2>3. ASSUME NEW t \in Thread, ThreadStep(t)
        PROVE  CInv'
    BY <2>3, ThreadKeeps
  <2>4. ASSUME NEW o \in Object, ChannelStep(o)
        PROVE  CInv'
    BY <2>4, JoinedKeeps, LeftKeeps DEF ChannelStep
  <2>5. CASE UNCHANGED vars
    <3>1. UNCHANGED <<managerVars, channelVars>>
      BY <2>5 DEF vars, managerVars, channelVars
    <3>2. TypeOK'
      BY <2>5 DEF CInv, TypeOK, vars
    <3> QED  BY <3>1, <3>2, OnlyCallsChange
  <2> QED  BY <2>1, <2>2, <2>3, <2>4, <2>5 DEF Next
<1> QED  BY <1>1, InitIsInv, PTL DEF Spec

\* The variables of the chat server have their types.
THEOREM TypeCorrect == Spec => []TypeOK
<1>1. CInv => TypeOK
  BY DEF CInv
<1> QED  BY <1>1, ChatInvariant, PTL

\* Channel.h:62: no membership of a known player is held back, whether its
\* packet or the hello got the lock first.
THEOREM NothingIsHeldBack == Spec => []NothingHeldBack
<1>1. CInv => NothingHeldBack
  BY DEF CInv
<1> QED  BY <1>1, ChatInvariant, PTL

\* Channel.cpp:54: a player that can address a room is a member of a channel of
\* it, in whatever order the joins and leaves of its channels run.
THEOREM AddressedIsMember == Spec => []AddressedIsJoined
<1>1. CInv => AddressedIsJoined
  BY DEF CInv
<1> QED  BY <1>1, ChatInvariant, PTL
=============================================================================
