-------------------------------- MODULE Room --------------------------------
(***************************************************************************)
(* One lobby room, as the functions its job bodies compute.  A room is a   *)
(* JobQueue, so a body has the room to itself (PoolProofs.tla), and what   *)
(* it does to the room is one step of the modules that use this one.       *)
(***************************************************************************)
EXTENDS Integers, SequencesExt

CONSTANTS
    Session,          \* client sessions; a session keeps one id for life
    Capacity,         \* ModeCapacity of the mode
    MinimumToStart,   \* minimumToStart of the mode
    None

ASSUME RoomAssumption ==
    /\ Capacity \in Nat \ {0}
    /\ MinimumToStart \in Nat
    /\ None \notin Session

RoomState == {"Waiting", "Starting", "InGame", "Closing"}

Slot == 0..(Capacity - 1)
Member == [sid : Session, slot : Slot, ready : BOOLEAN]

\* members is _members, which push_back keeps in joinOrder; cooldown is the key
\* set of _kickCooldowns; locked is HasPassword().
RoomRecord ==
    [state : RoomState, members : Seq(Member), host : Session \cup {None},
     cooldown : SUBSET Session, locked : BOOLEAN]

NewRoom(locked) ==
    [state |-> "Waiting", members |-> <<>>, host |-> None,
     cooldown |-> {}, locked |-> locked]

Roster(room) == {m.sid : m \in Range(room.members)}

\* What the search index shows of a room.
Listing ==
    [state : RoomState, count : 0..Capacity, host : Session \cup {None}, locked : BOOLEAN]

Summary(room) ==
    [state |-> room.state, count |-> Len(room.members), host |-> room.host,
     locked |-> room.locked]
-----------------------------------------------------------------------------
\* Wrong: the slot after the last one.
SlotByCount(room) == Len(room.members)

AllocateSlot(room) ==
    LET free == Slot \ {m.slot : m \in Range(room.members)}
    IN  CHOOSE slot \in free : \A other \in free : slot <= other

\* A kick cooldown that is over is forgotten as soon as the player asks again.
Lapsed(room, s) == [room EXCEPT !.cooldown = @ \ {s}]

\* Wrong: the state looked at only when the room is full.
RefusesFull(room, s, opens, lapsed) ==
    \/ s \in room.cooldown /\ ~lapsed
    \/ ~opens
    \/ Len(room.members) >= Capacity
    \/ s \in Roster(room)

\* opens: the password fits, or there is none.
Refuses(room, s, opens, lapsed) ==
    \/ room.state # "Waiting"
    \/ s \in room.cooldown /\ ~lapsed
    \/ ~opens
    \/ Len(room.members) >= Capacity
    \/ s \in Roster(room)

Admit(room, s) ==
    [room EXCEPT
        !.members = Append(@, [sid |-> s, slot |-> AllocateSlot(room), ready |-> FALSE]),
        !.host = IF room.members = <<>> THEN s ELSE @,
        !.cooldown = @ \ {s}]

\* Wrong: the newest member inherits.
PromoteNewest(members) == members[Len(members)].sid

PromoteNextHost(members) == Head(members).sid

\* HandleLeave of a member, CloseRoom included: a start that was waiting on the
\* player is called off.
Drop(room, s) ==
    LET it == CHOOSE i \in DOMAIN room.members : room.members[i].sid = s
        remaining == RemoveAt(room.members, it)
    IN
    IF remaining = <<>>
    THEN [room EXCEPT !.members = remaining, !.state = "Closing"]
    ELSE [room EXCEPT
            !.members = remaining,
            !.host = IF @ = s THEN PromoteNextHost(remaining) ELSE @,
            !.state = IF @ = "Starting" THEN "Waiting" ELSE @]

MayKick(room, s, target) ==
    /\ room.host = s
    /\ s # target
    /\ room.state = "Waiting"
    /\ target \in Roster(room)

Kicked(room, target) == Drop([room EXCEPT !.cooldown = @ \cup {target}], target)

SetReady(room, s, ready) ==
    IF room.state # "Waiting" THEN room
    ELSE [room EXCEPT !.members =
            [i \in DOMAIN @ |-> IF @[i].sid = s THEN [@[i] EXCEPT !.ready = ready] ELSE @[i]]]

AllNonHostMembersReady(room) ==
    \A m \in Range(room.members) : m.sid = room.host \/ m.ready

MayStart(room, s) ==
    /\ room.host = s
    /\ room.state = "Waiting"
    /\ Len(room.members) >= MinimumToStart
    /\ AllNonHostMembersReady(room)

\* The match is over: everybody is back, and unready.
Returned(room) ==
    [room EXCEPT
        !.state = "Waiting",
        !.members = [i \in DOMAIN @ |-> [@[i] EXCEPT !.ready = FALSE]]]
=============================================================================
