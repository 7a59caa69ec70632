------------------------------ MODULE Framing ------------------------------
(***************************************************************************)
(* What PacketSession makes of the bytes a peer sends.                     *)
(*                                                                         *)
(* A byte is a unit <<what, id, size>>.  The first units of a packet are   *)
(* its header, here one, <<"packet", id, size>> with the size it declares; *)
(* the units after it are <<"body", id, size>>.  Under WebSocket the       *)
(* stream is an upgrade request, the last unit of which is <<"upgrade",    *)
(* id, size>>, and then frames: a unit <<opcode, id, length>> and length   *)
(* units of payload.                                                       *)
(***************************************************************************)
EXTENDS Integers, SequencesExt

CONSTANTS
    HeaderSize,         \* sizeof(PacketHeader); the units above make it one
    MaxPacketSize,      \* kMaxPacketSize
    MaxFramePayload,    \* kMaxFramePayload
    MaxHandshake        \* kMaxHandshakeBytes

\* A packet is its header at least, and what there is of it is never nothing.
ASSUME FramingAssumption ==
    /\ HeaderSize \in Nat \ {0} /\ MaxPacketSize \in Nat /\ HeaderSize <= MaxPacketSize
    /\ MaxFramePayload \in Nat /\ MaxHandshake \in Nat

Opcodes == {"Binary", "Continuation", "Ping", "Pong", "Close", "Text", "Unknown"}
Unit == ({"packet", "body", "request", "upgrade", "refused"} \cup Opcodes) \X Nat \X Nat

\* The packet that starts after i units has arrived as a whole.
Whole(bytes, i) == Len(bytes) - i >= bytes[i + 1][3]

BadSize(size) == size < HeaderSize \/ size > MaxPacketSize

\* The loop of FramePackets: the packets handed on, the units they took, and
\* whether a size that cannot be was met after them.
FramePackets(bytes) ==
    LET from[i \in 0..Len(bytes)] ==
            LET stop(bad) == [packets |-> <<>>, used |-> i, bad |-> bad]
                size == bytes[i + 1][3]
                rest == from[i + size]
            IN  IF Len(bytes) - i < HeaderSize THEN stop(FALSE)
                ELSE IF BadSize(size) THEN stop(TRUE)
                ELSE IF ~Whole(bytes, i) THEN stop(FALSE)
                ELSE [rest EXCEPT !.packets = <<SubSeq(bytes, i + 1, i + size)>> \o @]
    IN  from[0]
-----------------------------------------------------------------------------
\* DecodeFrame at the unit after i.  A header with reserved bits, with no mask or
\* with too long a payload is an error; its opcode is not looked at.
IsFrame(u) == u[1] \in Opcodes /\ u[3] <= MaxFramePayload

FrameWhole(bytes, i) == Len(bytes) - i >= 1 + bytes[i + 1][3]

\* The loop of HandleWebSocket over the frames after i units: the payload they
\* carry, how many pongs they ask for, the units they took, and how it ends.
Unwrap(bytes, i) ==
    LET from[j \in i..Len(bytes)] ==
            LET stop(why) == [body |-> <<>>, pongs |-> 0, used |-> j, end |-> why]
                opcode == bytes[j + 1][1]
                size == bytes[j + 1][3]
                rest == from[j + 1 + size]
            IN  IF j = Len(bytes) THEN stop("more")
                ELSE IF ~IsFrame(bytes[j + 1]) THEN stop("error")
                ELSE IF ~FrameWhole(bytes, j) THEN stop("more")
                ELSE CASE opcode \in {"Binary", "Continuation"} ->
                              [rest EXCEPT !.body = SubSeq(bytes, j + 2, j + 1 + size) \o @]
                       [] opcode = "Ping" -> [rest EXCEPT !.pongs = @ + 1]
                       [] opcode \in {"Pong", "Unknown"} -> rest
                       [] opcode = "Text" -> stop("error")
                       [] opcode = "Close" -> [stop("close") EXCEPT !.used = j + 1 + size]
    IN  from[i]

\* TryHandshake: the units of a request that has arrived, none when it has not,
\* or that it is no upgrade.
EndOfRequest(bytes) == {i \in 1..Len(bytes) : bytes[i][1] \in {"upgrade", "refused"}}

TryHandshake(bytes) ==
    LET ends == EndOfRequest(bytes)
        first == CHOOSE i \in ends : \A j \in ends : i <= j
    IN  CASE Len(bytes) > MaxHandshake -> [status |-> "error", used |-> 0]
          [] Len(bytes) <= MaxHandshake /\ ends = {} -> [status |-> "incomplete", used |-> 0]
          [] OTHER -> [status |-> IF bytes[first][1] = "upgrade" THEN "ok" ELSE "error",
                       used |-> first]
-----------------------------------------------------------------------------
(***************************************************************************)
(* What a peer sends, said of all its units at once and with no loop: the  *)
(* ends of the packets, or of the frames, are given.                       *)
(***************************************************************************)

\* No packet begins after i bytes, or not all of it is there.
EndOfPackets(bytes, i) ==
    Len(bytes) - i < HeaderSize \/ BadSize(bytes[i + 1][3]) \/ ~Whole(bytes, i)

\* The packets begin at cut[0], and each ends where the next begins.
PacketsAt(bytes, packets, cut) ==
    /\ cut[0] = 0
    /\ \A k \in 1..Len(packets) :
          /\ ~EndOfPackets(bytes, cut[k - 1])
          /\ cut[k] = cut[k - 1] + bytes[cut[k - 1] + 1][3]
          /\ packets[k] = SubSeq(bytes, cut[k - 1] + 1, cut[k])
    /\ EndOfPackets(bytes, cut[Len(packets)])

Carries(bytes, packets) ==
    \E cut \in [0..Len(packets) -> 0..Len(bytes)] : PacketsAt(bytes, packets, cut)

\* No frame that is let in begins after i units, or not all of it is there.
EndOfFrames(units, i) ==
    \/ i = Len(units) \/ ~IsFrame(units[i + 1]) \/ ~FrameWhole(units, i)
    \/ units[i + 1][1] \in {"Text", "Close"}

Carried(u) == IF u[1] \in {"Binary", "Continuation"} THEN u[3] ELSE 0

\* The last count frames end at at[k], and what they carry of body at pay[k].
FramesAt(units, body, count, at, pay) ==
    /\ pay[0] = 0
    /\ \A k \in 1..count :
          LET u == units[at[k - 1] + 1] IN
          /\ ~EndOfFrames(units, at[k - 1])
          /\ at[k] = at[k - 1] + 1 + u[3] /\ pay[k] = pay[k - 1] + Carried(u)
          /\ SubSeq(body, pay[k - 1] + 1, pay[k]) = SubSeq(units, at[k] - Carried(u) + 1, at[k])
    /\ EndOfFrames(units, at[count]) /\ pay[count] = Len(body)

\* The request that ends after i units is the first, and an upgrade.
Upgrades(units, i) ==
    units[i][1] = "upgrade" /\ \A j \in 1 .. i - 1 : units[j][1] \notin {"upgrade", "refused"}

\* The frames after an upgrade carry body.  Without one nothing is carried.
Wraps(units, body) ==
    \/ body = <<>> /\ \A i \in 1..Len(units) : ~Upgrades(units, i)
    \/ \E i, count \in 0..Len(units) :
          \E at \in [0..count -> i..Len(units)], pay \in [0..count -> 0..Len(body)] :
             i # 0 /\ Upgrades(units, i) /\ at[0] = i /\ FramesAt(units, body, count, at, pay)
=============================================================================
