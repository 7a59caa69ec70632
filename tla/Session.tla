------------------------------ MODULE Session ------------------------------
(***************************************************************************)
(* One accepted TCP connection: Session, its RecvBuffer and PacketSession, *)
(* from the moment AcceptEx has completed.                                 *)
(*                                                                         *)
(* Any worker may call Send or Disconnect; the completion port hands each  *)
(* completed operation to a worker, so that three more threads may be in   *)
(* ProcessSend, ProcessRecv and ProcessDisconnect.  A step is one access   *)
(* to what they share: an atomic, a section under _lock, or a call into    *)
(* the kernel.  The receive buffer belongs to the one receive that is in   *)
(* flight, and OnRecv is one step.                                         *)
(***************************************************************************)
EXTENDS Framing, FiniteSets

CONSTANTS
    Sender,         \* workers that call Send and Disconnect
    Streams,        \* what the peer may send: [web, units, body, packets]
    BufferSize,     \* kRecvBufferSize
    BufferCount,    \* kBufferCount
    MaxSends        \* bound: packets the senders send

Capacity == BufferSize * BufferCount

ASSUME SessionAssumption ==
    /\ {"send", "recv", "disconnect"} \cap Sender = {}
    /\ BufferSize \in Nat \ {0} /\ BufferCount \in Nat \ {0} /\ MaxSends \in Nat

\* A stream says what packets are in it.  There may be bytes after them that are
\* none, and a browser's are in the payload of its frames.
ASSUME StreamsAssumption ==
    \A s \in Streams :
        /\ s.web \in BOOLEAN /\ s.units \in Seq(Unit) /\ s.body \in Seq(Unit)
        /\ s.packets \in Seq(Seq(Unit)) /\ Carries(s.body, s.packets)
        /\ IF s.web THEN Wraps(s.units, s.body) ELSE s.body = s.units

\* What may have to wait for more of it fits the receive buffer: 640 KiB, where a
\* packet has 16, a frame 64 and a request 8.
ASSUME BufferAssumption ==
    MaxPacketSize <= Capacity /\ MaxFramePayload < Capacity /\ MaxHandshake < Capacity

Op == {"send", "recv", "disconnect"}
Actor == Sender \cup Op

VARIABLES
    connected,      \* _connected
    kept,           \* the session is in Service::_sessions
    sendQueue,      \* _sendQueue
    sendRegistered, \* _sendRegistered
    sendBuffers,    \* _sendEvent.sendBuffers
    socket,         \* "open", "disconnecting" or "closed"
    inFlight,       \* operations the kernel has not completed
    pc,             \* where each thread is
    taken,          \* how many buffers were pushed to _sendQueue, which number them
    delivered,      \* those the kernel has sent
    ended,          \* calls of OnDisconnected
    stream,         \* _webSocket and what the peer sends
    received,       \* how many units of it have arrived
    data,           \* RecvBuffer: the unread units
    readPos,        \* RecvBuffer: _readPos
    handshakeDone,  \* _handshakeDone
    payload,        \* _webSocketPayload
    handled,        \* packets given to OnRecvPacket
    owed,           \* upgrade responses and pongs OnRecv has yet to send
    after           \* what ProcessRecv does then

sendVars == <<sendQueue, sendRegistered, sendBuffers, taken, delivered>>
recvVars == <<stream, received, data, readPos, handshakeDone, payload, handled>>
replyVars == <<owed, after>>
vars == <<connected, kept, socket, inFlight, pc, ended, replyVars, sendVars, recvVars>>

PC == {"accept", "add", "idle", "enqueue", "register", "collect", "post", "failed", "sent",
       "reply", "rearm", "listen", "disconnect", "teardown", "closing", "close"}

TypeOK ==
    /\ connected \in BOOLEAN /\ kept \in BOOLEAN /\ sendRegistered \in BOOLEAN
    /\ taken \in Nat
    /\ sendQueue \in Seq(1..taken) /\ sendBuffers \in Seq(1..taken)
    /\ delivered \in Seq(1..taken)
    /\ socket \in {"open", "disconnecting", "closed"}
    /\ inFlight \subseteq Op
    /\ pc \in [Actor -> PC]
    /\ ended \in 0..1
    /\ received \in 0..Len(stream.units)
    /\ readPos \in Nat /\ readPos + Len(data) <= BufferSize * BufferCount
    /\ handshakeDone \in BOOLEAN
    /\ owed \in Nat /\ after \in {"idle", "rearm", "disconnect"}

\* A worker is about to call ProcessAccepted, from ProcessAccept.
Init ==
    /\ connected = FALSE /\ kept = FALSE /\ socket = "open" /\ inFlight = {}
    /\ pc = [a \in Actor |-> IF a = "recv" THEN "accept" ELSE "idle"]
    /\ ended = 0
    /\ sendQueue = <<>> /\ sendRegistered = FALSE /\ sendBuffers = <<>>
    /\ taken = 0 /\ delivered = <<>>
    /\ stream \in Streams /\ received = 0
    /\ data = <<>> /\ readPos = 0 /\ handshakeDone = FALSE /\ payload = <<>>
    /\ handled = <<>> /\ owed = 0 /\ after = "idle"

Goes(a, to) == pc' = [pc EXCEPT ![a] = to]

\* Where a thread goes on when Send or Disconnect returns.
Back(a) == CASE a # "recv" -> "idle"
             [] a = "recv" /\ owed # 0 -> "reply"
             [] a = "recv" /\ owed = 0 -> after
-----------------------------------------------------------------------------
(***************************************************************************)
(* ProcessAccepted                                                         *)
(***************************************************************************)
GoLive ==
    /\ pc["recv"] = "accept"
    /\ connected' = TRUE
    /\ Goes("recv", "add")
    /\ UNCHANGED <<kept, socket, inFlight, ended, replyVars, sendVars, recvVars>>

\* Service::AddSession, and OnConnected
AddSession ==
    /\ pc["recv"] = "add"
    /\ kept' = TRUE
    /\ Goes("recv", "rearm")
    /\ UNCHANGED <<connected, socket, inFlight, ended, replyVars, sendVars, recvVars>>

\* Nobody else can find the session before that.
Known == pc["recv"] \notin {"accept", "add"}
-----------------------------------------------------------------------------
(***************************************************************************)
(* Send and RegisterSend                                                   *)
(***************************************************************************)
Sending == {t \in Sender : pc[t] = "enqueue"}

\* Send; the first test of _connected.  Nobody knows of a browser before its
\* handshake.
Send(t) ==
    /\ pc[t] = "idle" /\ connected /\ Known
    /\ taken + Cardinality(Sending) < MaxSends
    /\ stream.web => handshakeDone
    /\ Goes(t, "enqueue")
    /\ UNCHANGED <<connected, kept, socket, inFlight, ended, replyVars, sendVars, recvVars>>

\* SendRaw, called by OnRecv; the first test of _connected
SendRaw ==
    /\ pc["recv"] = "reply"
    /\ owed' = owed - 1
    /\ Goes("recv", CASE connected -> "enqueue"
                      [] ~connected /\ owed # 1 -> "reply"
                      [] OTHER -> after)
    /\ UNCHANGED <<connected, kept, socket, inFlight, ended, after, sendVars, recvVars>>

\* The section of Send and SendRaw under _lock
Enqueue(a) ==
    /\ pc[a] = "enqueue"
    /\ taken' = taken + 1 /\ sendQueue' = Append(sendQueue, taken + 1)
    /\ sendRegistered' = TRUE
    /\ Goes(a, IF ~sendRegistered THEN "register" ELSE Back(a))
    /\ UNCHANGED <<connected, kept, socket, inFlight, ended, replyVars, sendBuffers, delivered,
                   recvVars>>

\* RegisterSend; the test of _connected.  The flag stays: nothing is sent any more.
RegisterSend(a) ==
    /\ pc[a] = "register"
    /\ Goes(a, IF connected THEN "collect" ELSE Back(a))
    /\ UNCHANGED <<connected, kept, socket, inFlight, ended, replyVars, sendVars, recvVars>>

\* The section under _lock.  There is something to send, or nothing to post.
Collect(a) ==
    /\ pc[a] = "collect"
    /\ sendBuffers' = sendBuffers \o sendQueue /\ sendQueue' = <<>>
    /\ sendRegistered' = (sendBuffers' # <<>>)
    /\ Goes(a, IF sendBuffers' # <<>> THEN "post" ELSE Back(a))
    /\ UNCHANGED <<connected, kept, socket, inFlight, ended, replyVars, taken, delivered, recvVars>>

WSASend(a) ==
    /\ pc[a] = "post" /\ socket = "open"
    /\ inFlight' = inFlight \cup {"send"}
    /\ Goes(a, Back(a))
    /\ UNCHANGED <<connected, kept, socket, ended, replyVars, sendVars, recvVars>>

WSASendFails(a) ==
    /\ pc[a] = "post"
    /\ sendBuffers' = <<>>
    /\ Goes(a, "failed")
    /\ UNCHANGED <<connected, kept, socket, inFlight, ended, replyVars,
                   sendQueue, sendRegistered, taken, delivered, recvVars>>

GiveUp(a) ==
    /\ pc[a] = "failed"
    /\ sendRegistered' = FALSE
    /\ Goes(a, "disconnect")
    /\ UNCHANGED <<connected, kept, socket, inFlight, ended, replyVars,
                   sendQueue, sendBuffers, taken, delivered, recvVars>>
-----------------------------------------------------------------------------
(***************************************************************************)
(* Disconnect, RegisterDisconnect and ProcessDisconnect                    *)
(***************************************************************************)
CallDisconnect(t) ==
    /\ pc[t] = "idle" /\ connected /\ Known
    /\ Goes(t, "disconnect")
    /\ UNCHANGED <<connected, kept, socket, inFlight, ended, replyVars, sendVars, recvVars>>

FirstCaller == connected

\* The first caller wins.  A caller in OnRecv has nothing left to do: SendRaw and
\* RegisterRecv return when the session is not connected.
Disconnect(a) ==
    /\ pc[a] = "disconnect"
    /\ connected' = FALSE
    /\ after' = IF a = "recv" THEN "idle" ELSE after
    /\ owed' = IF a = "recv" THEN 0 ELSE owed
    /\ Goes(a, IF FirstCaller THEN "teardown" ELSE "idle")
    /\ UNCHANGED <<kept, socket, inFlight, ended, sendVars, recvVars>>

RegisterDisconnect(a) ==
    /\ pc[a] = "teardown"
    /\ \/ /\ inFlight' = inFlight \cup {"disconnect"} /\ socket' = "disconnecting"
          /\ Goes(a, Back(a))
       \/ /\ Goes(a, "closing")
          /\ UNCHANGED <<socket, inFlight>>
    /\ UNCHANGED <<connected, kept, ended, replyVars, sendVars, recvVars>>

\* OnDisconnected and ReleaseSession
OnDisconnected(a) ==
    /\ pc[a] = "closing"
    /\ ended' = ended + 1 /\ kept' = FALSE
    /\ Goes(a, "close")
    /\ UNCHANGED <<connected, socket, inFlight, replyVars, sendVars, recvVars>>

\* Wrong: ProcessDisconnect leaves the handle as it is.
LeftOpen == socket

Closed == "closed"

CloseSocket(a) ==
    /\ pc[a] = "close"
    /\ socket' = Closed
    /\ Goes(a, Back(a))
    /\ UNCHANGED <<connected, kept, inFlight, ended, replyVars, sendVars, recvVars>>

DisconnectCompletes ==
    /\ "disconnect" \in inFlight /\ pc["disconnect"] = "idle"
    /\ inFlight' = inFlight \ {"disconnect"}
    /\ Goes("disconnect", "closing")
    /\ UNCHANGED <<connected, kept, socket, ended, replyVars, sendVars, recvVars>>
-----------------------------------------------------------------------------
(***************************************************************************)
(* ProcessSend                                                             *)
(***************************************************************************)

\* Wrong: the buffers of a send that is over stay in the event.
KeepBatch == sendBuffers

DropBatch == <<>>

\* The kernel is done with the batch, and ProcessSend lets go of it.
SendCompletes ==
    /\ "send" \in inFlight /\ pc["send"] = "idle"
    /\ inFlight' = inFlight \ {"send"}
    /\ delivered' = delivered \o sendBuffers
    /\ sendBuffers' = DropBatch
    /\ Goes("send", IF connected THEN "sent" ELSE "idle")
    /\ UNCHANGED <<connected, kept, socket, ended, replyVars, sendQueue, sendRegistered, taken,
                   recvVars>>

\* A broken connection completes it with no byte sent.
SendAborted ==
    /\ "send" \in inFlight /\ pc["send"] = "idle"
    /\ inFlight' = inFlight \ {"send"}
    /\ sendBuffers' = DropBatch
    /\ Goes("send", "disconnect")
    /\ UNCHANGED <<connected, kept, socket, ended, replyVars, sendQueue, sendRegistered, taken,
                   delivered, recvVars>>

\* Wrong: the flag is cleared though the queue has filled meanwhile.
QueueIgnored == TRUE

QueueDrained == sendQueue = <<>>

\* The section of ProcessSend under _lock
SendAgain ==
    /\ pc["send"] = "sent"
    /\ IF QueueDrained
       THEN sendRegistered' = FALSE /\ Goes("send", "idle")
       ELSE Goes("send", "register") /\ UNCHANGED sendRegistered
    /\ UNCHANGED <<connected, kept, socket, inFlight, ended, replyVars,
                   sendQueue, sendBuffers, taken, delivered, recvVars>>
-----------------------------------------------------------------------------
(***************************************************************************)
(* ProcessRecv and RegisterRecv                                            *)
(***************************************************************************)
FreeSize == Capacity - readPos - Len(data)

\* RecvBuffer::Clean: where the unread bytes begin
Clean(pos, unread) ==
    IF unread = <<>> \/ Capacity - pos - Len(unread) < BufferSize THEN 0 ELSE pos

\* Wrong: what is left of a packet is dropped with those handed on.
KeepNothing(bytes, used) == <<>>

Keep(bytes, used) == SubSeq(bytes, used + 1, Len(bytes))

\* What OnRecv returns and leaves behind
Framed(used, upgraded, rest, packets, replies, then) ==
    [used |-> used, upgraded |-> upgraded, rest |-> rest, packets |-> packets,
     replies |-> replies, then |-> then]

RawRecv(bytes) ==
    LET f == FramePackets(bytes)
    IN  Framed(f.used, FALSE, <<>>, f.packets, 0, IF f.bad THEN "violation" ELSE "rearm")

WebFrames(bytes, i) ==
    LET u == Unwrap(bytes, i)
        body == payload \o u.body
        f == FramePackets(body)
        replies == u.pongs + (IF handshakeDone THEN 0 ELSE 1)
    IN  CASE u.end = "error" -> Framed(0, TRUE, body, <<>>, replies, "violation")
          [] u.end = "close" -> Framed(u.used, TRUE, body, <<>>, replies, "close")
          [] u.end = "more" /\ f.bad -> Framed(0, TRUE, body, f.packets, replies, "violation")
          [] u.end = "more" /\ ~f.bad ->
                 Framed(u.used, TRUE, Keep(body, f.used), f.packets, replies, "rearm")

WebRecv(bytes) ==
    LET shake == IF handshakeDone THEN [status |-> "ok", used |-> 0] ELSE TryHandshake(bytes)
    IN  CASE shake.status = "incomplete" -> Framed(0, FALSE, <<>>, <<>>, 0, "rearm")
          [] shake.status = "error" -> Framed(0, FALSE, <<>>, <<>>, 0, "violation")
          [] shake.status = "ok" -> WebFrames(bytes, shake.used)

OnRecv(bytes) == IF stream.web THEN WebRecv(bytes) ELSE RawRecv(bytes)

\* RecvBuffer::OnWrite: what there is to read when n units have arrived
Written(n) == data \o SubSeq(stream.units, received + 1, received + n)

\* n units have arrived.  On a violation the buffer stays as it is.
ProcessRecv(n) ==
    /\ "recv" \in inFlight /\ pc["recv"] = "idle"
    /\ n <= FreeSize /\ received + n <= Len(stream.units)
    /\ inFlight' = inFlight \ {"recv"}
    /\ received' = received + n
    /\ IF ~connected
       THEN UNCHANGED <<pc, data, readPos, handshakeDone, payload, handled, replyVars>>
       ELSE LET bytes == Written(n)
                r == OnRecv(bytes)
                unread == Keep(bytes, r.used)
                then == IF r.then = "rearm" THEN "rearm" ELSE "disconnect"
            IN  /\ handled' = handled \o r.packets
                /\ handshakeDone' = (handshakeDone \/ r.upgraded)
                /\ payload' = r.rest
                /\ IF r.then = "violation"
                   THEN data' = bytes /\ readPos' = readPos
                   ELSE data' = unread /\ readPos' = Clean(readPos + r.used, unread)
                /\ owed' = r.replies /\ after' = then
                /\ Goes("recv", IF r.replies # 0 THEN "reply" ELSE then)
    /\ UNCHANGED <<connected, kept, socket, ended, stream, sendVars>>

\* The peer has closed the connection, or the socket is gone.
RecvAborted ==
    /\ "recv" \in inFlight /\ pc["recv"] = "idle"
    /\ inFlight' = inFlight \ {"recv"}
    /\ Goes("recv", "disconnect")
    /\ UNCHANGED <<connected, kept, socket, ended, replyVars, sendVars, recvVars>>

RegisterRecv ==
    /\ pc["recv"] = "rearm"
    /\ Goes("recv", CASE ~connected -> "idle"
                      [] connected /\ FreeSize = 0 -> "disconnect"
                      [] OTHER -> "listen")
    /\ UNCHANGED <<connected, kept, socket, inFlight, ended, replyVars, sendVars, recvVars>>

WSARecv ==
    /\ pc["recv"] = "listen"
    /\ \/ /\ socket = "open"
          /\ inFlight' = inFlight \cup {"recv"}
          /\ Goes("recv", "idle")
       \/ Goes("recv", "disconnect") /\ UNCHANGED inFlight
    /\ UNCHANGED <<connected, kept, socket, ended, replyVars, sendVars, recvVars>>
-----------------------------------------------------------------------------
ThreadStep(a) ==
    \/ Enqueue(a) \/ RegisterSend(a) \/ Collect(a) \/ WSASend(a) \/ WSASendFails(a)
    \/ GiveUp(a) \/ Disconnect(a) \/ RegisterDisconnect(a) \/ OnDisconnected(a)
    \/ CloseSocket(a)

Receiving == GoLive \/ AddSession \/ SendRaw \/ RegisterRecv \/ WSARecv

Next ==
    \/ \E t \in Sender : Send(t) \/ CallDisconnect(t)
    \/ \E a \in Actor : ThreadStep(a)
    \/ Receiving
    \/ SendCompletes \/ SendAborted \/ SendAgain
    \/ \E n \in 1..Len(stream.units) : ProcessRecv(n)
    \/ RecvAborted
    \/ DisconnectCompletes

\* Workers go on with what they have begun; the kernel completes a disconnect,
\* and when the socket is closed the operations that are left.  No behaviour
\* goes on for ever, so one condition is as good as one for each thread.
Fairness == WF_vars(\/ \E a \in Actor : ThreadStep(a)
                    \/ Receiving \/ SendAgain \/ DisconnectCompletes
                    \/ socket = "closed" /\ (SendAborted \/ RecvAborted))

Spec == Init /\ [][Next]_vars /\ Fairness
-----------------------------------------------------------------------------
\* Who may touch _sendEvent: a thread from the test that won _sendRegistered to
\* the end of WSASend or ProcessSend, or the send in flight.
HoldsSend(a) == pc[a] \in {"register", "collect", "post", "sent"}
Holders == {a \in Actor : HoldsSend(a)}
               \cup (IF "send" \in inFlight THEN {"in flight"} ELSE {})

\* The send event and its buffers are never used by two threads at once, or by
\* one while the kernel still reads them; and while the session is connected and
\* nobody is about to end it, what is queued has somebody to send it: the
\* hand-over between Send's exchange and ProcessSend's section leaves nothing
\* behind (Session.cpp:65-74, 389-402).
OneSend ==
    /\ Cardinality(Holders) <= 1
    /\ connected /\ sendQueue # <<>> /\ Holders = {} =>
           \E a \in Actor : pc[a] \in {"failed", "disconnect"}

\* However the peer's bytes are cut up by the network, by frames or by the end of
\* the receive buffer, OnRecvPacket is given the peer's packets, each whole, once
\* and in order; when the next receive is posted no packet that has arrived is
\* held back; and there is always room for that receive (Session.cpp:430-537).
HandledAsSent ==
    /\ IsPrefix(handled, stream.packets)
    /\ "recv" \in inFlight /\ connected /\ received = Len(stream.units) =>
           handled = stream.packets
    /\ pc["recv"] = "rearm" => FreeSize > 0

Live == connected \/ ~Known

\* What Send takes goes out in the order it was taken, nothing twice, and a batch
\* that is lost is the end of the connection (Session.cpp:53-79, 243-287).
SentPipe == INSTANCE Pipe WITH
                passed <- taken - Len(sendQueue) - Len(sendBuffers), open <- Live
PipeSpec == SentPipe!Spec

\* Once the session is disconnected OnDisconnected has run once, the service has let go of
\* it, the socket is closed and the kernel holds no operation, so nothing keeps the
\* session alive: closing the socket is what makes it so (Session.cpp:335-338,
\* Session.h:20-23).
Released ==
    ~Live ~> [](/\ ended = 1 /\ ~kept /\ socket = "closed" /\ inFlight = {}
                /\ \A a \in Actor : pc[a] = "idle")
=============================================================================
