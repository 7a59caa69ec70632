--------------------------- MODULE SessionProofs ---------------------------
(***************************************************************************)
(* For any senders, any stream and any sizes of the receive buffer that    *)
(* the code allows, and however often calls into the kernel fail: the send *)
(* event of a session is one thread's or the kernel's, what Send takes     *)
(* goes out as Pipe promises, OnRecvPacket is given what the peer has      *)
(* sent, and OnDisconnected is run at most once.                           *)
(*                                                                         *)
(* The module has three parts: sending, what the loops of Framing return,  *)
(* and receiving, which rests on both.                                     *)
(***************************************************************************)
EXTENDS Session, FiniteSetTheorems, SequenceTheorems, WellFoundedInduction, TLAPS

(***************************************************************************)
(* Sending: the inductive invariant                                        *)
(***************************************************************************)

\* The types that sending needs.
Typed ==
    /\ connected \in BOOLEAN /\ sendRegistered \in BOOLEAN
    /\ taken \in Nat
    /\ sendQueue \in Seq(Nat) /\ sendBuffers \in Seq(Nat) /\ delivered \in Seq(Nat)
    /\ inFlight \in SUBSET Op
    /\ pc \in [Actor -> PC]
    /\ after \in {"idle", "rearm", "disconnect"}

\* Until the session is in the service only the thread that accepted it acts,
\* and it is connected from GoLive on.
Fresh ==
    /\ ~Known => inFlight = {} /\ \A a \in Actor \ {"recv"} : pc[a] = "idle"
    /\ ~Known => sendQueue = <<>> /\ ~sendRegistered
    /\ pc["recv"] = "add" => connected

\* Whoever has won _sendRegistered and may still clear it.
HoldsFlag(a) == HoldsSend(a) \/ pc[a] = "failed"

\* The flag has one holder: a thread, or the send in flight.
OneHolder ==
    /\ \A a \in Actor : HoldsFlag(a) =>
          /\ sendRegistered /\ "send" \notin inFlight
          /\ \A b \in Actor : HoldsFlag(b) => b = a
    /\ "send" \in inFlight => sendRegistered

\* A connected session whose flag is set or whose queue is not empty has a
\* holder, or is about to be disconnected.
Attended ==
    connected /\ (sendRegistered \/ sendQueue # <<>>) =>
        \/ "send" \in inFlight
        \/ \E a \in Actor : HoldsFlag(a) \/ pc[a] = "disconnect"

\* How much of what was taken is neither waiting nor in the event.
Passed == taken - Len(sendQueue) - Len(sendBuffers)

\* What waits is what was taken last, and what is in the event what came before.
Numbered ==
    /\ Passed \in Nat
    /\ \A i \in DOMAIN sendBuffers : sendBuffers[i] = Passed + i
    /\ \A i \in DOMAIN sendQueue : sendQueue[i] = Passed + Len(sendBuffers) + i

\* The kernel sends in the order in which Send took, each thing once.
InOrder ==
    /\ \A i, k \in DOMAIN delivered : i < k => delivered[i] < delivered[k]
    /\ \A i \in DOMAIN delivered : delivered[i] <= Passed

SInv == Typed /\ Fresh /\ OneHolder /\ Attended /\ Numbered /\ InOrder

\* When a call returns its thread is where it holds nothing.
LEMMA BackHoldsNothing ==
    ASSUME Typed, NEW a \in Actor
    PROVE  Back(a) \in {"idle", "reply", "rearm", "disconnect"}
BY DEF Typed, Back

\* An accepted connection starts with nothing to send and only its thread acting.
LEMMA InitSInv == Init => SInv
<1> SUFFICES ASSUME Init PROVE SInv
  OBVIOUS
<1> USE DEF Init
<1>1. "recv" \in Actor /\ pc \in [Actor -> PC]
  BY DEF Actor, Op, PC
<1>2. Typed
  <2>1. <<>> \in Seq(Nat) /\ {} \in SUBSET Op
    OBVIOUS
  <2> QED
    BY <1>1, <2>1 DEF Typed
<1>3. Fresh /\ OneHolder /\ Attended
  BY <1>1 DEF Fresh, Known, OneHolder, Attended, HoldsFlag, HoldsSend
<1>4. Numbered /\ InOrder
  BY DEF Numbered, InOrder, Passed
<1> QED
  BY <1>2, <1>3, <1>4 DEF SInv

\* A session that is known stays known.
LEMMA StaysKnown ==
    ASSUME Typed, Known, NEW a \in Actor, NEW x \in PC \ {"accept", "add"},
           pc' = [pc EXCEPT ![a] = x]
    PROVE  Known' /\ Fresh'
BY DEF Typed, Known, Fresh, Actor, Op

\* A thread that has nothing to do with sending goes from one step to the next.
LEMMA PlainMove ==
    ASSUME SInv, Known, NEW a \in Actor, NEW x \in PC \ {"accept", "add"}, Goes(a, x),
           ~HoldsFlag(a), pc[a] # "disconnect",
           x \notin {"register", "collect", "post", "sent", "failed"},
           UNCHANGED <<connected, sendVars>>,
           inFlight' \in SUBSET Op, "send" \in inFlight' <=> "send" \in inFlight,
           after' \in {"idle", "rearm", "disconnect"}
    PROVE  SInv'
<1> USE DEF SInv, sendVars
<1>1. pc \in [Actor -> PC] /\ pc' = [pc EXCEPT ![a] = x]
  BY DEF Typed, Goes
<1>2. Typed'
  BY <1>1 DEF Typed
<1>3. Fresh'
  BY <1>1, StaysKnown
<1>4. \A b \in Actor : HoldsFlag(b)' <=> HoldsFlag(b)
  BY <1>1 DEF HoldsFlag, HoldsSend
<1>5. OneHolder'
  BY <1>4 DEF OneHolder
<1>6. \A b \in Actor : pc[b] = "disconnect" => pc'[b] = "disconnect"
  BY <1>1
<1>7. Attended'
  BY <1>4, <1>6 DEF Attended
<1>8. Numbered' /\ InOrder'
  BY DEF Numbered, InOrder, Passed
<1> QED
  BY <1>2, <1>3, <1>5, <1>7, <1>8

\* The steps that neither send nor change whether the session is connected.
LEMMA PlainSteps ==
    ASSUME SInv,
           \/ \E a \in Actor : RegisterDisconnect(a) \/ OnDisconnected(a) \/ CloseSocket(a)
           \/ \E t \in Sender : Send(t) \/ CallDisconnect(t)
           \/ SendRaw \/ RegisterRecv \/ WSARecv \/ RecvAborted \/ DisconnectCompletes
           \/ \E n \in 1..Len(stream.units) : ProcessRecv(n)
    PROVE  SInv'
<1> USE DEF SInv
<1>1. pc \in [Actor -> PC] /\ inFlight \in SUBSET Op /\ connected \in BOOLEAN
      /\ after \in {"idle", "rearm", "disconnect"}
  BY DEF Typed
<1>2. "recv" \in Actor /\ "disconnect" \in Actor /\ Sender \subseteq Actor
  BY DEF Actor, Op
<1>3. ASSUME NEW a \in Actor, RegisterDisconnect(a) \/ OnDisconnected(a) \/ CloseSocket(a)
      PROVE  SInv'
  <2>1. PICK x \in {"closing", "close", Back(a)} : Goes(a, x)
    BY <1>3 DEF RegisterDisconnect, OnDisconnected, CloseSocket
  <2>2. x \in {"closing", "close", "idle", "reply", "rearm", "disconnect"}
    BY <2>1, BackHoldsNothing
  <2>3. pc[a] \in {"teardown", "closing", "close"}
    BY <1>3 DEF RegisterDisconnect, OnDisconnected, CloseSocket
  <2>4. Known
    BY <2>3 DEF Fresh, Known
  <2>5. /\ UNCHANGED <<connected, sendVars>> /\ after' = after
        /\ inFlight' \in {inFlight, inFlight \cup {"disconnect"}}
    BY <1>3 DEF RegisterDisconnect, OnDisconnected, CloseSocket, replyVars
  <2>6. inFlight' \in SUBSET Op /\ ("send" \in inFlight' <=> "send" \in inFlight)
    BY <1>1, <2>5 DEF Op
  <2> QED
    BY <1>1, <2>1, <2>2, <2>3, <2>4, <2>5, <2>6, PlainMove DEF HoldsFlag, HoldsSend, PC
<1>4. ASSUME NEW t \in Sender, Send(t) \/ CallDisconnect(t) PROVE SInv'
  <2>1. PICK x \in {"enqueue", "disconnect"} : Goes(t, x)
    BY <1>4 DEF Send, CallDisconnect
  <2>2. t \in Actor /\ pc[t] = "idle" /\ Known /\ UNCHANGED <<connected, sendVars, inFlight, after>>
    BY <1>2, <1>4 DEF Send, CallDisconnect, replyVars
  <2> QED
    BY <1>1, <2>1, <2>2, PlainMove DEF HoldsFlag, HoldsSend, PC
<1>5. CASE SendRaw
  <2>1. PICK x \in {"enqueue", "reply", after} : Goes("recv", x)
    BY <1>5 DEF SendRaw
  <2>2. pc["recv"] = "reply" /\ Known /\ UNCHANGED <<connected, sendVars, inFlight, after>>
    BY <1>5 DEF SendRaw, Known
  <2> QED
    BY <1>1, <1>2, <2>1, <2>2, PlainMove DEF HoldsFlag, HoldsSend, PC
<1>6. CASE RegisterRecv
  <2>1. PICK x \in {"idle", "disconnect", "listen"} : Goes("recv", x)
    BY <1>6 DEF RegisterRecv
  <2>2. pc["recv"] = "rearm" /\ Known /\ UNCHANGED <<connected, sendVars, inFlight, after>>
    BY <1>6 DEF RegisterRecv, Known, replyVars
  <2> QED
    BY <1>1, <1>2, <2>1, <2>2, PlainMove DEF HoldsFlag, HoldsSend, PC
<1>7. CASE WSARecv
  <2>1. PICK x \in {"idle", "disconnect"} : Goes("recv", x)
    BY <1>7 DEF WSARecv
  <2>2. /\ pc["recv"] = "listen" /\ Known /\ UNCHANGED <<connected, sendVars, after>>
        /\ inFlight' \in {inFlight, inFlight \cup {"recv"}}
    BY <1>7 DEF WSARecv, Known, replyVars
  <2>3. inFlight' \in SUBSET Op /\ ("send" \in inFlight' <=> "send" \in inFlight)
    BY <1>1, <2>2 DEF Op
  <2> QED
    BY <1>1, <1>2, <2>1, <2>2, <2>3, PlainMove DEF HoldsFlag, HoldsSend, PC
<1>8. CASE RecvAborted
  <2>1. /\ Goes("recv", "disconnect") /\ UNCHANGED <<connected, sendVars, after>>
        /\ inFlight' = inFlight \ {"recv"} /\ pc["recv"] = "idle" /\ Known
    BY <1>8 DEF RecvAborted, replyVars, Known
  <2>2. inFlight' \in SUBSET Op /\ ("send" \in inFlight' <=> "send" \in inFlight)
    BY <1>1, <2>1 DEF Op
  <2> QED
    BY <1>1, <1>2, <2>1, <2>2, PlainMove DEF HoldsFlag, HoldsSend, PC
<1>9. CASE DisconnectCompletes
  <2>1. /\ Goes("disconnect", "closing") /\ UNCHANGED <<connected, sendVars, after>>
        /\ inFlight' = inFlight \ {"disconnect"} /\ pc["disconnect"] = "idle" /\ Known
    BY <1>9 DEF DisconnectCompletes, replyVars, Fresh
  <2>2. inFlight' \in SUBSET Op /\ ("send" \in inFlight' <=> "send" \in inFlight)
    BY <1>1, <2>1 DEF Op
  <2> QED
    BY <1>1, <1>2, <2>1, <2>2, PlainMove DEF HoldsFlag, HoldsSend, PC
<1>10. ASSUME NEW n \in 1..Len(stream.units), ProcessRecv(n) PROVE SInv'
  <2>1. /\ UNCHANGED <<connected, sendVars>>
        /\ inFlight' = inFlight \ {"recv"} /\ pc["recv"] = "idle" /\ Known
    BY <1>10 DEF ProcessRecv, Known
  <2>2. PICK x \in {"idle", "reply", "rearm", "disconnect"} :
           Goes("recv", x) /\ after' \in {"idle", "rearm", "disconnect"}
    <3>1. CASE ~connected
      <4>1. pc' = [pc EXCEPT !["recv"] = "idle"] /\ after' = after
        BY <1>1, <1>2, <1>10, <2>1, <3>1 DEF ProcessRecv, replyVars
      <4> QED
        BY <1>1, <4>1 DEF Goes
    <3>2. CASE connected
      <4>1. PICK bytes : bytes = Written(n)
        OBVIOUS
      <4>2. PICK r : r = OnRecv(bytes)
        OBVIOUS
      <4>3. PICK then \in {"rearm", "disconnect"} :
               then = IF r.then = "rearm" THEN "rearm" ELSE "disconnect"
        OBVIOUS
      <4>4. after' = then /\ Goes("recv", IF r.replies # 0 THEN "reply" ELSE then)
        BY <1>10, <3>2, <4>1, <4>2, <4>3 DEF ProcessRecv
      <4> QED
        BY <4>3, <4>4
    <3> QED
      BY <1>1, <3>1, <3>2
  <2>3. inFlight' \in SUBSET Op /\ ("send" \in inFlight' <=> "send" \in inFlight)
    BY <1>1, <2>1 DEF Op
  <2> QED
    BY <1>1, <1>2, <2>1, <2>2, <2>3, PlainMove DEF HoldsFlag, HoldsSend, PC
<1> QED
  BY <1>3, <1>4, <1>5, <1>6, <1>7, <1>8, <1>9, <1>10

\* The session becomes known, connected and with nothing yet to send.
LEMMA AcceptedSteps ==
    ASSUME SInv, GoLive \/ AddSession
    PROVE  SInv'
<1> USE DEF SInv
<1>1. /\ ~Known /\ "recv" \in Actor
      /\ UNCHANGED <<sendVars, inFlight, after>> /\ connected' = TRUE
      /\ \/ pc' = [pc EXCEPT !["recv"] = "add"]
         \/ pc' = [pc EXCEPT !["recv"] = "rearm"]
  BY DEF GoLive, AddSession, Goes, Known, Actor, Op, replyVars, Fresh
<1>2. Typed'
  <2>1. pc' \in [Actor -> PC]
    BY <1>1 DEF Typed, PC
  <2> QED
    BY <1>1, <2>1 DEF Typed, sendVars
<1>3. \A a \in Actor : a # "recv" => pc'[a] = "idle"
  BY <1>1 DEF Fresh, Typed
<1>4. pc'["recv"] \in {"add", "rearm"}
  BY <1>1 DEF Typed
<1>5. Fresh' /\ OneHolder' /\ Attended'
  BY <1>1, <1>3, <1>4 DEF Fresh, Known, OneHolder, Attended, HoldsFlag, HoldsSend, sendVars
<1>6. Numbered' /\ InOrder'
  BY <1>1 DEF Numbered, InOrder, Passed, sendVars
<1> QED
  BY <1>2, <1>5, <1>6

\* The first disconnection, and the later ones, which find it done.
LEMMA DisconnectSInv ==
    ASSUME SInv, NEW a \in Actor, Disconnect(a)
    PROVE  SInv'
<1> USE DEF SInv
<1>1. PICK x \in {"teardown", "idle"} : pc' = [pc EXCEPT ![a] = x]
  BY DEF Disconnect, Goes
<1>2. /\ pc[a] = "disconnect" /\ Known
      /\ UNCHANGED <<sendVars, inFlight>> /\ connected' = FALSE
      /\ after' \in {"idle", "rearm", "disconnect"}
  BY DEF Disconnect, Fresh, Typed, Known
<1>3. Typed' /\ Fresh'
  <2>1. x \in PC \ {"accept", "add"}
    BY DEF PC
  <2>2. pc' \in [Actor -> PC]
    BY <1>1, <2>1 DEF Typed
  <2> QED
    BY <1>1, <1>2, <2>1, <2>2, StaysKnown DEF Typed, sendVars
<1>4. \A b \in Actor : HoldsFlag(b)' <=> HoldsFlag(b)
  BY <1>1, <1>2 DEF HoldsFlag, HoldsSend, Typed
<1>5. OneHolder' /\ Attended'
  BY <1>2, <1>4 DEF OneHolder, Attended, sendVars
<1>6. Numbered' /\ InOrder'
  BY <1>2 DEF Numbered, InOrder, Passed, sendVars
<1> QED
  BY <1>3, <1>5, <1>6

\* What is pushed takes the next number; the thread becomes the holder of the
\* flag only if it was not set.
LEMMA EnqueueSInv ==
    ASSUME SInv, NEW a \in Actor, Enqueue(a)
    PROVE  SInv'
<1> USE DEF SInv
<1>1. PICK x \in {"register", "idle", "reply", "rearm", "disconnect"} :
         /\ pc' = [pc EXCEPT ![a] = x]
         /\ ~sendRegistered <=> x = "register"
  <2>1. Back(a) \in {"idle", "reply", "rearm", "disconnect"}
    BY BackHoldsNothing
  <2>2. pc' = [pc EXCEPT ![a] = IF ~sendRegistered THEN "register" ELSE Back(a)]
    BY DEF Enqueue, Goes
  <2> QED
    BY <2>1, <2>2
<1>2. /\ pc[a] = "enqueue" /\ Known
      /\ taken' = taken + 1 /\ sendQueue' = Append(sendQueue, taken + 1) /\ sendRegistered' = TRUE
      /\ UNCHANGED <<connected, inFlight, after, sendBuffers, delivered>>
  BY DEF Enqueue, Fresh, Known, replyVars
<1>3. Typed' /\ Fresh'
  <2>1. x \in PC \ {"accept", "add"}
    BY DEF PC
  <2>2. pc' \in [Actor -> PC]
    BY <1>1, <2>1 DEF Typed
  <2>3. taken' \in Nat /\ sendQueue' \in Seq(Nat)
    BY <1>2 DEF Typed
  <2> QED
    BY <1>1, <1>2, <2>1, <2>2, <2>3, StaysKnown DEF Typed
<1>4. \A b \in Actor : HoldsFlag(b)' <=> HoldsFlag(b) \/ (b = a /\ ~sendRegistered)
  BY <1>1, <1>2 DEF HoldsFlag, HoldsSend, Typed
<1>5. OneHolder'
  BY <1>2, <1>4 DEF OneHolder
<1>6. Attended'
  <2>1. CASE ~sendRegistered
    BY <1>4, <2>1 DEF Attended
  <2>2. CASE sendRegistered
    <3>1. \A b \in Actor : pc[b] = "disconnect" => pc'[b] = "disconnect"
      BY <1>1, <1>2 DEF Typed
    <3> QED
      BY <1>2, <1>4, <2>2, <3>1 DEF Attended
  <2> QED
    BY <2>1, <2>2
<1>7. /\ Len(sendQueue') = Len(sendQueue) + 1 /\ Passed' = Passed
      /\ \A i \in DOMAIN sendQueue' :
            sendQueue'[i] = IF i = Len(sendQueue) + 1 THEN taken + 1 ELSE sendQueue[i]
      /\ \A i \in DOMAIN sendQueue' : i = Len(sendQueue) + 1 \/ i \in DOMAIN sendQueue
  BY <1>2 DEF Typed, Passed
<1>8. Numbered'
  <2>1. taken + 1 = Passed + Len(sendBuffers) + (Len(sendQueue) + 1)
    BY DEF Passed, Typed
  <2> QED
    BY <1>2, <1>7, <2>1 DEF Numbered
<1>9. InOrder'
  BY <1>2, <1>7 DEF InOrder
<1> QED
  BY <1>3, <1>5, <1>6, <1>8, <1>9

\* The holder goes on, or ends a session that is disconnected.
LEMMA RegisterSendSInv ==
    ASSUME SInv, NEW a \in Actor, RegisterSend(a)
    PROVE  SInv'
<1> USE DEF SInv
<1>1. PICK x \in {"collect", "idle", "reply", "rearm", "disconnect"} :
         pc' = [pc EXCEPT ![a] = x] /\ (connected => x = "collect")
  <2>1. Back(a) \in {"idle", "reply", "rearm", "disconnect"}
    BY BackHoldsNothing
  <2>2. pc' = [pc EXCEPT ![a] = IF connected THEN "collect" ELSE Back(a)]
    BY DEF RegisterSend, Goes
  <2> QED
    BY <2>1, <2>2
<1>2. /\ pc[a] = "register" /\ Known
      /\ UNCHANGED <<connected, inFlight, after, sendVars>>
  BY DEF RegisterSend, Fresh, Known, replyVars
<1>3. Typed' /\ Fresh'
  <2>1. x \in PC \ {"accept", "add"}
    BY DEF PC
  <2>2. pc' \in [Actor -> PC]
    BY <1>1, <2>1 DEF Typed
  <2> QED
    BY <1>1, <1>2, <2>1, <2>2, StaysKnown DEF Typed, sendVars
<1>4. \A b \in Actor : HoldsFlag(b)' => HoldsFlag(b)
  BY <1>1, <1>2 DEF HoldsFlag, HoldsSend, Typed
<1>5. connected => HoldsFlag(a)'
  BY <1>1 DEF HoldsFlag, HoldsSend, Typed
<1>6. OneHolder' /\ Attended'
  BY <1>2, <1>4, <1>5 DEF OneHolder, Attended, sendVars
<1>7. Numbered' /\ InOrder'
  BY <1>2 DEF Numbered, InOrder, Passed, sendVars
<1> QED
  BY <1>3, <1>6, <1>7

\* What waits goes behind what is in the event, in the order of its numbers.
LEMMA CollectSInv ==
    ASSUME SInv, NEW a \in Actor, Collect(a)
    PROVE  SInv' /\ Passed' = Passed
<1> USE DEF SInv
<1>1. PICK x \in {"post", "idle", "reply", "rearm", "disconnect"} :
         pc' = [pc EXCEPT ![a] = x] /\ (sendBuffers' # <<>> <=> x = "post")
  <2>1. Back(a) \in {"idle", "reply", "rearm", "disconnect"}
    BY BackHoldsNothing
  <2>2. pc' = [pc EXCEPT ![a] = IF sendBuffers' # <<>> THEN "post" ELSE Back(a)]
    BY DEF Collect, Goes
  <2> QED
    BY <2>1, <2>2
<1>2. /\ pc[a] = "collect" /\ Known /\ HoldsFlag(a)
      /\ sendBuffers' = sendBuffers \o sendQueue /\ sendQueue' = <<>>
      /\ sendRegistered' = (sendBuffers' # <<>>)
      /\ UNCHANGED <<connected, inFlight, after, taken, delivered>>
  BY DEF Collect, Fresh, Known, replyVars, HoldsFlag, HoldsSend
<1>3. Typed' /\ Fresh'
  <2>1. x \in PC \ {"accept", "add"}
    BY DEF PC
  <2>2. pc' \in [Actor -> PC]
    BY <1>1, <2>1 DEF Typed
  <2>3. sendBuffers' \in Seq(Nat) /\ sendQueue' \in Seq(Nat) /\ sendRegistered' \in BOOLEAN
    BY <1>2 DEF Typed
  <2> QED
    BY <1>1, <1>2, <2>1, <2>2, <2>3, StaysKnown DEF Typed
<1>4. \A b \in Actor : HoldsFlag(b)' <=> b = a /\ sendRegistered'
  BY <1>1, <1>2 DEF HoldsFlag, HoldsSend, Typed, OneHolder
<1>5. OneHolder' /\ Attended'
  BY <1>2, <1>4 DEF OneHolder, Attended
<1>6. /\ Len(sendBuffers') = Len(sendBuffers) + Len(sendQueue) /\ Len(sendQueue') = 0
      /\ Passed' = Passed
      /\ \A i \in DOMAIN sendBuffers' :
            /\ i \in Nat
            /\ \/ i \in DOMAIN sendBuffers /\ sendBuffers'[i] = sendBuffers[i]
               \/ /\ i - Len(sendBuffers) \in DOMAIN sendQueue
                  /\ sendBuffers'[i] = sendQueue[i - Len(sendBuffers)]
  BY <1>2 DEF Typed, Passed
<1>7. Numbered'
  <2>1. Passed \in Nat /\ Len(sendBuffers) \in Nat
    BY DEF Numbered, Typed
  <2>2. ASSUME NEW i \in DOMAIN sendBuffers' PROVE sendBuffers'[i] = Passed + i
    <3>1. CASE i \in DOMAIN sendBuffers /\ sendBuffers'[i] = sendBuffers[i]
      BY <3>1 DEF Numbered
    <3>2. CASE /\ i - Len(sendBuffers) \in DOMAIN sendQueue
               /\ sendBuffers'[i] = sendQueue[i - Len(sendBuffers)]
      <4>1. sendBuffers'[i] = Passed + Len(sendBuffers) + (i - Len(sendBuffers)) /\ i \in Nat
        BY <1>6, <3>2 DEF Numbered
      <4> QED
        BY <2>1, <4>1
    <3> QED
      BY <1>6, <3>1, <3>2
  <2> QED
    BY <1>2, <1>6, <2>1, <2>2 DEF Numbered
<1>8. InOrder'
  BY <1>2, <1>6 DEF InOrder
<1> QED
  BY <1>3, <1>5, <1>6, <1>7, <1>8

\* The kernel takes the event over from the thread that posts it.
LEMMA WSASendSInv ==
    ASSUME SInv, NEW a \in Actor, WSASend(a)
    PROVE  SInv'
<1> USE DEF SInv
<1>1. PICK x \in {"idle", "reply", "rearm", "disconnect"} : pc' = [pc EXCEPT ![a] = x]
  BY BackHoldsNothing DEF WSASend, Goes
<1>2. /\ pc[a] = "post" /\ Known /\ HoldsFlag(a)
      /\ inFlight' = inFlight \cup {"send"}
      /\ UNCHANGED <<connected, after, sendVars>>
  BY DEF WSASend, Fresh, Known, replyVars, HoldsFlag, HoldsSend
<1>3. Typed' /\ Fresh'
  <2>1. x \in PC \ {"accept", "add"}
    BY DEF PC
  <2>2. pc' \in [Actor -> PC] /\ inFlight' \in SUBSET Op
    BY <1>1, <1>2, <2>1 DEF Typed, Op
  <2> QED
    BY <1>1, <1>2, <2>1, <2>2, StaysKnown DEF Typed, sendVars
<1>4. \A b \in Actor : ~HoldsFlag(b)'
  BY <1>1, <1>2 DEF HoldsFlag, HoldsSend, Typed, OneHolder
<1>5. OneHolder' /\ Attended'
  BY <1>2, <1>4 DEF OneHolder, Attended, sendVars
<1>6. Numbered' /\ InOrder'
  BY <1>2 DEF Numbered, InOrder, Passed, sendVars
<1> QED
  BY <1>3, <1>5, <1>6

\* What empties the event passes over what was in it, and no more.
LEMMA EmptiedNumbers ==
    ASSUME SInv, sendBuffers' = <<>>, UNCHANGED <<taken, sendQueue>>
    PROVE  /\ Numbered'
           /\ Passed' = Passed + Len(sendBuffers) /\ Passed' <= taken /\ Passed' \in Nat
<1> USE DEF SInv
<1>1. /\ Len(sendBuffers') = 0 /\ Len(sendBuffers) \in Nat /\ Len(sendQueue) \in Nat
      /\ taken \in Nat /\ Passed \in Nat
  BY DEF Typed, Numbered
<1>2. Passed' = Passed + Len(sendBuffers)
  BY <1>1 DEF Passed
<1>3. Passed' <= taken /\ Passed' \in Nat
  BY <1>1, <1>2 DEF Passed
<1>4. \A i \in DOMAIN sendQueue : i \in Nat
  BY DEF Typed
<1>5. Numbered'
  BY <1>1, <1>2, <1>3, <1>4 DEF Numbered
<1> QED
  BY <1>2, <1>3, <1>5

\* A call that fails keeps the flag until the thread gives up.
LEMMA WSASendFailsSInv ==
    ASSUME SInv, NEW a \in Actor, WSASendFails(a)
    PROVE  SInv'
<1> USE DEF SInv
<1>1. /\ pc' = [pc EXCEPT ![a] = "failed"] /\ pc[a] = "post" /\ Known
      /\ sendBuffers' = <<>>
      /\ UNCHANGED <<connected, inFlight, after, sendQueue, sendRegistered, taken, delivered>>
  BY DEF WSASendFails, Goes, Fresh, Known, replyVars
<1>2. Typed' /\ Fresh'
  <2>1. "failed" \in PC \ {"accept", "add"}
    BY DEF PC
  <2>2. pc' \in [Actor -> PC] /\ sendBuffers' \in Seq(Nat)
    BY <1>1, <2>1 DEF Typed
  <2> QED
    BY <1>1, <2>1, <2>2, StaysKnown DEF Typed
<1>3. \A b \in Actor : HoldsFlag(b)' <=> HoldsFlag(b)
  BY <1>1 DEF HoldsFlag, HoldsSend, Typed
<1>4. OneHolder'
  BY <1>1, <1>3 DEF OneHolder
<1>5. Attended'
  BY <1>1, <1>3 DEF Attended, HoldsFlag, HoldsSend
<1>6. Numbered' /\ InOrder'
  <2>1. Numbered' /\ Passed' = Passed + Len(sendBuffers) /\ Passed' \in Nat
    BY <1>1, EmptiedNumbers
  <2>2. /\ Passed \in Nat /\ Len(sendBuffers) \in Nat
        /\ \A i \in DOMAIN delivered : delivered[i] \in Nat
    BY DEF Typed, Numbered
  <2> QED
    BY <1>1, <2>1, <2>2 DEF InOrder
<1> QED
  BY <1>2, <1>4, <1>5, <1>6

\* The flag is given up by a thread that disconnects next.
LEMMA GiveUpSInv ==
    ASSUME SInv, NEW a \in Actor, GiveUp(a)
    PROVE  SInv'
<1> USE DEF SInv
<1>1. /\ pc' = [pc EXCEPT ![a] = "disconnect"] /\ pc[a] = "failed" /\ HoldsFlag(a) /\ Known
      /\ sendRegistered' = FALSE
      /\ UNCHANGED <<connected, inFlight, after, sendQueue, sendBuffers, taken, delivered>>
  BY DEF GiveUp, Goes, Fresh, Known, replyVars, HoldsFlag
<1>2. Typed' /\ Fresh'
  <2>1. "disconnect" \in PC \ {"accept", "add"}
    BY DEF PC
  <2>2. pc' \in [Actor -> PC]
    BY <1>1, <2>1 DEF Typed
  <2> QED
    BY <1>1, <2>1, <2>2, StaysKnown DEF Typed
<1>3. pc'[a] = "disconnect" /\ \A b \in Actor : ~HoldsFlag(b)'
  BY <1>1 DEF HoldsFlag, HoldsSend, Typed, OneHolder
<1>4. OneHolder' /\ Attended'
  BY <1>1, <1>3 DEF OneHolder, Attended
<1>5. Numbered' /\ InOrder'
  BY <1>1 DEF Numbered, InOrder, Passed
<1> QED
  BY <1>2, <1>4, <1>5

\* The kernel hands the event to the thread that completes the send: the batch
\* was taken after all that was delivered before.
LEMMA SendCompletesSInv ==
    ASSUME SInv, SendCompletes
    PROVE  SInv'
<1> USE DEF SInv
<1>1. PICK x \in {"sent", "idle"} :
         pc' = [pc EXCEPT !["send"] = x] /\ (connected <=> x = "sent")
  BY DEF SendCompletes, Goes
<1>2. /\ pc["send"] = "idle" /\ "send" \in inFlight /\ Known /\ "send" \in Actor
      /\ inFlight' = inFlight \ {"send"}
      /\ delivered' = delivered \o sendBuffers /\ sendBuffers' = <<>>
      /\ UNCHANGED <<connected, after, sendQueue, sendRegistered, taken>>
  BY DEF SendCompletes, Fresh, replyVars, DropBatch, Actor, Op
<1>3. Typed' /\ Fresh'
  <2>1. x \in PC \ {"accept", "add"}
    BY DEF PC
  <2>2. /\ pc' \in [Actor -> PC] /\ inFlight' \in SUBSET Op
        /\ delivered' \in Seq(Nat) /\ sendBuffers' \in Seq(Nat)
    BY <1>1, <1>2, <2>1 DEF Typed
  <2> QED
    BY <1>1, <1>2, <2>1, <2>2, StaysKnown DEF Typed
<1>4. \A b \in Actor : HoldsFlag(b)' <=> b = "send" /\ connected
  BY <1>1, <1>2 DEF HoldsFlag, HoldsSend, Typed, OneHolder
<1>5. OneHolder' /\ Attended'
  BY <1>2, <1>4 DEF OneHolder, Attended
<1>6. /\ Numbered'
      /\ Passed' = Passed + Len(sendBuffers) /\ Passed \in Nat /\ Len(sendBuffers) \in Nat
  BY <1>2, EmptiedNumbers DEF Typed, Numbered
<1>7. \A i \in DOMAIN delivered' :
         /\ i \in Nat
         /\ \/ i \in DOMAIN delivered /\ delivered'[i] = delivered[i] /\ i <= Len(delivered)
            \/ /\ i > Len(delivered) /\ i - Len(delivered) \in DOMAIN sendBuffers
               /\ delivered'[i] = sendBuffers[i - Len(delivered)]
  BY <1>2 DEF Typed
<1>8. InOrder'
  <2>1. /\ Len(delivered) \in Nat /\ \A i \in DOMAIN delivered : delivered[i] \in Nat
        /\ \A i \in DOMAIN sendBuffers : i \in 1..Len(sendBuffers)
    BY DEF Typed
  <2>2. \A i \in DOMAIN delivered' : i <= Len(delivered) => delivered'[i] <= Passed
    BY <1>7, <2>1 DEF InOrder
  <2>3. \A i \in DOMAIN delivered' : i > Len(delivered) =>
           /\ delivered'[i] = Passed + (i - Len(delivered))
           /\ i - Len(delivered) <= Len(sendBuffers)
    BY <1>7, <2>1 DEF Numbered
  <2>4. \A i \in DOMAIN delivered' : delivered'[i] <= Passed' /\ delivered'[i] \in Nat
    <3> SUFFICES ASSUME NEW i \in DOMAIN delivered'
                 PROVE  delivered'[i] <= Passed' /\ delivered'[i] \in Nat
      OBVIOUS
    <3>1. CASE i <= Len(delivered)
      BY <1>6, <1>7, <2>1, <2>2, <3>1
    <3>2. CASE i > Len(delivered)
      BY <1>6, <1>7, <2>1, <2>3, <3>2
    <3> QED
      BY <1>7, <2>1, <3>1, <3>2
  <2>5. ASSUME NEW i \in DOMAIN delivered', NEW k \in DOMAIN delivered', i < k
        PROVE  delivered'[i] < delivered'[k]
    <3>1. CASE k <= Len(delivered)
      BY <1>7, <2>1, <2>5, <3>1 DEF InOrder
    <3>2. CASE k > Len(delivered) /\ i <= Len(delivered)
      BY <1>6, <1>7, <2>1, <2>2, <2>3, <2>4, <3>2
    <3>3. CASE k > Len(delivered) /\ i > Len(delivered)
      BY <1>6, <1>7, <2>1, <2>3, <2>5, <3>3
    <3> QED
      BY <1>7, <2>1, <3>1, <3>2, <3>3
  <2> QED
    BY <2>4, <2>5 DEF InOrder
<1> QED
  BY <1>3, <1>5, <1>6, <1>8

\* A send that is aborted leaves a thread that disconnects.
LEMMA SendAbortedSInv ==
    ASSUME SInv, SendAborted
    PROVE  SInv'
<1> USE DEF SInv
<1>1. /\ pc' = [pc EXCEPT !["send"] = "disconnect"] /\ pc["send"] = "idle"
      /\ "send" \in inFlight /\ Known /\ "send" \in Actor
      /\ inFlight' = inFlight \ {"send"} /\ sendBuffers' = <<>>
      /\ UNCHANGED <<connected, after, sendQueue, sendRegistered, taken, delivered>>
  BY DEF SendAborted, Goes, Fresh, replyVars, DropBatch, Actor, Op
<1>2. Typed' /\ Fresh'
  <2>1. "disconnect" \in PC \ {"accept", "add"}
    BY DEF PC
  <2>2. pc' \in [Actor -> PC] /\ inFlight' \in SUBSET Op /\ sendBuffers' \in Seq(Nat)
    BY <1>1, <2>1 DEF Typed
  <2> QED
    BY <1>1, <2>1, <2>2, StaysKnown DEF Typed
<1>3. pc'["send"] = "disconnect" /\ \A b \in Actor : ~HoldsFlag(b)'
  BY <1>1 DEF HoldsFlag, HoldsSend, Typed, OneHolder
<1>4. OneHolder' /\ Attended'
  BY <1>1, <1>3 DEF OneHolder, Attended
<1>5. Numbered' /\ InOrder'
  <2>1. Numbered' /\ Passed' = Passed + Len(sendBuffers) /\ Passed' \in Nat
    BY <1>1, EmptiedNumbers
  <2>2. /\ Passed \in Nat /\ Len(sendBuffers) \in Nat
        /\ \A i \in DOMAIN delivered : delivered[i] \in Nat
    BY DEF Typed, Numbered
  <2> QED
    BY <1>1, <2>1, <2>2 DEF InOrder
<1> QED
  BY <1>2, <1>4, <1>5

\* The flag is cleared only when nothing has been pushed meanwhile.
LEMMA SendAgainSInv ==
    ASSUME SInv, SendAgain
    PROVE  SInv'
<1> USE DEF SInv
<1>1. PICK x \in {"register", "idle"} :
         /\ pc' = [pc EXCEPT !["send"] = x]
         /\ x = "idle" => sendQueue = <<>> /\ sendRegistered' = FALSE
         /\ x = "register" => sendRegistered' = sendRegistered
  BY DEF SendAgain, Goes, QueueDrained
<1>2. /\ pc["send"] = "sent" /\ "send" \in Actor /\ HoldsFlag("send") /\ Known
      /\ UNCHANGED <<connected, inFlight, after, sendQueue, sendBuffers, taken, delivered>>
  BY DEF SendAgain, Fresh, replyVars, Actor, Op, HoldsFlag, HoldsSend
<1>3. Typed' /\ Fresh'
  <2>1. x \in PC \ {"accept", "add"}
    BY DEF PC
  <2>2. pc' \in [Actor -> PC] /\ sendRegistered' \in BOOLEAN
    BY <1>1, <2>1 DEF Typed
  <2> QED
    BY <1>1, <1>2, <2>1, <2>2, StaysKnown DEF Typed
<1>4. \A b \in Actor : HoldsFlag(b)' <=> b = "send" /\ x = "register"
  BY <1>1, <1>2 DEF HoldsFlag, HoldsSend, Typed, OneHolder
<1>5. OneHolder' /\ Attended'
  BY <1>1, <1>2, <1>4 DEF OneHolder, Attended
<1>6. Numbered' /\ InOrder'
  BY <1>2 DEF Numbered, InOrder, Passed
<1> QED
  BY <1>3, <1>5, <1>6

(***************************************************************************)
(* Sending: the theorems                                                   *)
(***************************************************************************)

\* Every step of the session keeps the invariant.
LEMMA SessionInductive == SInv /\ [Next]_vars => SInv'
<1> SUFFICES ASSUME SInv, [Next]_vars PROVE SInv'
  OBVIOUS
<1>1. CASE UNCHANGED vars
  BY <1>1 DEF vars, replyVars, sendVars, SInv, Typed, Fresh, Known, OneHolder, Attended, HoldsFlag,
              HoldsSend, Numbered, InOrder, Passed
<1>2. ASSUME NEW t \in Sender, Send(t) \/ CallDisconnect(t) PROVE SInv'
  BY <1>2, PlainSteps
<1>3. ASSUME NEW a \in Actor, ThreadStep(a) PROVE SInv'
  BY <1>3, EnqueueSInv, RegisterSendSInv, CollectSInv, WSASendSInv, WSASendFailsSInv, GiveUpSInv,
     DisconnectSInv, PlainSteps DEF ThreadStep
<1>4. CASE Receiving
  BY <1>4, AcceptedSteps, PlainSteps DEF Receiving
<1>5. CASE SendCompletes \/ SendAborted \/ SendAgain
  BY <1>5, SendCompletesSInv, SendAbortedSInv, SendAgainSInv
<1>6. ASSUME NEW n \in 1..Len(stream.units), ProcessRecv(n) PROVE SInv'
  BY <1>6, PlainSteps
<1>7. CASE RecvAborted \/ DisconnectCompletes
  BY <1>7, PlainSteps
<1> QED
  BY <1>1, <1>2, <1>3, <1>4, <1>5, <1>6, <1>7 DEF Next

\* Every reachable state of a session satisfies the invariant.
THEOREM SessionInvariant == Spec => []SInv
BY InitSInv, SessionInductive, PTL DEF Spec

\* The send event is one thread's or the kernel's, and what is queued on a live
\* session has somebody to send it (Session.cpp:65-74, 389-402).
THEOREM SendHasOneHolder == Spec => []OneSend
<1>1. ASSUME SInv PROVE OneSend
  <2>1. \/ Holders = {}
        \/ \E x : Holders = {x}
    <3>1. \A a \in Actor : HoldsSend(a) =>
             "send" \notin inFlight /\ \A b \in Actor : HoldsSend(b) => b = a
      BY <1>1 DEF SInv, OneHolder, HoldsFlag
    <3>2. CASE "send" \in inFlight
      BY <3>1, <3>2 DEF Holders
    <3>3. CASE "send" \notin inFlight
      BY <3>1, <3>3 DEF Holders
    <3> QED
      BY <3>2, <3>3
  <2>2. Cardinality(Holders) <= 1
    <3>1. CASE Holders = {}
      BY <3>1, FS_EmptySet
    <3>2. ASSUME NEW x, Holders = {x} PROVE Cardinality(Holders) <= 1
      <4>1. Cardinality(Holders) = 1
        BY <3>2, FS_Singleton
      <4> QED
        BY <4>1
    <3> QED
      BY <2>1, <3>1, <3>2
  <2>3. connected /\ sendQueue # <<>> /\ Holders = {} =>
           \E a \in Actor : pc[a] \in {"failed", "disconnect"}
    BY <1>1 DEF SInv, Attended, Holders, HoldsFlag
  <2> QED
    BY <2>2, <2>3 DEF OneSend
<1> QED
  BY <1>1, SessionInvariant, PTL

\* Nothing is sent twice or before what was taken earlier (Session.cpp:53-79, 243-287).
THEOREM SentInOrder == Spec => []InOrder
<1>1. SInv => InOrder
  BY DEF SInv
<1> QED
  BY <1>1, SessionInvariant, PTL

\* Only the thread that accepted a session acts on one that is not known, and
\* nothing makes it unknown again.
LEMMA KnownSteps ==
    ASSUME SInv, Next, ~GoLive, ~AddSession
    PROVE  Known /\ Known'
<1> USE DEF SInv
<1>1. "recv" \in Actor /\ "send" \in Actor /\ "disconnect" \in Actor /\ Sender \subseteq Actor
  BY DEF Actor, Op
<1> SUFFICES ASSUME NEW a \in Actor, NEW x \in PC \ {"accept", "add"},
                    pc' = [pc EXCEPT ![a] = x], Known
             PROVE  Known /\ Known'
  <2>1. ASSUME NEW b \in Actor, ThreadStep(b)
        PROVE  /\ \E x \in PC \ {"accept", "add"} : pc' = [pc EXCEPT ![b] = x]
               /\ Known
    <3>1. Back(b) \in PC \ {"accept", "add"}
      BY BackHoldsNothing DEF PC
    <3>2. \E x \in PC \ {"accept", "add"} : pc' = [pc EXCEPT ![b] = x]
      <4>1. CASE Enqueue(b) \/ RegisterSend(b) \/ Collect(b) \/ WSASend(b)
        BY <3>1, <4>1 DEF Enqueue, RegisterSend, Collect, WSASend, Goes, PC
      <4>2. CASE WSASendFails(b) \/ GiveUp(b) \/ Disconnect(b)
        BY <4>2 DEF WSASendFails, GiveUp, Disconnect, Goes, PC
      <4>3. CASE RegisterDisconnect(b) \/ OnDisconnected(b) \/ CloseSocket(b)
        BY <3>1, <4>3 DEF RegisterDisconnect, OnDisconnected, CloseSocket, Goes, PC
      <4> QED
        BY <2>1, <4>1, <4>2, <4>3 DEF ThreadStep
    <3>3. pc[b] \notin {"accept", "add", "idle"}
      BY <2>1 DEF ThreadStep, Enqueue, RegisterSend, Collect, WSASend, WSASendFails, GiveUp,
                  Disconnect, RegisterDisconnect, OnDisconnected, CloseSocket
    <3> QED
      BY <3>2, <3>3 DEF Fresh, Known
  <2>2. ASSUME NEW t \in Sender, Send(t) \/ CallDisconnect(t)
        PROVE  (\E x \in PC \ {"accept", "add"} : pc' = [pc EXCEPT ![t] = x]) /\ Known
    BY <2>2 DEF Send, CallDisconnect, Goes, PC
  <2>3. ASSUME SendRaw \/ RegisterRecv \/ WSARecv
        PROVE  (\E x \in PC \ {"accept", "add"} : pc' = [pc EXCEPT !["recv"] = x]) /\ Known
    <3>1. after \in PC \ {"accept", "add"}
      BY DEF Typed, PC
    <3> QED
      BY <2>3, <3>1 DEF SendRaw, RegisterRecv, WSARecv, Goes, PC, Known
  <2>4. ASSUME SendCompletes \/ SendAborted \/ SendAgain
        PROVE  (\E x \in PC \ {"accept", "add"} : pc' = [pc EXCEPT !["send"] = x]) /\ Known
    BY <1>1, <2>4 DEF SendCompletes, SendAborted, SendAgain, Goes, PC, Fresh
  <2>5. ASSUME NEW n \in 1..Len(stream.units), ProcessRecv(n)
        PROVE  pc["recv"] = "idle" /\ (pc' = pc \/ \E y \in PC \ {"accept", "add"} :
                                                     pc' = [pc EXCEPT !["recv"] = y])
    <3>1. CASE ~connected
      BY <2>5, <3>1 DEF ProcessRecv
    <3>2. CASE connected
      <4>1. PICK r : r = OnRecv(Written(n))
        OBVIOUS
      <4>2. PICK then \in {"rearm", "disconnect"} :
               then = IF r.then = "rearm" THEN "rearm" ELSE "disconnect"
        OBVIOUS
      <4>3. pc' = [pc EXCEPT !["recv"] = IF r.replies # 0 THEN "reply" ELSE then]
        BY <2>5, <3>2, <4>1, <4>2 DEF ProcessRecv, Goes
      <4> QED
        BY <2>5, <4>2, <4>3 DEF ProcessRecv, PC
    <3> QED
      BY <3>1, <3>2
  <2>6. ASSUME RecvAborted \/ DisconnectCompletes
        PROVE  /\ \E b \in Actor : \E x \in PC \ {"accept", "add"} : pc' = [pc EXCEPT ![b] = x]
               /\ Known
    BY <1>1, <2>6 DEF RecvAborted, DisconnectCompletes, Goes, PC, Known, Fresh
  <2> QED
    BY <1>1, <2>1, <2>2, <2>3, <2>4, <2>5, <2>6 DEF Next, Receiving, Known
<1> QED
  BY StaysKnown

\* Initially nothing has been taken and the session is open, though not known.
LEMMA InitMaps == Init => SentPipe!Init
<1> SUFFICES ASSUME Init PROVE SentPipe!Init
  OBVIOUS
<1>1. pc["recv"] = "accept"
  BY DEF Init, Actor, Op
<1>2. Live = TRUE
  BY <1>1 DEF Live, Known
<1>3. taken = 0 /\ Len(sendQueue) = 0 /\ Len(sendBuffers) = 0 /\ delivered = <<>>
  BY DEF Init
<1> QED
  BY <1>2, <1>3 DEF SentPipe!Init

\* A step of the session is a step of Pipe, or none.
LEMMA StepMaps ==
    ASSUME SInv, SInv', [Next]_vars
    PROVE  [SentPipe!Next]_(SentPipe!vars)
<1> USE DEF SInv
<1>1. /\ taken - Len(sendQueue) - Len(sendBuffers) = Passed
      /\ (taken - Len(sendQueue) - Len(sendBuffers))' = Passed'
      /\ Passed \in Nat /\ taken \in Nat /\ Len(sendBuffers) \in Nat
  BY DEF Passed, Numbered, Typed
<1>2. SentPipe!vars = <<taken, Passed, delivered, Live>>
  BY DEF SentPipe!vars, Passed
<1>3. CASE UNCHANGED vars
  BY <1>3 DEF vars, sendVars, SentPipe!vars, Live, Known
<1>4. CASE GoLive \/ AddSession
  <2>1. Live /\ Live' /\ UNCHANGED <<taken, sendQueue, sendBuffers, delivered>>
    BY <1>4 DEF GoLive, AddSession, Live, Known, Fresh, sendVars, Goes, Typed, Actor, Op
  <2> QED
    BY <2>1 DEF SentPipe!vars, Live
<1> SUFFICES ASSUME Next, ~GoLive, ~AddSession
             PROVE  [SentPipe!Next]_(SentPipe!vars)
  BY <1>3, <1>4
<1>5. Live = connected /\ Live' = connected'
  BY KnownSteps DEF Live, Typed
<1>6. CASE \/ UNCHANGED <<connected, taken, sendQueue, sendBuffers, delivered>>
  BY <1>5, <1>6 DEF SentPipe!vars
<1>7. ASSUME NEW a \in Actor, Disconnect(a) PROVE [SentPipe!Next]_(SentPipe!vars)
  <2>1. connected' = FALSE /\ UNCHANGED <<taken, sendQueue, sendBuffers, delivered>>
    BY <1>7 DEF Disconnect, sendVars
  <2>2. CASE connected
    BY <1>5, <2>1, <2>2 DEF SentPipe!Next, SentPipe!Close
  <2>3. CASE ~connected
    BY <1>5, <2>1, <2>3 DEF SentPipe!vars, Typed
  <2> QED
    BY <2>2, <2>3
<1>8. ASSUME NEW a \in Actor, Enqueue(a) PROVE [SentPipe!Next]_(SentPipe!vars)
  <2>1. /\ taken' = taken + 1 /\ Len(sendQueue') = Len(sendQueue) + 1
        /\ UNCHANGED <<connected, sendBuffers, delivered>>
    BY <1>8 DEF Enqueue, Typed
  <2>2. Passed' = Passed
    BY <1>1, <2>1 DEF Passed, Typed
  <2> QED
    BY <1>1, <1>5, <2>1, <2>2 DEF SentPipe!Next, SentPipe!Take
<1>9. ASSUME NEW a \in Actor, Collect(a) PROVE [SentPipe!Next]_(SentPipe!vars)
  <2>1. UNCHANGED <<connected, taken, delivered>>
    BY <1>9 DEF Collect
  <2>2. Passed' = Passed
    BY <1>9, CollectSInv
  <2> QED
    BY <1>1, <1>5, <2>1, <2>2 DEF SentPipe!vars
<1>10. CASE sendBuffers' = <<>> /\ UNCHANGED <<connected, taken, sendQueue>>
            /\ delivered' \in {delivered, delivered \o sendBuffers}
  <2>1. Passed' = Passed + Len(sendBuffers) /\ Passed' <= taken /\ Passed' \in Nat
    BY <1>10, EmptiedNumbers
  <2>2. CASE sendBuffers = <<>>
    <3>1. delivered' = delivered
      BY <1>10, <2>2 DEF Typed
    <3> QED
      BY <1>5, <1>10, <2>2, <3>1 DEF SentPipe!vars
  <2>3. CASE sendBuffers # <<>>
    <3>1. Passed < Passed' /\ Passed' \in 1..taken
      <4>1. Len(sendBuffers) \in Nat /\ Len(sendBuffers) # 0
        BY <2>3 DEF Typed
      <4> QED
        BY <1>1, <2>1, <4>1
    <3>2. CASE delivered' = delivered
      BY <1>1, <1>5, <1>10, <2>1, <3>1, <3>2 DEF SentPipe!Next, SentPipe!Lose
    <3>3. CASE delivered' = delivered \o sendBuffers
      <4>1. sendBuffers = [i \in 1..(Passed' - Passed) |-> Passed + i]
        <5>1. Passed' - Passed = Len(sendBuffers)
          BY <1>1, <2>1
        <5> QED
          <6>1. sendBuffers = [i \in 1..Len(sendBuffers) |-> sendBuffers[i]]
            BY DEF Typed
          <6>2. \A i \in 1..Len(sendBuffers) : sendBuffers[i] = Passed + i
            BY DEF Numbered, Typed
          <6> QED
            BY <5>1, <6>1, <6>2
      <4> QED
        BY <1>1, <1>5, <1>10, <2>1, <3>1, <3>3, <4>1 DEF SentPipe!Next, SentPipe!Deliver
    <3> QED
      BY <1>10, <3>2, <3>3
  <2> QED
    BY <2>2, <2>3
<1>11. ASSUME NEW a \in Actor, ThreadStep(a) PROVE [SentPipe!Next]_(SentPipe!vars)
  <2>1. CASE \/ RegisterSend(a) \/ WSASend(a) \/ GiveUp(a)
             \/ RegisterDisconnect(a) \/ OnDisconnected(a) \/ CloseSocket(a)
    BY <1>6, <2>1
    DEF RegisterSend, WSASend, GiveUp, RegisterDisconnect, OnDisconnected, CloseSocket, sendVars
  <2>2. CASE WSASendFails(a)
    BY <1>10, <2>2 DEF WSASendFails
  <2> QED
    BY <1>7, <1>8, <1>9, <1>11, <2>1, <2>2 DEF ThreadStep
<1>12. CASE SendCompletes \/ SendAborted
  BY <1>10, <1>12 DEF SendCompletes, SendAborted, DropBatch
<1>13. CASE \/ \E t \in Sender : Send(t) \/ CallDisconnect(t)
            \/ SendRaw \/ RegisterRecv \/ WSARecv \/ SendAgain
            \/ \E n \in 1..Len(stream.units) : ProcessRecv(n)
            \/ RecvAborted \/ DisconnectCompletes
  BY <1>6, <1>13
  DEF Send, CallDisconnect, SendRaw, RegisterRecv, WSARecv, SendAgain, ProcessRecv, RecvAborted,
      DisconnectCompletes, sendVars
<1> QED
  BY <1>11, <1>12, <1>13 DEF Next, Receiving

\* Whatever the kernel refuses, aborts or completes, and whoever sends or disconnects
\* meanwhile: what Send takes passes in the order it was taken, as a batch that is
\* delivered or lost as a whole, and a connection that has ended does not come back
\* (Session.cpp:53-79, 243-287).
THEOREM ImplementsPipe == Spec => SentPipe!Init /\ [][SentPipe!Next]_(SentPipe!vars)
BY StepMaps, InitMaps, SessionInvariant, PTL DEF Spec

(***************************************************************************)
(* Framing: induction, windows on sequences, and what the two loops return *)
(***************************************************************************)

\* Induction, on a set in place of a predicate.
LEMMA Induction ==
    ASSUME NEW S, 0 \in S, \A n \in Nat : n \in S => n + 1 \in S
    PROVE  Nat \subseteq S
<1> DEFINE N == Nat \ S
           T == {1..n : n \in N}
<1>1. IsWellFoundedOn(StrictSubsetOrdering(Nat), FiniteSubsetsOf(Nat))
  BY FS_StrictSubsetOrderingWellFounded
<1> SUFFICES ASSUME N # {} PROVE FALSE
  OBVIOUS
<1>2. T \subseteq FiniteSubsetsOf(Nat) /\ T # {}
  <2>1. \A n \in N : 1..n \subseteq Nat /\ IsFiniteSet(1..n)
    BY FS_Interval
  <2> QED  BY <2>1 DEF FiniteSubsetsOf
<1>3. PICK x \in T : \A y \in T : ~ (<<y, x>> \in StrictSubsetOrdering(Nat))
  <2> HIDE DEF T
  <2> QED  BY <1>1, <1>2, WFMin, Zenon
<1>4. PICK m \in N : x = 1..m
  OBVIOUS
<1>5. m \in Nat /\ m # 0 /\ m - 1 \in Nat /\ m - 1 \in N
  OBVIOUS
<1>6. 1 .. m - 1 \in T /\ 1 .. m - 1 \subseteq Nat /\ 1..m \subseteq Nat
  BY <1>5
<1>7. 1 .. m - 1 \subseteq 1..m /\ 1 .. m - 1 # 1..m
  <2>1. m \in 1..m /\ m \notin 1 .. m - 1
    BY <1>5
  <2> QED  BY <1>5, <2>1
<1> HIDE DEF T
<1> QED  BY <1>3, <1>4, <1>6, <1>7 DEF StrictSubsetOrdering

\* The same, down from a number.
LEMMA DownInduction ==
    ASSUME NEW top \in Nat, NEW S, top \in S,
           \A n \in 0 .. top - 1 : n + 1 \in S => n \in S
    PROVE  0..top \subseteq S
<1> DEFINE D == {n \in Nat : n > top \/ top - n \in S}
<1>1. 0 \in D
  OBVIOUS
<1>2. ASSUME NEW n \in Nat, n \in D PROVE n + 1 \in D
  <2>1. CASE n + 1 > top
    BY <2>1
  <2>2. CASE ~(n + 1 > top)
    <3>1. top - (n + 1) \in 0 .. top - 1 /\ (top - (n + 1)) + 1 = top - n
      BY <2>2
    <3>2. top - n \in S
      BY <1>2, <2>2
    <3> QED  BY <3>1, <3>2
  <2> QED  BY <2>1, <2>2
<1> HIDE DEF D
<1>3. Nat \subseteq D
  BY <1>1, <1>2, Induction
<1>4. ASSUME NEW n \in 0..top PROVE n \in S
  <2>1. top - n \in Nat /\ top - (top - n) = n /\ ~(top - n > top)
    OBVIOUS
  <2> QED  BY <1>3, <2>1 DEF D
<1> QED  BY <1>4

-----------------------------------------------------------------------------
\* One turn of the loop of FramePackets, when f has the rest.
FrameStep(bytes, f, i) ==
    LET stop(bad) == [packets |-> <<>>, used |-> i, bad |-> bad]
        size == bytes[i + 1][3]
    IN  IF Len(bytes) - i < HeaderSize THEN stop(FALSE)
        ELSE IF BadSize(size) THEN stop(TRUE)
        ELSE IF ~Whole(bytes, i) THEN stop(FALSE)
        ELSE [f[i + size] EXCEPT !.packets = <<SubSeq(bytes, i + 1, i + size)>> \o @]

\* The function that FramePackets defines by its steps.
FrameLoop(bytes) == CHOOSE f : f = [i \in 0..Len(bytes) |-> FrameStep(bytes, f, i)]

\* A step of it depends on later ones only.
LEMMA FrameStepLooksAhead ==
    ASSUME NEW bytes \in Seq(Unit), NEW i \in 0..Len(bytes), NEW f, NEW g,
           \A j \in i + 1 .. Len(bytes) : f[j] = g[j]
    PROVE  FrameStep(bytes, f, i) = FrameStep(bytes, g, i)
<1>1. CASE \/ Len(bytes) - i < HeaderSize \/ BadSize(bytes[i + 1][3]) \/ ~Whole(bytes, i)
  BY <1>1 DEF FrameStep
<1>2. CASE ~(Len(bytes) - i < HeaderSize \/ BadSize(bytes[i + 1][3]) \/ ~Whole(bytes, i))
  <2>1. i + 1 \in 1..Len(bytes) /\ Len(bytes) \in Nat
    BY <1>2, FramingAssumption, LenProperties
  <2>2. bytes[i + 1][3] \in Nat
    BY <2>1, ElementOfSeq DEF Unit
  <2> DEFINE size == bytes[i + 1][3]
  <2>3. i + size \in i + 1 .. Len(bytes)
    BY <1>2, <2>1, <2>2, FramingAssumption DEF BadSize, Whole
  <2>4. f[i + size] = g[i + size]
    BY <2>3
  <2> QED  BY <1>2, <2>4 DEF FrameStep
<1> QED  BY <1>1, <1>2

\* The recursion of FramePackets ends, so the loop is what its definition says.
LEMMA FrameLoopIs ==
    ASSUME NEW bytes \in Seq(Unit)
    PROVE  /\ FramePackets(bytes) = FrameLoop(bytes)[0]
           /\ \A i \in 0..Len(bytes) : FrameLoop(bytes)[i] = FrameStep(bytes, FrameLoop(bytes), i)
<1> DEFINE N == Len(bytes)
           S == {k \in 0 .. N + 1 : \E g : g = [i \in k..N |-> FrameStep(bytes, g, i)]}
<1>1. N \in Nat
  BY LenProperties
<1>2. N + 1 \in S
  <2> DEFINE g == [i \in N + 1 .. N |-> 0]
  <2>1. N + 1 .. N = {}
    BY <1>1
  <2>2. g = [i \in N + 1 .. N |-> FrameStep(bytes, g, i)]
    BY <2>1
  <2> HIDE DEF g
  <2> QED  BY <1>1, <2>2
<1>3. ASSUME NEW k \in 0 .. N + 1 - 1, k + 1 \in S PROVE k \in S
  <2>1. k \in 0..N
    BY <1>1
  <2>2. PICK g : g = [i \in k + 1 .. N |-> FrameStep(bytes, g, i)]
    BY <1>3
  <2> DEFINE h == [i \in k..N |-> FrameStep(bytes, g, i)]
  <2>3. \A i \in k + 1 .. N : g[i] = h[i]
    <3>1. \A i \in k + 1 .. N : h[i] = FrameStep(bytes, g, i)
      BY <1>1, <2>1
    <3> DEFINE gg == [i \in k + 1 .. N |-> FrameStep(bytes, g, i)]
    <3>2. \A i \in k + 1 .. N : gg[i] = FrameStep(bytes, g, i)
      OBVIOUS
    <3>3. gg = g
      BY <2>2, Zenon
    <3> HIDE DEF gg, h
    <3> QED  BY <3>1, <3>2, <3>3
  <2>4. \A i \in k..N : FrameStep(bytes, g, i) = FrameStep(bytes, h, i)
    <3> TAKE i \in k..N
    <3>1. i \in 0..N /\ \A j \in i + 1 .. N : j \in k + 1 .. N
      BY <1>1, <2>1
    <3>2. \A j \in i + 1 .. N : g[j] = h[j]
      BY <2>3, <3>1
    <3> HIDE DEF h
    <3> QED  BY <3>1, <3>2, FrameStepLooksAhead
  <2>5. h = [i \in k..N |-> FrameStep(bytes, h, i)]
    <3> DEFINE hh == [i \in k..N |-> FrameStep(bytes, h, i)]
    <3>1. hh = [i \in k..N |-> FrameStep(bytes, g, i)]
      <4> HIDE DEF h
      <4> QED  BY <2>4
    <3> QED  BY <3>1, Zenon
  <2> HIDE DEF h
  <2> QED  BY <1>1, <2>1, <2>5
<1>4. 0 \in S
  <2> HIDE DEF S
  <2> QED  BY <1>1, <1>2, <1>3, DownInduction
<1>5. FrameLoop(bytes) = [i \in 0..N |-> FrameStep(bytes, FrameLoop(bytes), i)]
  <2>1. \E g : g = [i \in 0..N |-> FrameStep(bytes, g, i)]
    BY <1>4
  <2> QED  BY <2>1, Zenon DEF FrameLoop
<1>6. \A i \in 0..N : FrameLoop(bytes)[i] = FrameStep(bytes, FrameLoop(bytes), i)
  <2> DEFINE L == FrameLoop(bytes)
             LL == [i \in 0..N |-> FrameStep(bytes, L, i)]
  <2>1. L = LL
    BY <1>5, Zenon
  <2>2. \A i \in 0..N : LL[i] = FrameStep(bytes, L, i)
    OBVIOUS
  <2> HIDE DEF L, LL
  <2>3. \A i \in 0..N : L[i] = FrameStep(bytes, L, i)
    BY <2>1, <2>2
  <2> QED  BY <2>3 DEF L
<1> QED  BY <1>6 DEF FramePackets, FrameLoop, FrameStep

-----------------------------------------------------------------------------
\* A window on a sequence.
LEMMA Window ==
    ASSUME NEW T, NEW s \in Seq(T), NEW a \in 0..Len(s), NEW b \in a..Len(s)
    PROVE  /\ SubSeq(s, a + 1, b) \in Seq(T)
           /\ Len(SubSeq(s, a + 1, b)) = b - a
           /\ \A i \in 1 .. b - a : SubSeq(s, a + 1, b)[i] = s[a + i]
<1>1. Len(s) \in Nat
  BY LenProperties
<1>2. \A i \in a + 1 .. b : s[i] \in T
  BY <1>1, ElementOfSeq
<1>3. a + 1 \in Int /\ b \in Int
  BY <1>1
<1> DEFINE w == SubSeq(s, a + 1, b)
<1>4. /\ w \in Seq(T)
      /\ Len(w) = IF a + 1 <= b THEN b - (a + 1) + 1 ELSE 0
      /\ \A i \in 1 .. b - (a + 1) + 1 : w[i] = s[a + 1 + i - 1]
  BY <1>2, <1>3, SubSeqProperties
<1> HIDE DEF w
<1>5. Len(w) = b - a
  BY <1>1, <1>4
<1>6. ASSUME NEW i \in 1 .. b - a PROVE w[i] = s[a + i]
  <2>1. i \in 1 .. b - (a + 1) + 1 /\ a + 1 + i - 1 = a + i
    BY <1>1
  <2> QED  BY <1>4, <2>1
<1> QED  BY <1>4, <1>5, <1>6 DEF w

\* A window on a window.
LEMMA WindowInWindow ==
    ASSUME NEW T, NEW s \in Seq(T), NEW a \in 0..Len(s), NEW b \in a..Len(s),
           NEW c \in 0 .. b - a, NEW d \in c .. b - a
    PROVE  SubSeq(SubSeq(s, a + 1, b), c + 1, d) = SubSeq(s, a + c + 1, a + d)
<1> DEFINE w == SubSeq(s, a + 1, b)
           v == SubSeq(w, c + 1, d)
           u == SubSeq(s, a + c + 1, a + d)
<1>1. Len(s) \in Nat
  BY LenProperties
<1>2. w \in Seq(T) /\ Len(w) = b - a /\ \A i \in 1 .. b - a : w[i] = s[a + i]
  BY Window
<1> HIDE DEF w
<1>3. c \in 0..Len(w) /\ d \in c..Len(w)
  BY <1>1, <1>2
<1>4. v \in Seq(T) /\ Len(v) = d - c /\ \A i \in 1 .. d - c : v[i] = w[c + i]
  BY <1>2, <1>3, Window
<1> DEFINE e == a + c
           f == a + d
<1>5. e \in 0..Len(s) /\ f \in e..Len(s) /\ f - e = d - c
  BY <1>1
<1>6. u = SubSeq(s, e + 1, f)
  OBVIOUS
<1> HIDE DEF u, v
<1>7. u \in Seq(T) /\ Len(u) = d - c /\ \A i \in 1 .. d - c : u[i] = s[e + i]
  <2> HIDE DEF e, f
  <2>1. LET z == SubSeq(s, e + 1, f)
        IN  z \in Seq(T) /\ Len(z) = f - e /\ \A i \in 1 .. f - e : z[i] = s[e + i]
    BY <1>5, Window
  <2> QED  BY <1>5, <1>6, <2>1
<1>8. ASSUME NEW i \in 1 .. d - c PROVE u[i] = v[i]
  <2>1. c + i \in 1 .. b - a /\ a + (c + i) = e + i
    BY <1>1
  <2> QED  BY <1>2, <1>4, <1>7, <2>1
<1>9. u = v
  BY <1>4, <1>7, <1>8, SeqEqual
<1> QED  BY <1>9 DEF u, v, w

\* Two windows, side by side.
LEMMA WindowsJoin ==
    ASSUME NEW T, NEW s \in Seq(T), NEW a \in 0..Len(s), NEW b \in a..Len(s),
           NEW c \in b..Len(s)
    PROVE  SubSeq(s, a + 1, b) \o SubSeq(s, b + 1, c) = SubSeq(s, a + 1, c)
<1>1. Len(s) \in Nat
  BY LenProperties
<1>2. a + 1 \in 1 .. Len(s) + 1 /\ b \in (a + 1) - 1 .. Len(s) /\ c \in b..Len(s)
  BY <1>1
<1> DEFINE m == a + 1
<1>3. m \in 1 .. Len(s) + 1 /\ b \in m - 1 .. Len(s) /\ c \in b..Len(s)
  BY <1>2
<1> HIDE DEF m
<1>4. SubSeq(s, m, b) \o SubSeq(s, b + 1, c) = SubSeq(s, m, c)
  BY <1>3, ConcatAdjacentSubSeq
<1> QED  BY <1>4 DEF m

-----------------------------------------------------------------------------
\* What is there up to b is too little for a packet that begins after i bytes.
Waits(bytes, b, i) ==
    \/ b - i < HeaderSize
    \/ ~BadSize(bytes[i + 1][3]) /\ b - i < bytes[i + 1][3]

\* Marks none of which is before the one before it.
LEMMA Grows ==
    ASSUME NEW n \in Nat, NEW f \in [0..n -> Nat], \A k \in 1..n : f[k - 1] <= f[k]
    PROVE  \A k \in 0..n : \A j \in 0..k : f[j] <= f[k]
<1> DEFINE S == {d \in Nat : \A j \in 0..n : j + d \in 0..n => f[j] <= f[j + d]}
<1>1. 0 \in S
  OBVIOUS
<1>2. ASSUME NEW d \in Nat, d \in S PROVE d + 1 \in S
  <2> SUFFICES ASSUME NEW j \in 0..n, j + (d + 1) \in 0..n
               PROVE  f[j] <= f[j + (d + 1)]
    OBVIOUS
  <2>1. j + d \in 0..n /\ j + (d + 1) \in 1..n /\ (j + (d + 1)) - 1 = j + d
    OBVIOUS
  <2>2. f[j] <= f[j + d]
    BY <1>2, <2>1
  <2>3. f[j + d] <= f[j + (d + 1)]
    BY <2>1
  <2>4. f[j] \in Nat /\ f[j + d] \in Nat /\ f[j + (d + 1)] \in Nat
    BY <2>1
  <2> QED  BY <2>2, <2>3, <2>4
<1> HIDE DEF S
<1>3. Nat \subseteq S
  BY <1>1, <1>2, Induction
<1>4. ASSUME NEW k \in 0..n, NEW j \in 0..k PROVE f[j] <= f[k]
  <2>1. k - j \in S /\ j \in 0..n /\ j + (k - j) = k
    BY <1>3
  <2> QED  BY <2>1 DEF S
<1> QED  BY <1>4

\* Packets end one after the other.
LEMMA CutsGrow ==
    ASSUME NEW bytes \in Seq(Unit), NEW packets \in Seq(Seq(Unit)),
           NEW cut \in [0..Len(packets) -> 0..Len(bytes)], PacketsAt(bytes, packets, cut)
    PROVE  /\ \A k \in 1..Len(packets) : cut[k - 1] < cut[k]
           /\ \A k \in 0..Len(packets) : \A j \in 0..k : cut[j] <= cut[k]
<1>1. Len(bytes) \in Nat /\ Len(packets) \in Nat
  BY LenProperties
<1>2. ASSUME NEW k \in 1..Len(packets) PROVE cut[k - 1] < cut[k]
  <2>1. /\ ~EndOfPackets(bytes, cut[k - 1])
        /\ cut[k] = cut[k - 1] + bytes[cut[k - 1] + 1][3]
    BY DEF PacketsAt
  <2>2. cut[k - 1] \in 0..Len(bytes)
    <3>1. k - 1 \in 0..Len(packets)
      BY <1>1
    <3> QED  BY <3>1
  <2> DEFINE size == bytes[cut[k - 1] + 1][3]
  <2>3. cut[k - 1] + 1 \in 1..Len(bytes)
    BY <1>1, <2>1, <2>2, FramingAssumption DEF EndOfPackets
  <2>4. size \in Nat
    BY SMTT(30), <2>3, ElementOfSeq DEF Unit
  <2>5. size > 0
    BY <2>1, <2>4, FramingAssumption DEF EndOfPackets, BadSize
  <2> QED  BY <1>1, <2>1, <2>2, <2>4, <2>5
<1>3. cut \in [0..Len(packets) -> Nat] /\ \A k \in 1..Len(packets) : cut[k - 1] <= cut[k]
  <2>1. \A k \in 0..Len(packets) : cut[k] \in Nat
    BY <1>1
  <2>2. \A k \in 1..Len(packets) : k \in 0..Len(packets) /\ k - 1 \in 0..Len(packets)
    BY <1>1
  <2>3. cut \in [0..Len(packets) -> Nat]
    BY <2>1
  <2>4. ASSUME NEW k \in 1..Len(packets) PROVE cut[k - 1] <= cut[k]
    <3>1. cut[k - 1] < cut[k] /\ cut[k - 1] \in Nat /\ cut[k] \in Nat
      BY <1>2, <2>1, <2>2
    <3> QED  BY <3>1
  <2> QED  BY <2>3, <2>4
<1> QED  BY <1>1, <1>2, <1>3, Grows

\* The next packet of a stream begins here, or there is none.
LEMMA NextCut ==
    ASSUME NEW bytes \in Seq(Unit), NEW packets \in Seq(Seq(Unit)),
           NEW cut \in [0..Len(packets) -> 0..Len(bytes)], PacketsAt(bytes, packets, cut),
           NEW j \in 0..Len(packets), ~EndOfPackets(bytes, cut[j])
    PROVE  /\ j < Len(packets) /\ j + 1 \in 1..Len(packets)
           /\ cut[j + 1] = cut[j] + bytes[cut[j] + 1][3]
           /\ packets[j + 1] = SubSeq(bytes, cut[j] + 1, cut[j + 1])
<1>1. Len(packets) \in Nat
  BY LenProperties
<1>2. j # Len(packets)
  BY DEF PacketsAt
<1>3. j + 1 \in 1..Len(packets) /\ (j + 1) - 1 = j
  BY <1>1, <1>2
<1> DEFINE k == j + 1
<1>4. k \in 1..Len(packets) /\ k - 1 = j
  BY <1>3
<1> HIDE DEF k
<1>5. /\ cut[k] = cut[k - 1] + bytes[cut[k - 1] + 1][3]
      /\ packets[k] = SubSeq(bytes, cut[k - 1] + 1, cut[k])
  BY <1>4 DEF PacketsAt
<1>6. /\ cut[k] = cut[j] + bytes[cut[j] + 1][3]
      /\ packets[k] = SubSeq(bytes, cut[j] + 1, cut[k])
  BY <1>4, <1>5
<1>7. j < Len(packets)
  BY <1>1, <1>2
<1> QED  BY <1>4, <1>6, <1>7 DEF k

\* The packets that are there, of those that come next: the first of them up to
\* one that is not there, or that cannot be.
PacketsUpto(bytes, packets, cut, j, b, f) ==
    \E k \in j..Len(packets) :
        /\ cut[k] <= b
        /\ f.packets = SubSeq(packets, j + 1, k) /\ f.used = cut[k] - cut[j] /\ f.bad \in BOOLEAN
        /\ ~f.bad => Waits(bytes, b, cut[k])

\* What a turn of the loop makes, i bytes on, of a stream from a up to b.
FrameTurn(bytes, a, b, i, f, turn) ==
    LET c == a + i
        size == bytes[c + 1][3]
    IN  /\ Waits(bytes, b, c) => turn = [packets |-> <<>>, used |-> i, bad |-> FALSE]
        /\ ~Waits(bytes, b, c) /\ BadSize(size) =>
               turn = [packets |-> <<>>, used |-> i, bad |-> TRUE]
        /\ ~Waits(bytes, b, c) /\ ~BadSize(size) =>
               /\ ~EndOfPackets(bytes, c)
               /\ size \in Nat \ {0} /\ i + size \in i + 1 .. b - a
               /\ turn = [f[i + size] EXCEPT
                              !.packets = <<SubSeq(bytes, c + 1, c + size)>> \o @]

\* One step of FramePackets, on the bytes between a and b.
LEMMA FrameStepIs ==
    ASSUME NEW bytes \in Seq(Unit), NEW a \in 0..Len(bytes), NEW b \in a..Len(bytes),
           NEW i \in 0 .. b - a, NEW f
    PROVE  FrameTurn(bytes, a, b, i, f, FrameStep(SubSeq(bytes, a + 1, b), f, i))
<1> DEFINE c == a + i
           w == SubSeq(bytes, a + 1, b)
           size == bytes[c + 1][3]
<1>1. c = a + i /\ w = SubSeq(bytes, a + 1, b) /\ size = bytes[c + 1][3]
  OBVIOUS
<1>2. Len(bytes) \in Nat /\ HeaderSize \in Nat \ {0}
  BY LenProperties, FramingAssumption
<1>3. /\ a \in Nat /\ b \in Nat /\ i \in Nat /\ c \in Nat /\ b - c = (b - a) - i
      /\ b <= Len(bytes) /\ c <= b /\ c = a + i
  BY <1>2
<1>4. w \in Seq(Unit) /\ Len(w) = b - a /\ \A j \in 1 .. b - a : w[j] = bytes[a + j]
  BY <1>2, Window
<1> HIDE DEF c, w, size
<1>5. Len(w) - i = b - c
  BY <1>3, <1>4
<1>6. ASSUME ~(b - c < HeaderSize)
      PROVE  w[i + 1] = bytes[c + 1] /\ size \in Nat
  <2>1. i + 1 \in 1 .. b - a /\ a + (i + 1) = c + 1 /\ c + 1 \in 1..Len(bytes)
    BY <1>2, <1>3, <1>6
  <2>2. bytes[c + 1] \in Unit
    BY <2>1, ElementOfSeq
  <2>3. size \in Nat
    BY <1>1, <2>2 DEF Unit
  <2> QED  BY <1>4, <2>1, <2>3
<1>7. CASE b - c < HeaderSize
  <2>1. Len(w) - i < HeaderSize
    BY <1>5, <1>7
  <2>2. Waits(bytes, b, c)
    BY <1>7 DEF Waits
  <2> QED  BY <2>1, <2>2, <1>1 DEF FrameStep, FrameTurn
<1>8. CASE ~(b - c < HeaderSize)
  <2>1. ~(Len(w) - i < HeaderSize)
    BY <1>5, <1>8
  <2>2. w[i + 1] = bytes[c + 1] /\ size \in Nat
    BY <1>6, <1>8
  <2>3. w[i + 1][3] = size
    BY <1>1, <2>2
  <2>4. Whole(w, i) <=> b - c >= size
    BY <1>5, <2>3 DEF Whole
  <2>5. Waits(bytes, b, c) <=> ~BadSize(size) /\ ~Whole(w, i)
    <3>1. b \in Nat /\ c \in Nat /\ size \in Nat
      BY <1>3, <2>2, Zenon
    <3>2. b - c < size <=> ~(b - c >= size)
      BY ONLY <3>1
    <3> QED  BY <1>1, <1>8, <2>4, <3>2 DEF Waits
  <2>6. CASE Waits(bytes, b, c)
    <3>1. FrameStep(w, f, i) = [packets |-> <<>>, used |-> i, bad |-> FALSE]
      BY <2>1, <2>3, <2>5, <2>6 DEF FrameStep
    <3> QED  BY <1>1, <2>6, <3>1 DEF FrameTurn
  <2>7. CASE ~Waits(bytes, b, c) /\ BadSize(size)
    <3>1. FrameStep(w, f, i) = [packets |-> <<>>, used |-> i, bad |-> TRUE]
      BY <2>1, <2>3, <2>7 DEF FrameStep
    <3> QED  BY <1>1, <2>7, <3>1 DEF FrameTurn
  <2>8. CASE ~Waits(bytes, b, c) /\ ~BadSize(size)
    <3>1. Whole(w, i) /\ b - c >= size /\ size \in Nat \ {0}
      BY <1>2, <2>2, <2>4, <2>5, <2>8 DEF BadSize
    <3>2. i + size \in i + 1 .. b - a
      BY <1>3, <3>1
    <3>3. ~EndOfPackets(bytes, c)
      <4>1. Len(bytes) - c >= size /\ ~(Len(bytes) - c < HeaderSize)
        BY <1>2, <1>3, <1>8, <3>1
      <4> QED  BY <1>1, <2>8, <4>1 DEF EndOfPackets, Whole
    <3>4. SubSeq(w, i + 1, i + size) = SubSeq(bytes, c + 1, c + size)
      <4> DEFINE d == i + size
      <4>1. d \in i .. b - a /\ i \in 0 .. b - a /\ a + d = c + size
        <5>1. a \in Nat /\ i \in Nat /\ size \in Nat /\ b - a \in Int
          BY ONLY <1>3, <3>1
        <5> QED  BY <5>1, <3>2, <1>3
      <4> HIDE DEF d
      <4>2. SubSeq(w, i + 1, d) = SubSeq(bytes, a + i + 1, a + d)
        BY <1>1, <1>2, <4>1, WindowInWindow
      <4> QED  BY <1>1, <4>1, <4>2 DEF d
    <3>5. FrameStep(w, f, i) = [f[i + size] EXCEPT !.packets = <<SubSeq(w, i + 1, i + size)>> \o @]
      BY <2>1, <2>3, <2>8, <3>1 DEF FrameStep
    <3> QED  BY <1>1, <2>8, <3>1, <3>2, <3>3, <3>4, <3>5 DEF FrameTurn
  <2> QED  BY <2>6, <2>7, <2>8
<1> QED  BY <1>7, <1>8, <1>1 DEF FrameTurn

\* However much of a stream there is from the end of a packet on, FramePackets
\* hands on the packets that are there.
LEMMA FramePacketsIs ==
    ASSUME NEW bytes \in Seq(Unit), NEW packets \in Seq(Seq(Unit)),
           NEW cut \in [0..Len(packets) -> 0..Len(bytes)], PacketsAt(bytes, packets, cut),
           NEW m \in 0..Len(packets), NEW b \in cut[m]..Len(bytes)
    PROVE  LET f == FramePackets(SubSeq(bytes, cut[m] + 1, b))
           IN  f.used \in Nat /\ PacketsUpto(bytes, packets, cut, m, b, f)
<1> DEFINE a == cut[m]
           K == Len(packets)
           w == SubSeq(bytes, a + 1, b)
           L == FrameLoop(w)
           Is(j, f) == \E k \in j..K : \E p, bad :
                /\ cut[k] <= b /\ p = SubSeq(packets, j + 1, k) /\ bad \in BOOLEAN
                /\ f = [packets |-> p, used |-> cut[k] - a, bad |-> bad]
                /\ ~bad => Waits(bytes, b, cut[k])
           S == {j \in 0..K : j >= m /\ cut[j] <= b => Is(j, L[cut[j] - a])}
<1>1. /\ Len(bytes) \in Nat /\ K \in Nat /\ a \in 0..Len(bytes) /\ b \in a..Len(bytes)
      /\ \A j \in 0..K : cut[j] \in 0..Len(bytes)
  BY LenProperties
<1>2. w \in Seq(Unit) /\ Len(w) = b - a
  BY <1>1, Window
<1>3. /\ FramePackets(w) = L[0]
      /\ \A i \in 0 .. b - a : L[i] = FrameStep(w, L, i)
  BY <1>2, FrameLoopIs
<1>4. \A k \in 0..K : \A j \in 0..k : cut[j] <= cut[k]
  BY CutsGrow
\* The loop stops here, or goes on with the next packet.
<1>5. ASSUME NEW j \in 0..K, j >= m, cut[j] <= b, j + 1 \in 0..K => j + 1 \in S
      PROVE  Is(j, L[cut[j] - a])
  <2> DEFINE c == cut[j]
             i == c - a
             size == bytes[c + 1][3]
  <2>1. i \in 0 .. b - a /\ c = a + i /\ c \in Nat /\ i \in Nat /\ a \in Nat
    <3>1. a <= c
      BY <1>4, <1>5
    <3> QED  BY SMTT(30), <1>1, <1>5, <3>1
  <2>2. L[i] = FrameStep(w, L, i)
    BY <1>3, <2>1
  <2>3. size = bytes[c + 1][3] /\ w = SubSeq(bytes, a + 1, b) /\ c = cut[j] /\ i = cut[j] - a
    OBVIOUS
  <2>4. SubSeq(packets, j + 1, j) = <<>> /\ j \in j..K
    BY <1>1, SubSeqEmpty
  <2> HIDE DEF c, i, size, w, L, a
  <2>5. /\ a \in 0..Len(bytes) /\ b \in a..Len(bytes) /\ i \in 0 .. b - a /\ c = a + i
        /\ w = SubSeq(bytes, a + 1, b) /\ size = bytes[c + 1][3]
    BY <1>1, <2>1, <2>3
  <2>6. /\ Waits(bytes, b, c) => L[i] = [packets |-> <<>>, used |-> i, bad |-> FALSE]
        /\ ~Waits(bytes, b, c) /\ BadSize(size) =>
               L[i] = [packets |-> <<>>, used |-> i, bad |-> TRUE]
        /\ ~Waits(bytes, b, c) /\ ~BadSize(size) =>
               /\ ~EndOfPackets(bytes, c)
               /\ size \in Nat \ {0} /\ i + size \in i + 1 .. b - a
               /\ L[i] = [L[i + size] EXCEPT
                      !.packets = <<SubSeq(bytes, c + 1, c + size)>> \o @]
    <3>1. FrameTurn(bytes, a, b, i, L, FrameStep(w, L, i))
      BY <2>5, FrameStepIs
    <3>2. FrameTurn(bytes, a, b, i, L, L[i])
      BY <2>2, <3>1
    <3> QED  BY <2>5, <3>2 DEF FrameTurn
  <2>7. CASE Waits(bytes, b, c)
    <3>1. L[i] = [packets |-> <<>>, used |-> cut[j] - a, bad |-> FALSE]
      BY <2>3, <2>6, <2>7
    <3>2. cut[j] <= b /\ <<>> = SubSeq(packets, j + 1, j) /\ Waits(bytes, b, cut[j])
      BY <1>5, <2>3, <2>4, <2>7
    <3> QED  BY <2>3, <2>4, <3>1, <3>2
  <2>8. CASE ~Waits(bytes, b, c) /\ BadSize(size)
    <3>1. L[i] = [packets |-> <<>>, used |-> cut[j] - a, bad |-> TRUE]
      BY <2>3, <2>6, <2>8
    <3>2. cut[j] <= b /\ <<>> = SubSeq(packets, j + 1, j)
      BY <1>5, <2>4
    <3> QED  BY <2>3, <2>4, <3>1, <3>2
  <2>9. CASE ~Waits(bytes, b, c) /\ ~BadSize(size)
    <3>1. ~EndOfPackets(bytes, cut[j]) /\ size = bytes[cut[j] + 1][3]
      BY <2>3, <2>6, <2>9
    <3> DEFINE n == j + 1
    <3>2. /\ n \in 1..K /\ cut[n] = cut[j] + size
          /\ packets[n] = SubSeq(bytes, cut[j] + 1, cut[n])
      BY <3>1, NextCut
    <3>3. n \in S /\ n >= m /\ n \in 0..K
      <4>1. n >= m /\ n \in 0..K
        BY <1>1, <1>5, <3>2
      <4> HIDE DEF S
      <4> QED  BY <1>5, <4>1
    <3>4. cut[n] - a = i + size /\ cut[n] <= b /\ cut[n] \in Nat /\ cut[n] = c + size
      <4>1. cut[n] = c + size /\ cut[n] \in Nat
        <5>1. cut[n] = c + size
          BY <2>3, <3>2
        <5>2. cut[n] \in Nat
          <6>1. n \in 0..Len(packets) => cut[n] \in 0..Len(bytes)
            OBVIOUS
          <6> QED  BY <1>1, <3>3, <6>1
        <5> QED  BY <5>1, <5>2
      <4>2. size \in Nat /\ i + size <= b - a
        <5>1. i + size \in i + 1 .. b - a
          BY <2>6, <2>9
        <5> QED  BY <1>1, <2>1, <2>6, <2>9, <5>1
      <4>3. b \in Nat
        BY <1>1
      <4> QED  BY ONLY <2>1, <4>1, <4>2, <4>3
    <3>5. Is(n, L[cut[n] - a])
      <4> HIDE DEF Is, n
      <4> QED  BY <3>3, <3>4
    <3> HIDE DEF n
    <3>6. PICK k \in n..K : \E p, bad :
                /\ cut[k] <= b /\ p = SubSeq(packets, n + 1, k) /\ bad \in BOOLEAN
                /\ L[cut[n] - a] = [packets |-> p, used |-> cut[k] - a, bad |-> bad]
                /\ ~bad => Waits(bytes, b, cut[k])
      BY <3>5
    <3>7. PICK p, bad :
                /\ cut[k] <= b /\ p = SubSeq(packets, n + 1, k) /\ bad \in BOOLEAN
                /\ L[cut[n] - a] = [packets |-> p, used |-> cut[k] - a, bad |-> bad]
                /\ ~bad => Waits(bytes, b, cut[k])
      BY <3>6
    <3> DEFINE q == SubSeq(bytes, c + 1, c + size)
               qq == <<q>> \o p
               rest == L[i + size]
    <3>8. q = packets[n]
      BY <2>3, <3>2, <3>4
    <3>9. SubSeq(packets, n, k) = <<packets[n]>> \o SubSeq(packets, n + 1, k)
      BY <3>2, SubSeqRecursiveFirst
    <3>10. qq = SubSeq(packets, j + 1, k)
      BY <3>7, <3>8, <3>9 DEF n
    <3>11. L[i] = [rest EXCEPT !.packets = <<q>> \o @]
      BY <2>6, <2>9
    <3>12. rest = [packets |-> p, used |-> cut[k] - a, bad |-> bad]
      BY <3>4, <3>7
    <3> HIDE DEF q, rest
    <3>13. L[i] = [packets |-> qq, used |-> cut[k] - a, bad |-> bad]
      BY <3>11, <3>12
    <3>14. k \in j..K
      BY <1>1, <3>3 DEF n
    <3> HIDE DEF qq
    <3> QED  BY <2>3, <3>7, <3>10, <3>13, <3>14
  <2> QED  BY <2>7, <2>8, <2>9
<1>6. K \in S
  <2>1. K \in 0..K /\ ~(K + 1 \in 0..K)
    BY <1>1
  <2> HIDE DEF Is
  <2> QED  BY <1>5, <2>1
<1>7. ASSUME NEW j \in 0 .. K - 1, j + 1 \in S PROVE j \in S
  <2>1. j \in 0..K
    BY <1>1
  <2> HIDE DEF Is
  <2> QED  BY <1>5, <1>7, <2>1
<1> HIDE DEF S
<1>8. m \in S
  BY <1>1, <1>6, <1>7, DownInduction
<1>9. cut[m] - a = 0 /\ cut[m] <= b /\ m >= m
  BY <1>1
<1>10. Is(m, L[0])
  <2> HIDE DEF Is, L
  <2> QED  BY <1>8, <1>9 DEF S
<1> DEFINE f == FramePackets(w)
<1>11. Is(m, f)
  BY <1>3, <1>10
<1> HIDE DEF f
<1>12. PICK k \in m..K : \E p, bad :
           /\ cut[k] <= b /\ p = SubSeq(packets, m + 1, k) /\ bad \in BOOLEAN
           /\ f = [packets |-> p, used |-> cut[k] - a, bad |-> bad]
           /\ ~bad => Waits(bytes, b, cut[k])
  BY <1>11
<1>13. cut[k] - a \in Nat
  <2>1. m \in 0..k /\ k \in 0..K
    BY <1>1
  <2>2. cut[m] <= cut[k]
    BY <1>4, <2>1
  <2> QED  BY <1>1, <2>1, <2>2
<1>14. f.used \in Nat /\ PacketsUpto(bytes, packets, cut, m, b, f)
  <2>1. f.used = cut[k] - a /\ f.packets = SubSeq(packets, m + 1, k) /\ f.bad \in BOOLEAN
        /\ cut[k] <= b /\ (~f.bad => Waits(bytes, b, cut[k]))
    BY <1>12
  <2> QED  BY <1>13, <2>1 DEF PacketsUpto
<1> QED  BY <1>14 DEF f
-----------------------------------------------------------------------------
\* One turn of the loop of Unwrap, when f has the rest.
UnwrapStep(bytes, f, j) ==
    LET stop(why) == [body |-> <<>>, pongs |-> 0, used |-> j, end |-> why]
        opcode == bytes[j + 1][1]
        size == bytes[j + 1][3]
        rest == f[j + 1 + size]
    IN  IF j = Len(bytes) THEN stop("more")
        ELSE IF ~IsFrame(bytes[j + 1]) THEN stop("error")
        ELSE IF ~FrameWhole(bytes, j) THEN stop("more")
        ELSE CASE opcode \in {"Binary", "Continuation"} ->
                      [rest EXCEPT !.body = SubSeq(bytes, j + 2, j + 1 + size) \o @]
               [] opcode = "Ping" -> [rest EXCEPT !.pongs = @ + 1]
               [] opcode \in {"Pong", "Unknown"} -> rest
               [] opcode = "Text" -> stop("error")
               [] opcode = "Close" -> [stop("close") EXCEPT !.used = j + 1 + size]

\* The function that Unwrap defines by its steps.
UnwrapLoop(bytes, i) == CHOOSE f : f = [j \in i..Len(bytes) |-> UnwrapStep(bytes, f, j)]

\* A step of it depends on later ones only.
LEMMA UnwrapStepLooksAhead ==
    ASSUME NEW bytes \in Seq(Unit), NEW j \in 0..Len(bytes), NEW f, NEW g,
           \A n \in j + 1 .. Len(bytes) : f[n] = g[n]
    PROVE  UnwrapStep(bytes, f, j) = UnwrapStep(bytes, g, j)
<1>1. CASE j = Len(bytes) \/ ~IsFrame(bytes[j + 1]) \/ ~FrameWhole(bytes, j)
  BY <1>1 DEF UnwrapStep
<1>2. CASE ~(j = Len(bytes) \/ ~IsFrame(bytes[j + 1]) \/ ~FrameWhole(bytes, j))
  <2>1. j + 1 \in 1..Len(bytes) /\ Len(bytes) \in Nat
    BY <1>2, LenProperties
  <2>2. bytes[j + 1][3] \in Nat
    BY <2>1, ElementOfSeq DEF Unit
  <2> DEFINE n == j + 1 + bytes[j + 1][3]
  <2>3. n \in j + 1 .. Len(bytes)
    BY <1>2, <2>1, <2>2 DEF FrameWhole
  <2>4. f[n] = g[n]
    BY <2>3
  <2> QED  BY <1>2, <2>4 DEF UnwrapStep
<1> QED  BY <1>1, <1>2

\* The recursion of Unwrap ends, so the loop is what its definition says.
LEMMA UnwrapLoopIs ==
    ASSUME NEW bytes \in Seq(Unit), NEW i \in 0..Len(bytes)
    PROVE  /\ Unwrap(bytes, i) = UnwrapLoop(bytes, i)[i]
           /\ \A j \in i..Len(bytes) :
                 UnwrapLoop(bytes, i)[j] = UnwrapStep(bytes, UnwrapLoop(bytes, i), j)
<1> DEFINE N == Len(bytes)
           S == {k \in 0 .. N + 1 : \E g : g = [j \in k..N |-> UnwrapStep(bytes, g, j)]}
<1>1. N \in Nat
  BY LenProperties
<1>2. N + 1 \in S
  <2> DEFINE g == [j \in N + 1 .. N |-> 0]
  <2>1. N + 1 .. N = {}
    BY <1>1
  <2>2. g = [j \in N + 1 .. N |-> UnwrapStep(bytes, g, j)]
    BY <2>1
  <2> HIDE DEF g
  <2> QED  BY <1>1, <2>2
<1>3. ASSUME NEW k \in 0 .. N + 1 - 1, k + 1 \in S PROVE k \in S
  <2>1. k \in 0..N
    BY <1>1
  <2>2. PICK g : g = [j \in k + 1 .. N |-> UnwrapStep(bytes, g, j)]
    BY <1>3
  <2> DEFINE h == [j \in k..N |-> UnwrapStep(bytes, g, j)]
  <2>3. \A j \in k + 1 .. N : g[j] = h[j]
    <3>1. \A j \in k + 1 .. N : h[j] = UnwrapStep(bytes, g, j)
      BY <1>1, <2>1
    <3> DEFINE gg == [j \in k + 1 .. N |-> UnwrapStep(bytes, g, j)]
    <3>2. \A j \in k + 1 .. N : gg[j] = UnwrapStep(bytes, g, j)
      OBVIOUS
    <3>3. gg = g
      BY <2>2, Zenon
    <3> HIDE DEF gg, h
    <3> QED  BY <3>1, <3>2, <3>3
  <2>4. \A j \in k..N : UnwrapStep(bytes, g, j) = UnwrapStep(bytes, h, j)
    <3> TAKE j \in k..N
    <3>1. j \in 0..N /\ \A n \in j + 1 .. N : n \in k + 1 .. N
      BY <1>1, <2>1
    <3>2. \A n \in j + 1 .. N : g[n] = h[n]
      BY <2>3, <3>1
    <3> HIDE DEF h
    <3> QED  BY <3>1, <3>2, UnwrapStepLooksAhead
  <2>5. h = [j \in k..N |-> UnwrapStep(bytes, h, j)]
    <3> DEFINE hh == [j \in k..N |-> UnwrapStep(bytes, h, j)]
    <3>1. hh = [j \in k..N |-> UnwrapStep(bytes, g, j)]
      <4> HIDE DEF h
      <4> QED  BY <2>4
    <3> QED  BY <3>1, Zenon
  <2> HIDE DEF h
  <2> QED  BY <1>1, <2>1, <2>5
<1>4. i \in S
  <2> HIDE DEF S
  <2>1. i \in 0 .. N + 1
    BY <1>1
  <2> QED  BY <1>1, <1>2, <1>3, <2>1, DownInduction
<1>5. UnwrapLoop(bytes, i) = [j \in i..N |-> UnwrapStep(bytes, UnwrapLoop(bytes, i), j)]
  <2>1. \E g : g = [j \in i..N |-> UnwrapStep(bytes, g, j)]
    BY <1>4
  <2> QED  BY <2>1, Zenon DEF UnwrapLoop
<1>6. \A j \in i..N : UnwrapLoop(bytes, i)[j] = UnwrapStep(bytes, UnwrapLoop(bytes, i), j)
  <2> DEFINE L == UnwrapLoop(bytes, i)
             LL == [j \in i..N |-> UnwrapStep(bytes, L, j)]
  <2>1. L = LL
    BY <1>5, Zenon
  <2>2. \A j \in i..N : LL[j] = UnwrapStep(bytes, L, j)
    OBVIOUS
  <2> HIDE DEF L, LL
  <2>3. \A j \in i..N : L[j] = UnwrapStep(bytes, L, j)
    BY <2>1, <2>2
  <2> QED  BY <2>3 DEF L
<1> QED  BY <1>6 DEF Unwrap, UnwrapLoop, UnwrapStep

\* What is there up to b is too little for a frame that begins after c units.
FrameWaits(units, b, c) ==
    b = c \/ (IsFrame(units[c + 1]) /\ b - c < 1 + units[c + 1][3])

\* What a turn of the loop makes, j units on, of a stream from a up to b.
UnwrapTurn(units, a, b, j, f, turn) ==
    LET c == a + j
        u == units[c + 1]
        next == j + 1 + u[3]
        stop(used, why) == [body |-> <<>>, pongs |-> 0, used |-> used, end |-> why]
    IN  /\ FrameWaits(units, b, c) => turn = stop(j, "more")
        /\ ~FrameWaits(units, b, c) /\ (~IsFrame(u) \/ u[1] = "Text") => turn = stop(j, "error")
        /\ ~FrameWaits(units, b, c) /\ IsFrame(u) /\ u[1] = "Close" =>
               turn = stop(next, "close") /\ next \in j + 1 .. b - a
        /\ ~FrameWaits(units, b, c) /\ IsFrame(u) /\ u[1] \notin {"Text", "Close"} =>
               /\ ~EndOfFrames(units, c) /\ next \in j + 1 .. b - a
               /\ Carried(u) \in 0 .. u[3]
               /\ \A body \in Seq(Unit), pongs \in Nat : \A used, end :
                     f[next] = [body |-> body, pongs |-> pongs, used |-> used, end |-> end] =>
                         \E more \in Nat :
                            turn = [body |-> SubSeq(units, (a + next) - Carried(u) + 1, a + next) \o body,
                                    pongs |-> more, used |-> used, end |-> end]

\* One step of Unwrap, on the units between a and b.
LEMMA UnwrapStepIs ==
    ASSUME NEW units \in Seq(Unit), NEW a \in 0..Len(units), NEW b \in a..Len(units),
           NEW j \in 0 .. b - a, NEW f
    PROVE  UnwrapTurn(units, a, b, j, f, UnwrapStep(SubSeq(units, a + 1, b), f, j))
<1> DEFINE c == a + j
           w == SubSeq(units, a + 1, b)
           u == units[c + 1]
           size == u[3]
           next == j + 1 + size
           stop(used, why) == [body |-> <<>>, pongs |-> 0, used |-> used, end |-> why]
           turn == UnwrapStep(w, f, j)
<1>1. Len(units) \in Nat
  BY LenProperties
<1>2. /\ a \in Nat /\ b \in Nat /\ j \in Nat /\ c \in Nat /\ b - c = (b - a) - j
      /\ b <= Len(units) /\ c <= b /\ c = a + j
  BY <1>1
<1>3. w \in Seq(Unit) /\ Len(w) = b - a /\ \A i \in 1 .. b - a : w[i] = units[a + i]
  BY <1>1, Window
<1>4. /\ c = a + j /\ w = SubSeq(units, a + 1, b) /\ u = units[c + 1] /\ size = u[3]
      /\ next = j + 1 + size /\ next = j + 1 + u[3]
  OBVIOUS
<1>5. turn = UnwrapStep(w, f, j)
  OBVIOUS
\* The four kinds of turn are enough.
<1> DEFINE Goal == UnwrapTurn(units, a, b, j, f, turn)
<1>6. ASSUME FrameWaits(units, b, c), turn = stop(j, "more")
      PROVE  Goal
  BY <1>6, Zenon DEF UnwrapTurn
<1>7. ASSUME ~FrameWaits(units, b, c), ~IsFrame(u) \/ u[1] = "Text", turn = stop(j, "error")
      PROVE  Goal
  <2>1. "Text" # "Close"
    OBVIOUS
  <2> QED  BY <1>7, <2>1, Zenon DEF UnwrapTurn
<1>8. ASSUME ~FrameWaits(units, b, c), IsFrame(u), u[1] = "Close",
              turn = stop(next, "close"), next \in j + 1 .. b - a
       PROVE  Goal
  <2>1. "Text" # "Close"
    OBVIOUS
  <2> QED  BY <1>8, <2>1, Zenon DEF UnwrapTurn
<1>9. ASSUME ~FrameWaits(units, b, c), IsFrame(u), u[1] \notin {"Text", "Close"},
              ~EndOfFrames(units, c), next \in j + 1 .. b - a, Carried(u) \in 0 .. u[3],
              \A body \in Seq(Unit), pongs \in Nat : \A used, end :
                  f[next] = [body |-> body, pongs |-> pongs, used |-> used, end |-> end] =>
                      \E more \in Nat :
                         turn = [body |-> SubSeq(units, (a + next) - Carried(u) + 1, a + next) \o body,
                                 pongs |-> more, used |-> used, end |-> end]
       PROVE  Goal
  BY <1>9, Zenon DEF UnwrapTurn
<1> SUFFICES Goal
  OBVIOUS
<1> HIDE DEF Goal
<1> HIDE DEF c, w, u, size, next, turn
<1>10. Len(w) - j = b - c
  BY <1>2, <1>3
<1>11. CASE b = c
  <2>1. j = Len(w) /\ FrameWaits(units, b, c)
    <3>1. j = Len(w)
      BY <1>2, <1>3, <1>11
    <3> QED  BY <1>11, <3>1 DEF FrameWaits
  <2>2. turn = stop(j, "more")
    BY <1>5, <2>1 DEF UnwrapStep
  <2> QED  BY <1>6, <2>1, <2>2
<1>12. CASE b # c
  <2>1. j + 1 \in 1 .. b - a /\ a + (j + 1) = c + 1 /\ c + 1 \in 1..Len(units)
    BY <1>1, <1>2, <1>12
  <2>2. u \in Unit
    BY <1>4, <2>1, ElementOfSeq
  <2>3. w[j + 1] = u /\ size \in Nat /\ w[j + 1][3] = size /\ w[j + 1][1] = u[1]
    <3>1. w[j + 1] = u
      BY <1>3, <1>4, <2>1
    <3>2. size \in Nat
      BY <1>4, <2>2 DEF Unit
    <3> QED  BY <1>4, <3>1, <3>2
  <2>4. FrameWhole(w, j) <=> b - c >= 1 + size
    BY <1>10, <2>3 DEF FrameWhole
  <2>5. FrameWaits(units, b, c) <=> IsFrame(u) /\ ~FrameWhole(w, j)
    <3>1. b \in Nat /\ c \in Nat /\ size \in Nat
      BY <1>2, <2>3
    <3>2. b - c < 1 + size <=> ~(b - c >= 1 + size)
      BY ONLY <3>1
    <3> QED  BY <1>4, <1>12, <2>4, <3>2 DEF FrameWaits
  <2>6. j # Len(w)
    BY <1>2, <1>3, <1>12
  <2>7. CASE ~IsFrame(u)
    <3>1. turn = stop(j, "error")
      BY <1>5, <2>3, <2>6, <2>7 DEF UnwrapStep
    <3> QED  BY <1>7, <2>5, <2>7, <3>1
  <2>8. CASE IsFrame(u) /\ ~FrameWhole(w, j)
    <3>1. turn = stop(j, "more")
      BY <1>5, <2>3, <2>6, <2>8 DEF UnwrapStep
    <3> QED  BY <1>6, <2>5, <2>8, <3>1
  <2>9. CASE IsFrame(u) /\ FrameWhole(w, j)
    <3>1. b - c >= 1 + size /\ ~FrameWaits(units, b, c)
      BY <2>4, <2>5, <2>9
    <3>2. next \in j + 1 .. b - a /\ next \in Nat /\ a + next = c + 1 + size
      <4>1. a \in Nat /\ j \in Nat /\ size \in Nat
        BY <1>2, <2>3
      <4>2. b \in Nat /\ c \in Nat /\ c = a + j /\ next = j + 1 + size
        BY <1>2, <1>4
      <4> QED  BY ONLY <3>1, <4>1, <4>2
    <3> DEFINE opcode == u[1]
               rest == f[next]
    <3>3. /\ opcode \in {"Binary", "Continuation"} => turn =
                 [rest EXCEPT !.body = SubSeq(w, j + 2, next) \o @]
          /\ opcode = "Ping" => turn = [rest EXCEPT !.pongs = @ + 1]
          /\ opcode \in {"Pong", "Unknown"} => turn = rest
          /\ opcode = "Text" => turn = stop(j, "error")
          /\ opcode = "Close" => turn = stop(next, "close")
      BY <1>4, <1>5, <2>3, <2>6, <2>9 DEF UnwrapStep
    <3>4. CASE opcode = "Text"
      BY <1>7, <2>9, <3>1, <3>3, <3>4
    <3>5. CASE opcode = "Close"
      BY <1>8, <2>9, <3>1, <3>2, <3>3, <3>5
    <3>6. CASE opcode \notin {"Text", "Close"}
      <4>1. ~EndOfFrames(units, c)
        <5>1. Len(units) - c >= 1 + size /\ c # Len(units)
          BY <1>1, <1>2, <2>3, <3>1
        <5> QED  BY <1>4, <2>9, <3>6, <5>1 DEF EndOfFrames, FrameWhole
      <4>2. Carried(u) \in 0..size
        BY <1>4, <2>3 DEF Carried
      <4> DEFINE part == SubSeq(units, (a + next) - Carried(u) + 1, a + next)
      <4>3. ASSUME NEW body \in Seq(Unit), NEW pongs \in Nat, NEW used, NEW end,
                   f[next] = [body |-> body, pongs |-> pongs, used |-> used, end |-> end]
            PROVE  \E more \in Nat :
                       turn = [body |-> part \o body, pongs |-> more, used |-> used, end |-> end]
        <5>1. rest = [body |-> body, pongs |-> pongs, used |-> used, end |-> end]
          BY <4>3
        <5>2. CASE opcode \in {"Binary", "Continuation"}
          <6> DEFINE d == j + 1
          <6>1. d \in 0 .. b - a /\ next \in d .. b - a /\ a + d = c + 1
            BY <1>2, <2>1, <3>2
          <6>2. d + 1 = j + 2
            BY <1>2
          <6> HIDE DEF d
          <6> DEFINE ww == SubSeq(units, a + 1, b)
          <6>3. SubSeq(ww, d + 1, next) = SubSeq(units, a + d + 1, a + next)
            BY <6>1, WindowInWindow
          <6>4. SubSeq(w, d + 1, next) = SubSeq(units, a + d + 1, a + next)
            BY <1>4, <6>3
          <6>5. Carried(u) = size
            BY <1>4, <5>2 DEF Carried
          <6> DEFINE from == (a + next) - Carried(u)
          <6>6. from = a + d
            BY <1>2, <2>3, <3>2, <6>1, <6>5
          <6>7. part = SubSeq(units, from + 1, a + next)
            OBVIOUS
          <6> HIDE DEF from, part
          <6>8. SubSeq(w, j + 2, next) = part
            BY <6>2, <6>4, <6>6, <6>7
          <6> HIDE DEF rest, part
          <6>9. turn = [rest EXCEPT !.body = part \o @]
            BY <3>3, <5>2, <6>8
          <6>10. turn = [body |-> part \o body, pongs |-> pongs, used |-> used, end |-> end]
            BY <5>1, <6>9
          <6> QED  BY <6>10
        <5>3. CASE opcode \notin {"Binary", "Continuation"}
          <6>1. Carried(u) = 0
            BY <5>3 DEF Carried
          <6>2. part = <<>>
            BY <1>2, <3>2, <6>1, SubSeqEmpty
          <6> HIDE DEF part
          <6>3. part \o body = body
            BY <6>2, ConcatEmptySeq
          <6>4. opcode \in {"Ping", "Pong", "Unknown"}
            BY <2>9, <3>6, <5>3 DEF IsFrame, Opcodes
          <6>5. CASE opcode = "Ping"
            <7>1. turn = [body |-> body, pongs |-> pongs + 1, used |-> used, end |-> end]
              BY <3>3, <5>1, <6>5
            <7>2. pongs + 1 \in Nat
              OBVIOUS
            <7> QED  BY <6>3, <7>1, <7>2, Zenon
          <6>6. CASE opcode \in {"Pong", "Unknown"}
            <7>1. turn = [body |-> body, pongs |-> pongs, used |-> used, end |-> end]
              BY <3>3, <5>1, <6>6
            <7> QED  BY <6>3, <7>1
          <6> QED  BY <6>4, <6>5, <6>6
        <5> QED  BY <5>2, <5>3
      <4>4. Carried(u) \in 0 .. u[3]
        BY <1>4, <4>2
      <4> QED  BY <1>9, <2>9, <3>1, <3>2, <3>6, <4>1, <4>3, <4>4, Zenon
    <3> QED  BY <3>4, <3>5, <3>6
  <2> QED  BY <2>7, <2>8, <2>9
<1> QED  BY <1>11, <1>12

\* Frames end one after the other, and so does what they carry.
LEMMA FramesGrow ==
    ASSUME NEW units \in Seq(Unit), NEW body \in Seq(Unit), NEW count \in Nat,
           NEW at \in [0..count -> 0..Len(units)], NEW pay \in [0..count -> 0..Len(body)],
           FramesAt(units, body, count, at, pay)
    PROVE  \A k \in 0..count : \A j \in 0..k : at[j] <= at[k] /\ pay[j] <= pay[k]
<1>1. Len(units) \in Nat /\ Len(body) \in Nat
  BY LenProperties
<1>2. at \in [0..count -> Nat] /\ pay \in [0..count -> Nat]
  BY <1>1
<1>3. ASSUME NEW k \in 1..count PROVE at[k - 1] <= at[k] /\ pay[k - 1] <= pay[k]
  <2> DEFINE c == at[k - 1]
             u == units[c + 1]
  <2>1. /\ ~EndOfFrames(units, c)
        /\ at[k] = c + 1 + u[3] /\ pay[k] = pay[k - 1] + Carried(u)
    BY DEF FramesAt
  <2>2. k - 1 \in 0..count /\ c \in 0..Len(units) /\ pay[k - 1] \in Nat
    <3>1. k - 1 \in 0..count
      OBVIOUS
    <3> QED  BY <1>2, <3>1
  <2>3. c + 1 \in 1..Len(units)
    BY SMTT(30), <1>1, <2>1, <2>2 DEF EndOfFrames
  <2>4. u \in Unit
    BY <2>3, ElementOfSeq
  <2>5. u[3] \in Nat
    BY <2>4 DEF Unit
  <2>6. Carried(u) \in Nat
    BY <2>5 DEF Carried
  <2> HIDE DEF c, u
  <2>7. c <= at[k] /\ pay[k - 1] <= pay[k]
    <3>1. c \in Nat /\ u[3] \in Nat /\ pay[k - 1] \in Nat /\ Carried(u) \in Nat
      BY <1>1, <2>2, <2>5, <2>6
    <3>2. at[k] = c + 1 + u[3] /\ pay[k] = pay[k - 1] + Carried(u)
      BY <2>1
    <3>3. c <= c + 1 + u[3] /\ pay[k - 1] <= pay[k - 1] + Carried(u)
      BY ONLY SMTT(30), <3>1
    <3> QED  BY <3>2, <3>3
  <2> QED  BY <2>7 DEF c
<1>4. ASSUME NEW k \in 0..count, NEW j \in 0..k PROVE at[j] <= at[k] /\ pay[j] <= pay[k]
  BY <1>2, <1>3, Grows
<1> QED  BY <1>4

\* The next frame of a stream begins here, or there is none.
LEMMA NextFrame ==
    ASSUME NEW units \in Seq(Unit), NEW body \in Seq(Unit), NEW count \in Nat,
           NEW at \in [0..count -> 0..Len(units)], NEW pay \in [0..count -> 0..Len(body)],
           FramesAt(units, body, count, at, pay),
           NEW j \in 0..count, ~EndOfFrames(units, at[j])
    PROVE  /\ j + 1 \in 1..count
           /\ at[j + 1] = at[j] + 1 + units[at[j] + 1][3]
           /\ SubSeq(body, pay[j] + 1, pay[j + 1]) =
                  SubSeq(units, at[j + 1] - Carried(units[at[j] + 1]) + 1, at[j + 1])
<1>1. j # count
  BY DEF FramesAt
<1> DEFINE k == j + 1
<1>2. k \in 1..count /\ k - 1 = j
  BY <1>1
<1> HIDE DEF k
<1>3. /\ at[k] = at[k - 1] + 1 + units[at[k - 1] + 1][3]
      /\ SubSeq(body, pay[k - 1] + 1, pay[k]) =
             SubSeq(units, at[k] - Carried(units[at[k - 1] + 1]) + 1, at[k])
  BY <1>2 DEF FramesAt
<1> QED  BY <1>2, <1>3 DEF k

\* The frames that are there, of those that come next, and what they carry.
FramesUpto(units, body, count, at, pay, a, b, k, u) ==
    \E m \in k..count :
        /\ at[m] <= b /\ u.body = SubSeq(body, pay[k] + 1, pay[m])
        /\ u.pongs \in Nat /\ u.used \in 0 .. b - a /\ u.end \in {"more", "error", "close"}
        /\ u.end = "more" => a + u.used = at[m] /\ FrameWaits(units, b, at[m])

\* However much of a stream there is from the end of a frame on, Unwrap takes the
\* frames that are there.
LEMMA UnwrapIs ==
    ASSUME NEW units \in Seq(Unit), NEW body \in Seq(Unit), NEW count \in Nat,
           NEW at \in [0..count -> 0..Len(units)], NEW pay \in [0..count -> 0..Len(body)],
           FramesAt(units, body, count, at, pay),
           NEW k \in 0..count, NEW a \in 0..at[k], NEW b \in at[k]..Len(units)
    PROVE  FramesUpto(units, body, count, at, pay, a, b, k,
                      Unwrap(SubSeq(units, a + 1, b), at[k] - a))
<1> DEFINE w == SubSeq(units, a + 1, b)
           L == UnwrapLoop(w, at[k] - a)
           Is(j, f) == \E m \in j..count : \E p, pongs, used, end :
                /\ at[m] <= b /\ p = SubSeq(body, pay[j] + 1, pay[m])
                /\ pongs \in Nat /\ used \in 0 .. b - a /\ end \in {"more", "error", "close"}
                /\ f = [body |-> p, pongs |-> pongs, used |-> used, end |-> end]
                /\ end = "more" => a + used = at[m] /\ FrameWaits(units, b, at[m])
           S == {j \in 0..count : j >= k /\ at[j] <= b => Is(j, L[at[j] - a])}
<1>1. /\ Len(units) \in Nat /\ Len(body) \in Nat
      /\ at \in [0..count -> Nat] /\ pay \in [0..count -> Nat]
      /\ a \in Nat /\ b \in Nat /\ a <= at[k] /\ at[k] <= b
      /\ a \in 0..Len(units) /\ b \in a..Len(units)
  <2>1. Len(units) \in Nat /\ Len(body) \in Nat
    BY LenProperties
  <2>2. at[k] \in 0..Len(units)
    OBVIOUS
  <2> QED  BY <2>1, <2>2
<1>2. w \in Seq(Unit) /\ Len(w) = b - a
  BY <1>1, Window
<1>3. at[k] - a \in 0 .. b - a /\ at[k] - a \in 0..Len(w)
  BY <1>1, <1>2
<1>4. /\ Unwrap(w, at[k] - a) = L[at[k] - a]
      /\ \A i \in at[k] - a .. b - a : L[i] = UnwrapStep(w, L, i)
  <2> HIDE DEF w
  <2> QED  BY <1>2, <1>3, UnwrapLoopIs
<1>5. \A m \in 0..count : \A j \in 0..m : at[j] <= at[m] /\ pay[j] <= pay[m]
  BY FramesGrow
\* The loop stops here, or goes on with the next frame.
<1>6. ASSUME NEW j \in 0..count, j >= k, at[j] <= b, j + 1 \in 0..count => j + 1 \in S
      PROVE  Is(j, L[at[j] - a])
  <2> DEFINE i == at[j] - a
             c == a + i
             u == units[c + 1]
             next == i + 1 + u[3]
             stop(used, why) == [body |-> <<>>, pongs |-> 0, used |-> used, end |-> why]
  <2>1. i \in at[k] - a .. b - a /\ i \in 0 .. b - a /\ a + i = at[j] /\ at[j] \in Nat /\ i \in Nat
    <3> DEFINE d == at[j]
               e == at[k]
    <3>1. e <= d /\ d \in Nat /\ e \in Nat /\ d <= b /\ a <= e
      BY <1>1, <1>5, <1>6
    <3> HIDE DEF d, e
    <3>2. /\ d - a \in e - a .. b - a /\ d - a \in 0 .. b - a /\ a + (d - a) = d /\ d \in Nat
          /\ d - a \in Nat
      BY <1>1, <3>1
    <3> QED  BY <3>2 DEF d, e
  <2>2. L[i] = UnwrapStep(w, L, i)
    BY <1>4, <2>1
  <2>3. /\ u = units[c + 1] /\ w = SubSeq(units, a + 1, b) /\ c = at[j] /\ i = at[j] - a
        /\ next = i + 1 + u[3] /\ c \in Nat /\ c = a + i
    BY <2>1
  <2>4. SubSeq(body, pay[j] + 1, pay[j]) = <<>> /\ j \in j..count /\ <<>> \in Seq(Unit)
    BY SMTT(30), <1>1, SubSeqEmpty
  <2> HIDE DEF i, w, L
  <2>5. UnwrapTurn(units, a, b, i, L, L[i])
    <3>1. UnwrapTurn(units, a, b, i, L, UnwrapStep(SubSeq(units, a + 1, b), L, i))
      BY <1>1, <2>1, UnwrapStepIs
    <3> QED  BY <2>2, <2>3, <3>1
  <2>6. /\ FrameWaits(units, b, c) => L[i] = stop(i, "more")
        /\ ~FrameWaits(units, b, c) /\ (~IsFrame(u) \/ u[1] = "Text") => L[i] = stop(i, "error")
        /\ ~FrameWaits(units, b, c) /\ IsFrame(u) /\ u[1] = "Close" =>
               L[i] = stop(next, "close") /\ next \in i + 1 .. b - a
        /\ ~FrameWaits(units, b, c) /\ IsFrame(u) /\ u[1] \notin {"Text", "Close"} =>
               /\ ~EndOfFrames(units, c) /\ next \in i + 1 .. b - a
               /\ Carried(u) \in 0 .. u[3]
               /\ \A bd \in Seq(Unit), pongs \in Nat : \A used, end :
                     L[next] = [body |-> bd, pongs |-> pongs, used |-> used, end |-> end] =>
                         \E more \in Nat :
                            L[i] = [body |-> SubSeq(units, (a + next) - Carried(u) + 1, a + next) \o bd,
                                    pongs |-> more, used |-> used, end |-> end]
    BY <2>5, Zenon DEF UnwrapTurn
  <2> HIDE DEF c, u, next
  <2>7. ASSUME NEW used \in 0 .. b - a, NEW end \in {"more", "error", "close"},
               L[i] = stop(used, end), end = "more" => used = i /\ FrameWaits(units, b, c)
        PROVE  Is(j, L[i])
    <3>1. /\ at[j] <= b /\ <<>> = SubSeq(body, pay[j] + 1, pay[j]) /\ 0 \in Nat
          /\ end = "more" => a + used = at[j] /\ FrameWaits(units, b, at[j])
      BY <1>6, <2>1, <2>3, <2>4, <2>7
    <3> QED  BY <2>4, <2>7, <3>1
  <2>8. CASE FrameWaits(units, b, c)
    <3>1. L[i] = stop(i, "more")
      BY <2>6, <2>8
    <3>2. i \in 0 .. b - a /\ "more" \in {"more", "error", "close"}
      BY <2>1
    <3> HIDE DEF Is, stop
    <3>3. Is(j, L[i])
      BY <2>7, <2>8, <3>1, <3>2
    <3> QED  BY <2>3, <3>3
  <2>9. CASE ~FrameWaits(units, b, c) /\ (~IsFrame(u) \/ u[1] = "Text")
    <3>1. L[i] = stop(i, "error")
      BY <2>6, <2>9
    <3>2. i \in 0 .. b - a /\ "error" \in {"more", "error", "close"} /\ "error" # "more"
      BY <2>1
    <3> HIDE DEF Is, stop
    <3>3. Is(j, L[i])
      BY <2>7, <3>1, <3>2
    <3> QED  BY <2>3, <3>3
  <2>10. CASE ~FrameWaits(units, b, c) /\ IsFrame(u) /\ u[1] = "Close"
    <3>1. L[i] = stop(next, "close") /\ next \in i + 1 .. b - a
      BY <2>6, <2>10
    <3>2. next \in 0 .. b - a
      BY <1>1, <2>1, <3>1
    <3>3. "close" \in {"more", "error", "close"} /\ "close" # "more"
      OBVIOUS
    <3> HIDE DEF Is, stop
    <3>4. Is(j, L[i])
      BY <2>7, <3>1, <3>2, <3>3
    <3> QED  BY <2>3, <3>4
  <2>11. CASE ~FrameWaits(units, b, c) /\ IsFrame(u) /\ u[1] \notin {"Text", "Close"}
    <3> DEFINE n == j + 1
    <3>1. ~EndOfFrames(units, at[j]) /\ u = units[at[j] + 1]
      BY <2>3, <2>6, <2>11
    <3>2. /\ n \in 1..count /\ at[n] = at[j] + 1 + u[3]
          /\ SubSeq(body, pay[j] + 1, pay[n]) = SubSeq(units, at[n] - Carried(u) + 1, at[n])
      <4>1. /\ j + 1 \in 1..count
            /\ at[j + 1] = at[j] + 1 + units[at[j] + 1][3]
            /\ SubSeq(body, pay[j] + 1, pay[j + 1]) =
                   SubSeq(units, at[j + 1] - Carried(units[at[j] + 1]) + 1, at[j + 1])
        BY <3>1, NextFrame
      <4> QED  BY <3>1, <4>1
    <3>3. n \in S /\ n >= k /\ n \in 0..count
      <4>1. n >= k /\ n \in 0..count
        BY <1>1, <1>6, <3>2
      <4> HIDE DEF S
      <4> QED  BY <1>6, <4>1
    <3> HIDE DEF n
    <3>4. /\ a + next = at[n] /\ at[n] - a = next /\ at[n] <= b
      <4>1. next \in i + 1 .. b - a /\ Carried(u) \in 0 .. u[3]
        BY <2>6, <2>11
      <4>2. at[n] = c + 1 + u[3] /\ at[n] \in Nat /\ next = i + 1 + u[3]
        BY <1>1, <2>3, <3>2, <3>3
      <4>3. next \in Int /\ next <= b - a
        BY <1>1, <2>1, <4>1
      <4>4. u[3] \in Nat
        <5>1. c # b /\ c <= b
          BY <1>6, <2>3, <2>11 DEF FrameWaits
        <5>2. c + 1 \in 1..Len(units)
          <6>1. c \in Nat /\ b \in Nat /\ b <= Len(units) /\ Len(units) \in Nat
            BY <1>1, <2>3
          <6> QED  BY ONLY <5>1, <6>1
        <5>3. u \in Unit
          BY <2>3, <5>2, ElementOfSeq
        <5> QED  BY <5>3 DEF Unit
      <4>5. a \in Nat /\ i \in Nat /\ c = a + i /\ b \in Nat /\ c \in Nat
        BY <1>1, <2>1, <2>3
      <4>6. a + next = c + 1 + u[3] /\ a + next <= b /\ a + next - a = next
        <5> DEFINE size == u[3]
        <5>1. size \in Nat /\ next = i + 1 + size
          BY <4>2, <4>4
        <5> HIDE DEF size
        <5>2. a + next = c + 1 + size /\ a + next <= b /\ a + next - a = next
          BY ONLY <4>3, <4>5, <5>1
        <5> QED  BY <5>2 DEF size
      <4> QED  BY <4>2, <4>6
    <3>5. Is(n, L[next])
      <4> HIDE DEF Is
      <4> QED  BY <3>3, <3>4
    <3>6. PICK m \in n..count : \E p, pongs, used, end :
                /\ at[m] <= b /\ p = SubSeq(body, pay[n] + 1, pay[m])
                /\ pongs \in Nat /\ used \in 0 .. b - a /\ end \in {"more", "error", "close"}
                /\ L[next] = [body |-> p, pongs |-> pongs, used |-> used, end |-> end]
                /\ end = "more" => a + used = at[m] /\ FrameWaits(units, b, at[m])
      BY <3>5
    <3>7. PICK p, pongs, used, end :
                /\ at[m] <= b /\ p = SubSeq(body, pay[n] + 1, pay[m])
                /\ pongs \in Nat /\ used \in 0 .. b - a /\ end \in {"more", "error", "close"}
                /\ L[next] = [body |-> p, pongs |-> pongs, used |-> used, end |-> end]
                /\ end = "more" => a + used = at[m] /\ FrameWaits(units, b, at[m])
      BY <3>6
    <3>8. m \in j..count /\ m \in 0..count /\ n \in 0..m /\ j \in 0..n
      BY <3>3 DEF n
    <3> DEFINE x == pay[j]
               y == pay[n]
               z == pay[m]
    <3>9. x \in 0..Len(body) /\ y \in x..Len(body) /\ z \in y..Len(body)
      BY SMTT(30), <1>1, <1>5, <3>3, <3>8
    <3> DEFINE part == SubSeq(units, (a + next) - Carried(u) + 1, a + next)
               pp == part \o p
    <3>10. part = SubSeq(body, x + 1, y)
      <4>1. part = SubSeq(units, at[n] - Carried(u) + 1, at[n])
        <5> DEFINE x1 == a + next
        <5>1. x1 = at[n]
          BY <3>4
        <5>2. part = SubSeq(units, x1 - Carried(u) + 1, x1)
          OBVIOUS
        <5> HIDE DEF x1, part
        <5> QED  BY <5>1, <5>2
      <4> HIDE DEF part
      <4> QED  BY <3>2, <4>1
    <3>11. p = SubSeq(body, y + 1, z)
      BY <3>7
    <3> HIDE DEF x, y, z, part
    <3>12. pp = SubSeq(body, x + 1, z)
      BY <3>9, <3>10, <3>11, WindowsJoin
    <3>13. p \in Seq(Unit)
      BY SMTT(30), <3>9, <3>11, LenProperties, Window
    <3>14. PICK more \in Nat : L[i] = [body |-> pp, pongs |-> more, used |-> used, end |-> end]
      <4> DEFINE Rec(bd, pg, us, en) == [body |-> bd, pongs |-> pg, used |-> us, end |-> en]
      <4>1. \A bd \in Seq(Unit), pg \in Nat : \A us, en :
               L[next] = Rec(bd, pg, us, en) =>
                   \E more \in Nat : L[i] = Rec(part \o bd, more, us, en)
        BY <2>6, <2>11, Zenon DEF part
      <4>2. \E more \in Nat : L[i] = Rec(part \o p, more, used, end)
        <5>1. p \in Seq(Unit) /\ pongs \in Nat /\ L[next] = Rec(p, pongs, used, end)
          BY <3>7, <3>13
        <5> HIDE DEF Rec, part
        <5> QED  BY <4>1, <5>1
      <4> QED  BY <4>2
    <3> HIDE DEF pp
    <3>15. pp = SubSeq(body, pay[j] + 1, pay[m])
      BY <3>12 DEF x, z
    <3> QED  BY <2>3, <3>7, <3>8, <3>14, <3>15
  <2> QED  BY <2>8, <2>9, <2>10, <2>11
<1>7. count \in S
  <2>1. count \in 0..count /\ ~(count + 1 \in 0..count)
    OBVIOUS
  <2> HIDE DEF Is
  <2> QED  BY <1>6, <2>1
<1>8. ASSUME NEW j \in 0 .. count - 1, j + 1 \in S PROVE j \in S
  <2>1. j \in 0..count
    OBVIOUS
  <2> HIDE DEF Is
  <2> QED  BY <1>6, <1>8, <2>1
<1> HIDE DEF S
<1>9. k \in S
  BY <1>7, <1>8, DownInduction
<1>10. Is(k, L[at[k] - a])
  <2>1. k >= k /\ at[k] <= b
    BY <1>1
  <2> HIDE DEF Is, L
  <2> QED  BY <1>9, <2>1 DEF S
<1> DEFINE f == Unwrap(w, at[k] - a)
<1>11. Is(k, f)
  <2>1. f = L[at[k] - a]
    BY <1>4
  <2> HIDE DEF Is, L, f
  <2> QED  BY <1>10, <2>1
<1> HIDE DEF f
<1>12. PICK m \in k..count : \E p, pongs, used, end :
           /\ at[m] <= b /\ p = SubSeq(body, pay[k] + 1, pay[m])
           /\ pongs \in Nat /\ used \in 0 .. b - a /\ end \in {"more", "error", "close"}
           /\ f = [body |-> p, pongs |-> pongs, used |-> used, end |-> end]
           /\ end = "more" => a + used = at[m] /\ FrameWaits(units, b, at[m])
  BY <1>11
<1>13. /\ at[m] <= b /\ f.body = SubSeq(body, pay[k] + 1, pay[m])
       /\ f.pongs \in Nat /\ f.used \in 0 .. b - a /\ f.end \in {"more", "error", "close"}
       /\ f.end = "more" => a + f.used = at[m] /\ FrameWaits(units, b, at[m])
  <2>1. PICK p, pongs, used, end :
           /\ at[m] <= b /\ p = SubSeq(body, pay[k] + 1, pay[m])
           /\ pongs \in Nat /\ used \in 0 .. b - a /\ end \in {"more", "error", "close"}
           /\ f = [body |-> p, pongs |-> pongs, used |-> used, end |-> end]
           /\ end = "more" => a + used = at[m] /\ FrameWaits(units, b, at[m])
    BY <1>12
  <2>2. f.body = p /\ f.pongs = pongs /\ f.used = used /\ f.end = end
    BY <2>1
  <2> QED  BY <2>1, <2>2
<1>14. FramesUpto(units, body, count, at, pay, a, b, k, f)
  BY <1>13 DEF FramesUpto
<1> QED  BY <1>14 DEF f

-----------------------------------------------------------------------------
\* There is a least number in a set that is not empty.
LEMMA Least ==
    ASSUME NEW S \in SUBSET Nat, S # {}
    PROVE  \E i \in S : \A j \in S : i <= j
<1> SUFFICES ASSUME \A i \in S : \E j \in S : ~(i <= j) PROVE FALSE
  OBVIOUS
<1> DEFINE D == {n \in Nat : \A k \in 0..n : k \notin S}
<1>1. 0 \in D
  <2>1. ASSUME 0 \in S PROVE FALSE
    <3>1. PICK j \in S : ~(0 <= j)
      BY <2>1
    <3> QED  BY <3>1
  <2> QED  BY <2>1
<1>2. ASSUME NEW n \in Nat, n \in D PROVE n + 1 \in D
  <2>1. ASSUME n + 1 \in S PROVE FALSE
    <3>1. PICK j \in S : ~(n + 1 <= j)
      BY <2>1
    <3>2. j \in 0..n
      BY <3>1
    <3> QED  BY <1>2, <3>2
  <2>2. \A k \in 0 .. n + 1 : k \in 0..n \/ k = n + 1
    BY <1>2
  <2> QED  BY <1>2, <2>1, <2>2
<1> HIDE DEF D
<1>3. Nat \subseteq D
  BY <1>1, <1>2, Induction
<1>4. PICK n \in S : TRUE
  OBVIOUS
<1>5. n \in D /\ n \in 0..n
  BY <1>3
<1> QED  BY <1>4, <1>5 DEF D

\* TryHandshake waits only while no request has ended and there is room for one, and
\* takes the first that ends, if it is an upgrade.
LEMMA TryHandshakeIs ==
    ASSUME NEW bytes \in Seq(Unit)
    PROVE  LET t == TryHandshake(bytes)
           IN  /\ t.status \in {"ok", "error", "incomplete"}
               /\ t.status = "incomplete" => EndOfRequest(bytes) = {} /\ Len(bytes) <= MaxHandshake
               /\ t.status = "ok" => t.used \in 1..Len(bytes) /\ Upgrades(bytes, t.used)
<1> DEFINE ends == EndOfRequest(bytes)
           first == CHOOSE i \in ends : \A j \in ends : i <= j
           t == TryHandshake(bytes)
<1>1. Len(bytes) \in Nat /\ MaxHandshake \in Nat
  BY LenProperties, FramingAssumption
<1>2. CASE Len(bytes) > MaxHandshake
  <2>1. t = [status |-> "error", used |-> 0]
    BY <1>1, <1>2 DEF TryHandshake
  <2> HIDE DEF t
  <2>2. t.status = "error"
    BY <2>1
  <2> QED  BY <2>2 DEF t
<1>3. CASE Len(bytes) <= MaxHandshake /\ ends = {}
  <2>1. t = [status |-> "incomplete", used |-> 0]
    BY <1>1, <1>3 DEF TryHandshake
  <2> HIDE DEF t
  <2>2. t.status = "incomplete"
    BY <2>1
  <2> QED  BY <1>3, <2>2 DEF t
<1>4. CASE Len(bytes) <= MaxHandshake /\ ends # {}
  <2>1. t = [status |-> IF bytes[first][1] = "upgrade" THEN "ok" ELSE "error", used |-> first]
    BY <1>1, <1>4 DEF TryHandshake
  <2>2. ends \in SUBSET Nat
    BY DEF EndOfRequest
  <2>3. first \in ends /\ \A j \in ends : first <= j
    <3> HIDE DEF ends
    <3>1. \E i \in ends : \A j \in ends : i <= j
      BY <1>4, <2>2, Least
    <3> QED  BY <3>1
  <2> HIDE DEF first
  <2>4. first \in 1..Len(bytes) /\ first \in Nat
    BY <2>2, <2>3 DEF EndOfRequest
  <2>5. ASSUME NEW j \in 1 .. first - 1 PROVE bytes[j][1] \notin {"upgrade", "refused"}
    <3>1. j \notin ends
      <4>1. ~(first <= j)
        BY <2>4
      <4> QED  BY <2>3, <4>1
    <3>2. j \in 1..Len(bytes)
      BY <1>1, <2>4
    <3> QED  BY <3>1, <3>2 DEF EndOfRequest
  <2>6. bytes[first][1] = "upgrade" => Upgrades(bytes, first)
    BY <2>5 DEF Upgrades
  <2> HIDE DEF t
  <2>7. /\ t.status \in {"ok", "error"} /\ t.used = first
        /\ t.status = "ok" => bytes[first][1] = "upgrade"
    BY <2>1
  <2>8. t.status = "ok" => t.used \in 1..Len(bytes) /\ Upgrades(bytes, t.used)
    BY <2>4, <2>6, <2>7
  <2> QED  BY <2>7, <2>8 DEF t
<1> QED  BY <1>1, <1>2, <1>3, <1>4

\* A stream is upgraded once at most.
LEMMA UpgradesOnce ==
    ASSUME NEW units \in Seq(Unit), NEW i \in 1..Len(units), NEW j \in 1..Len(units),
           Upgrades(units, i), Upgrades(units, j)
    PROVE  i = j
<1>1. Len(units) \in Nat
  BY LenProperties
<1>2. ~(i \in 1 .. j - 1) /\ ~(j \in 1 .. i - 1)
  BY DEF Upgrades
<1> QED  BY <1>1, <1>2

-----------------------------------------------------------------------------
\* Of the packets of a stream, the bytes of which are there up to b, those that are
\* there have been handed on, and rest is what is there after them.
HandedOn(s, done, rest, b) ==
    \E cut \in [0..Len(s.packets) -> 0..Len(s.body)] :
       /\ PacketsAt(s.body, s.packets, cut)
       /\ \E m \in 0..Len(s.packets) :
             /\ cut[m] <= b /\ done = SubSeq(s.packets, 1, m)
             /\ rest = SubSeq(s.body, cut[m] + 1, b) /\ Waits(s.body, b, cut[m])

\* Of the packets, some have been handed on, and nothing else.
HandedSome(s, done) == \E m \in 0..Len(s.packets) : done = SubSeq(s.packets, 1, m)

\* When more of the body comes FramePackets hands on the packets that it completes.
LEMMA HandsOn ==
    ASSUME NEW s, s.body \in Seq(Unit), s.packets \in Seq(Seq(Unit)),
           NEW done, NEW rest, NEW b \in 0..Len(s.body), NEW c \in b..Len(s.body),
           HandedOn(s, done, rest, b)
    PROVE  LET bytes == rest \o SubSeq(s.body, b + 1, c)
               f == FramePackets(bytes)
           IN  /\ bytes \in Seq(Unit) /\ f.used \in 0..Len(bytes) /\ f.bad \in BOOLEAN
               /\ HandedSome(s, done \o f.packets)
               /\ ~f.bad => HandedOn(s, done \o f.packets, Keep(bytes, f.used), c)
<1> DEFINE body == s.body
           packets == s.packets
           bytes == rest \o SubSeq(body, b + 1, c)
           f == FramePackets(bytes)
<1>1. Len(body) \in Nat /\ Len(packets) \in Nat /\ body \in Seq(Unit) /\ packets \in Seq(Seq(Unit))
      /\ body = s.body /\ packets = s.packets
  BY LenProperties
<1>2. PICK cut \in [0..Len(packets) -> 0..Len(body)] :
         /\ PacketsAt(body, packets, cut)
         /\ \E m \in 0..Len(packets) :
               /\ cut[m] <= b /\ done = SubSeq(packets, 1, m)
               /\ rest = SubSeq(body, cut[m] + 1, b) /\ Waits(body, b, cut[m])
  BY DEF HandedOn
<1>3. PICK m \in 0..Len(packets) :
         /\ cut[m] <= b /\ done = SubSeq(packets, 1, m)
         /\ rest = SubSeq(body, cut[m] + 1, b) /\ Waits(body, b, cut[m])
  BY <1>2
<1> HIDE DEF body, packets
<1> DEFINE a == cut[m]
<1>4. a \in 0..Len(body) /\ b \in a..Len(body) /\ c \in b..Len(body) /\ c \in a..Len(body)
  <2> DEFINE n == Len(body)
  <2>1. n \in Nat /\ a \in 0..n /\ a <= b /\ b \in 0..n /\ c \in b..n
    BY <1>1, <1>3
  <2> HIDE DEF n, a
  <2>2. a \in 0..n /\ b \in a..n /\ c \in b..n /\ c \in a..n
    BY ONLY <2>1
  <2> QED  BY <2>2 DEF n
<1>5. bytes = SubSeq(body, a + 1, c)
  <2>1. rest = SubSeq(body, a + 1, b)
    BY <1>3
  <2> HIDE DEF a
  <2> QED  BY <1>1, <1>4, <2>1, WindowsJoin
<1>6. bytes \in Seq(Unit) /\ Len(bytes) = c - a
  <2> HIDE DEF a, bytes
  <2> QED  BY <1>1, <1>4, <1>5, Window
<1>7. f.used \in Nat /\ PacketsUpto(body, packets, cut, m, c, f)
  <2>1. LET g == FramePackets(SubSeq(body, cut[m] + 1, c))
        IN  g.used \in Nat /\ PacketsUpto(body, packets, cut, m, c, g)
    BY <1>1, <1>2, <1>4, FramePacketsIs
  <2> QED  BY <1>5, <2>1
<1> HIDE DEF f, bytes
<1>8. PICK k \in m..Len(packets) :
         /\ cut[k] <= c
         /\ f.packets = SubSeq(packets, m + 1, k) /\ f.used = cut[k] - cut[m] /\ f.bad \in BOOLEAN
         /\ ~f.bad => Waits(body, c, cut[k])
  BY <1>7 DEF PacketsUpto
<1>9. k \in 0..Len(packets) /\ cut[k] \in 0..Len(body)
  <2>1. k \in 0..Len(packets)
    BY <1>1
  <2> QED  BY <2>1
<1>10. done \o f.packets = SubSeq(packets, 1, k)
  <2> DEFINE z == 0
  <2>1. z \in 0..Len(packets) /\ m \in z..Len(packets) /\ k \in m..Len(packets)
    BY <1>1
  <2>2. done = SubSeq(packets, z + 1, m) /\ z + 1 = 1
    BY <1>3
  <2> HIDE DEF z
  <2>3. SubSeq(packets, z + 1, m) \o SubSeq(packets, m + 1, k) = SubSeq(packets, z + 1, k)
    <3>1. packets \in Seq(Seq(Unit))
      BY <1>1
    <3> QED  BY <2>1, <3>1, WindowsJoin
  <2> QED  BY <1>8, <2>2, <2>3
<1>11. HandedSome(s, done \o f.packets)
  BY <1>1, <1>9, <1>10 DEF HandedSome
<1>12. f.used \in 0..Len(bytes)
  BY <1>1, <1>4, <1>6, <1>7, <1>8, <1>9
<1>13. Keep(bytes, f.used) = SubSeq(body, cut[k] + 1, c)
  <2> DEFINE u == f.used
             v == c - a
             w == SubSeq(body, a + 1, c)
  <2>1. u \in 0 .. c - a /\ v \in u .. c - a /\ a + u = cut[k] /\ a + v = c
    BY <1>1, <1>4, <1>6, <1>8, <1>9, <1>12
  <2>2. Keep(bytes, f.used) = SubSeq(w, u + 1, v)
    BY <1>5, <1>6 DEF Keep
  <2> HIDE DEF u, v, a
  <2>3. SubSeq(w, u + 1, v) = SubSeq(body, a + u + 1, a + v)
    <3>1. body \in Seq(Unit) /\ a \in 0..Len(body) /\ c \in a..Len(body)
      BY <1>1, <1>4
    <3> QED  BY <2>1, <3>1, WindowInWindow
  <2> QED  BY <2>1, <2>2, <2>3
<1>14. ~f.bad => HandedOn(s, done \o f.packets, Keep(bytes, f.used), c)
  BY <1>1, <1>2, <1>8, <1>9, <1>10, <1>13 DEF HandedOn
<1> QED  BY <1>6, <1>8, <1>11, <1>12, <1>14 DEF bytes, f, body

\* When all of the body is there, all of its packets have been handed on.
LEMMA HandedAll ==
    ASSUME NEW s, s.body \in Seq(Unit), s.packets \in Seq(Seq(Unit)), NEW done, NEW rest,
           HandedOn(s, done, rest, Len(s.body))
    PROVE  done = s.packets
<1> DEFINE body == s.body
           packets == s.packets
<1>1. Len(body) \in Nat /\ Len(packets) \in Nat /\ body \in Seq(Unit) /\ packets \in Seq(Seq(Unit))
      /\ body = s.body /\ packets = s.packets
  BY LenProperties
<1>2. PICK cut \in [0..Len(packets) -> 0..Len(body)] :
         /\ PacketsAt(body, packets, cut)
         /\ \E m \in 0..Len(packets) :
               done = SubSeq(packets, 1, m) /\ Waits(body, Len(body), cut[m])
  BY DEF HandedOn
<1>3. PICK m \in 0..Len(packets) : done = SubSeq(packets, 1, m) /\ Waits(body, Len(body), cut[m])
  BY <1>2
<1> HIDE DEF body, packets
<1>4. EndOfPackets(body, cut[m])
  <2> DEFINE c == cut[m]
             size == body[c + 1][3]
  <2>1. c \in Nat /\ c <= Len(body)
    BY <1>1
  <2>2. CASE Len(body) - c < HeaderSize
    BY <2>2 DEF EndOfPackets
  <2>3. CASE ~(Len(body) - c < HeaderSize)
    <3>1. c + 1 \in 1..Len(body)
      BY <1>1, <2>1, <2>3, FramingAssumption
    <3>2. body[c + 1] \in Unit
      BY <1>1, <3>1, ElementOfSeq
    <3>3. size \in Nat /\ Len(body) - c < size
      BY <1>3, <2>3, <3>2 DEF Waits, Unit
    <3> HIDE DEF c, size
    <3>4. ~(Len(body) - c >= size)
      BY <1>1, <2>1, <3>3
    <3> QED  BY <3>4 DEF EndOfPackets, Whole, c, size
  <2> QED  BY <2>2, <2>3
<1>5. m = Len(packets)
  <2> SUFFICES ASSUME m # Len(packets) PROVE FALSE
    OBVIOUS
  <2> DEFINE k == m + 1
  <2>1. k \in 1..Len(packets) /\ k - 1 = m
    BY <1>1
  <2> HIDE DEF k
  <2>2. ~EndOfPackets(body, cut[k - 1])
    BY <1>2, <2>1 DEF PacketsAt
  <2> QED  BY <1>4, <2>1, <2>2
<1>6. SubSeq(packets, 1, Len(packets)) = packets
  BY <1>1, SubSeqFull
<1> QED  BY <1>1, <1>3, <1>5, <1>6

-----------------------------------------------------------------------------
\* Of the frames of a stream, the units of which are there up to n, those that are
\* there have been taken off: they carry p bytes, and rest is what is there after them.
Unwrapped(s, n, rest, p) ==
    \E i, count \in 0..Len(s.units) :
       \E at \in [0..count -> i..Len(s.units)], pay \in [0..count -> 0..Len(s.body)] :
          /\ i # 0 /\ Upgrades(s.units, i) /\ at[0] = i
          /\ FramesAt(s.units, s.body, count, at, pay)
          /\ \E k \in 0..count :
                /\ p = pay[k] /\ at[k] <= n /\ rest = SubSeq(s.units, at[k] + 1, n)
                /\ FrameWaits(s.units, n, at[k])

\* Unwrap has taken off what frames there are of a stream up to c, and the payload from
\* p on.
Unwraps(s, p, c, bytes, u) ==
    \E q \in p..Len(s.body) :
       /\ u.body = SubSeq(s.body, p + 1, q)
       /\ u.pongs \in Nat /\ u.used \in 0..Len(bytes) /\ u.end \in {"more", "error", "close"}
       /\ u.end = "more" => Unwrapped(s, c, Keep(bytes, u.used), q)

\* When more of the stream has come Unwrap takes off the frames that it completes.
LEMMA UnwrapsMore ==
    ASSUME NEW s, s.units \in Seq(Unit), s.body \in Seq(Unit),
           NEW i \in 0..Len(s.units), NEW count \in 0..Len(s.units),
           NEW at \in [0..count -> i..Len(s.units)], NEW pay \in [0..count -> 0..Len(s.body)],
           i # 0, Upgrades(s.units, i), at[0] = i, FramesAt(s.units, s.body, count, at, pay),
           NEW k \in 0..count, NEW a \in 0..at[k], NEW c \in at[k]..Len(s.units)
    PROVE  LET bytes == SubSeq(s.units, a + 1, c)
           IN  Unwraps(s, pay[k], c, bytes, Unwrap(bytes, at[k] - a))
<1> DEFINE units == s.units
           body == s.body
           bytes == SubSeq(units, a + 1, c)
           u == Unwrap(bytes, at[k] - a)
<1>1. /\ Len(units) \in Nat /\ Len(body) \in Nat /\ count \in Nat
      /\ units = s.units /\ body = s.body /\ units \in Seq(Unit) /\ body \in Seq(Unit)
      /\ i \in 0..Len(units) /\ count \in 0..Len(units)
      /\ at \in [0..count -> i..Len(units)] /\ pay \in [0..count -> 0..Len(body)]
      /\ FramesAt(units, body, count, at, pay) /\ c \in at[k]..Len(units)
  BY SMTT(30), LenProperties
<1> HIDE DEF units, body
<1>2. \A j \in 0..count : at[j] \in 0..Len(units) /\ at[j] \in Nat /\ pay[j] \in Nat
  <2> SUFFICES ASSUME NEW j \in 0..count
               PROVE  at[j] \in 0..Len(units) /\ at[j] \in Nat /\ pay[j] \in Nat
    OBVIOUS
  <2>1. at[j] \in i..Len(units) /\ pay[j] \in 0..Len(body) /\ i \in Nat /\ Len(units) \in Nat
    BY <1>1
  <2> QED  BY <2>1
<1>3. at \in [0..count -> 0..Len(units)]
  BY <1>1, <1>2
<1>4. FramesUpto(units, body, count, at, pay, a, c, k, u)
  BY <1>1, <1>3, UnwrapIs
<1>5. a \in 0..Len(units) /\ c \in a..Len(units) /\ a \in Nat /\ c \in Nat
  <2>1. at[k] \in Nat /\ Len(units) \in Nat /\ at[k] <= Len(units)
    BY <1>1, <1>2
  <2>2. a \in 0..at[k] /\ c \in at[k]..Len(units)
    BY <1>1
  <2> DEFINE x == at[k]
  <2> HIDE DEF x
  <2>3. x \in Nat /\ x <= Len(units) /\ a \in 0..x /\ c \in x..Len(units)
    BY <2>1, <2>2 DEF x
  <2> QED  BY <1>1, <2>3
<1>6. bytes \in Seq(Unit) /\ Len(bytes) = c - a
  <2>1. units \in Seq(Unit) /\ a \in 0..Len(units) /\ c \in a..Len(units)
    BY <1>1, <1>5
  <2> QED  BY <2>1, Window, Zenon
<1> HIDE DEF u
<1>7. PICK m \in k..count :
        /\ at[m] <= c /\ u.body = SubSeq(body, pay[k] + 1, pay[m])
        /\ u.pongs \in Nat /\ u.used \in 0 .. c - a /\ u.end \in {"more", "error", "close"}
        /\ u.end = "more" => a + u.used = at[m] /\ FrameWaits(units, c, at[m])
  BY <1>4 DEF FramesUpto
<1>8. m \in 0..count /\ k \in 0..m
  BY <1>1
<1>9. pay[m] \in pay[k]..Len(body)
  <2>1. pay[k] <= pay[m]
    BY <1>1, <1>3, <1>8, FramesGrow
  <2>2. pay[m] \in 0..Len(body) /\ pay[k] \in 0..Len(body)
    BY <1>1, <1>8
  <2> QED  BY <1>1, <2>1, <2>2
<1>10. ASSUME u.end = "more" PROVE Unwrapped(s, c, Keep(bytes, u.used), pay[m])
  <2> DEFINE x == u.used
             v == c - a
  <2>1. x \in 0 .. c - a /\ v \in x .. c - a /\ a + x = at[m] /\ a + v = c
    BY <1>5, <1>7, <1>10
  <2>2. Keep(bytes, x) = SubSeq(bytes, x + 1, v)
    BY <1>6 DEF Keep
  <2> HIDE DEF x, v
  <2>3. SubSeq(bytes, x + 1, v) = SubSeq(units, a + x + 1, a + v)
    BY <1>1, <1>5, <2>1, WindowInWindow
  <2>4. Keep(bytes, x) = SubSeq(units, at[m] + 1, c)
    BY <2>1, <2>2, <2>3
  <2>5. \E j \in 0..count :
           /\ pay[m] = pay[j] /\ at[j] <= c /\ Keep(bytes, x) = SubSeq(units, at[j] + 1, c)
           /\ FrameWaits(units, c, at[j])
    BY <1>7, <1>8, <1>10, <2>4
  <2>6. Unwrapped(s, c, Keep(bytes, x), pay[m])
    BY <1>1, <2>5, Zenon DEF Unwrapped
  <2> QED  BY <2>6 DEF x
<1> DEFINE z == pay[k]
           q == pay[m]
<1>11. /\ q \in z..Len(body) /\ u.body = SubSeq(body, z + 1, q)
       /\ u.pongs \in Nat /\ u.used \in 0..Len(bytes) /\ u.end \in {"more", "error", "close"}
       /\ u.end = "more" => Unwrapped(s, c, Keep(bytes, u.used), q)
  BY <1>6, <1>7, <1>9, <1>10
<1> HIDE DEF q, z, bytes
<1>12. Unwraps(s, z, c, bytes, u)
  BY <1>1, <1>11 DEF Unwraps
<1> QED  BY <1>1, <1>12 DEF z, bytes, u

\* When all of the units are there, all of the payload has been taken off.
LEMMA UnwrappedAll ==
    ASSUME NEW s, s.units \in Seq(Unit), s.body \in Seq(Unit), NEW rest, NEW p,
           Unwrapped(s, Len(s.units), rest, p)
    PROVE  p = Len(s.body)
<1> DEFINE units == s.units
           body == s.body
           n == Len(units)
<1>1. n \in Nat /\ units = s.units /\ body = s.body /\ n = Len(units) /\ units \in Seq(Unit)
  BY LenProperties
<1>2. PICK i \in 0..n, count \in 0..n :
        \E at \in [0..count -> i..n], pay \in [0..count -> 0..Len(body)] :
          /\ FramesAt(units, body, count, at, pay)
          /\ \E k \in 0..count : p = pay[k] /\ at[k] <= n /\ FrameWaits(units, n, at[k])
  BY DEF Unwrapped
<1>3. PICK at \in [0..count -> i..n], pay \in [0..count -> 0..Len(body)] :
          /\ FramesAt(units, body, count, at, pay)
          /\ \E k \in 0..count : p = pay[k] /\ at[k] <= n /\ FrameWaits(units, n, at[k])
  BY <1>2
<1>4. PICK k \in 0..count : p = pay[k] /\ at[k] <= n /\ FrameWaits(units, n, at[k])
  BY <1>3
<1> HIDE DEF units, body, n
<1>5. count \in Nat /\ at[k] \in i..n /\ i \in Nat
  BY <1>1
<1> DEFINE c == at[k]
           size == units[c + 1][3]
<1>6. EndOfFrames(units, c)
  <2>1. c \in Nat /\ c <= n /\ (c = n \/ (IsFrame(units[c + 1]) /\ n - c < 1 + size))
    <3>1. n = c \/ (IsFrame(units[c + 1]) /\ n - c < 1 + size)
      BY <1>4 DEF FrameWaits
    <3> QED  BY <1>1, <1>4, <1>5, <3>1
  <2>2. CASE c = n
    BY <1>1, <2>2 DEF EndOfFrames
  <2>3. CASE c # n
    <3>1. c + 1 \in 1..n
      BY SMTT(30), <1>1, <2>1, <2>3
    <3>2. units[c + 1] \in Unit
      BY <1>1, <3>1, ElementOfSeq
    <3>3. size \in Nat /\ n - c < 1 + size
      BY <2>1, <2>3, <3>2 DEF Unit
    <3> HIDE DEF c, size
    <3>4. ~(n - c >= 1 + size)
      BY SMTT(30), <1>1, <2>1, <3>3
    <3> QED  BY <1>1, <3>4 DEF EndOfFrames, FrameWhole, size
  <2> QED  BY <2>2, <2>3
<1>7. k = count
  <2> SUFFICES ASSUME k # count PROVE FALSE
    OBVIOUS
  <2> DEFINE j == k + 1
  <2>1. j \in 1..count /\ j - 1 = k
    BY <1>5
  <2> HIDE DEF j
  <2>2. ~EndOfFrames(units, at[j - 1])
    BY <1>3, <2>1 DEF FramesAt
  <2> QED  BY <1>6, <2>1, <2>2
<1>8. pay[count] = Len(body)
  BY <1>3 DEF FramesAt
<1> QED  BY <1>1, <1>4, <1>7, <1>8

-----------------------------------------------------------------------------
\* What has been made of a stream when n units have arrived and what is there has been
\* read: the packets that are there are handed on, and the rest is kept.
ReadUpto(s, n, rest, shaken, body, done) ==
    IF ~s.web THEN HandedOn(s, done, rest, n)
    ELSE IF ~shaken
    THEN /\ done = <<>> /\ body = <<>> /\ rest = SubSeq(s.units, 1, n)
         /\ EndOfRequest(rest) = {} /\ n <= MaxHandshake
    ELSE \E p \in 0..Len(s.body) : Unwrapped(s, n, rest, p) /\ HandedOn(s, done, body, p)

\* What there is to know of a stream.
LEMMA StreamIs ==
    ASSUME NEW s \in Streams
    PROVE  /\ s.web \in BOOLEAN /\ s.units \in Seq(Unit) /\ s.body \in Seq(Unit)
           /\ s.packets \in Seq(Seq(Unit)) /\ Carries(s.body, s.packets)
           /\ s.web => Wraps(s.units, s.body)
           /\ ~s.web => s.body = s.units
           /\ Len(s.units) \in Nat /\ Len(s.body) \in Nat /\ Len(s.packets) \in Nat
BY StreamsAssumption, LenProperties

\* Before anything of the body has arrived nothing has been handed on.
LEMMA HandedNone ==
    ASSUME NEW s \in Streams
    PROVE  HandedOn(s, <<>>, <<>>, 0) /\ HandedSome(s, <<>>)
<1>1. /\ s.body \in Seq(Unit) /\ Len(s.body) \in Nat /\ Len(s.packets) \in Nat
      /\ Carries(s.body, s.packets)
  BY StreamIs
<1>2. PICK cut \in [0..Len(s.packets) -> 0..Len(s.body)] : PacketsAt(s.body, s.packets, cut)
  BY <1>1 DEF Carries
<1>3. cut[0] = 0 /\ 0 \in 0..Len(s.packets)
  BY <1>1, <1>2 DEF PacketsAt
<1>4. <<>> = SubSeq(s.packets, 1, 0) /\ <<>> = SubSeq(s.body, 1, 0)
  BY SubSeqEmpty
<1>5. Waits(s.body, 0, 0)
  BY FramingAssumption DEF Waits
<1>6. cut[0] <= 0 /\ <<>> = SubSeq(s.body, cut[0] + 1, 0) /\ Waits(s.body, 0, cut[0])
  BY <1>3, <1>4, <1>5
<1>7. HandedOn(s, <<>>, <<>>, 0)
  BY <1>2, <1>3, <1>4, <1>6 DEF HandedOn
<1> QED  BY <1>3, <1>4, <1>7 DEF HandedSome

\* What has been handed on is some of the packets.
LEMMA OnIsSome ==
    ASSUME NEW s \in Streams, NEW done, NEW rest, NEW b, HandedOn(s, done, rest, b)
    PROVE  HandedSome(s, done) /\ done \o <<>> = done
<1>1. PICK m \in 0..Len(s.packets) : done = SubSeq(s.packets, 1, m)
  BY DEF HandedOn
<1>2. Len(s.packets) \in Nat /\ s.packets \in Seq(Seq(Unit))
  BY StreamIs
<1> DEFINE z == 0
<1>3. z \in 0..Len(s.packets) /\ m \in z..Len(s.packets) /\ done = SubSeq(s.packets, z + 1, m)
  BY <1>1, <1>2
<1> HIDE DEF z
<1>4. done \in Seq(Seq(Unit))
  BY <1>2, <1>3, Window
<1>5. done \o <<>> = done
  BY <1>4, ConcatEmptySeq
<1> QED  BY <1>1, <1>5 DEF HandedSome

\* What WebFrames makes of what Unwrap leaves, and hands on of its payload.
LEMMA WebFramesIs ==
    ASSUME stream \in Streams, handshakeDone \in BOOLEAN, NEW p \in 0..Len(stream.body),
           HandedOn(stream, handled, payload, p), NEW bytes \in Seq(Unit), NEW i, NEW c,
           Unwraps(stream, p, c, bytes, Unwrap(bytes, i))
    PROVE  LET r == WebFrames(bytes, i)
           IN  /\ r.used \in 0..Len(bytes) /\ r.upgraded = TRUE /\ r.replies \in Nat
               /\ HandedSome(stream, handled \o r.packets)
               /\ r.then = "rearm" =>
                      \E q \in 0..Len(stream.body) :
                          /\ Unwrapped(stream, c, Keep(bytes, r.used), q)
                          /\ HandedOn(stream, handled \o r.packets, r.rest, q)
<1> DEFINE u == Unwrap(bytes, i)
           body == payload \o u.body
           f == FramePackets(body)
           replies == u.pongs + (IF handshakeDone THEN 0 ELSE 1)
           r == WebFrames(bytes, i)
           Goal(x) == /\ x.used \in 0..Len(bytes) /\ x.upgraded = TRUE /\ x.replies \in Nat
                      /\ HandedSome(stream, handled \o x.packets)
                      /\ x.then = "rearm" =>
                            \E q \in 0..Len(stream.body) :
                                /\ Unwrapped(stream, c, Keep(bytes, x.used), q)
                                /\ HandedOn(stream, handled \o x.packets, x.rest, q)
<1>1. /\ stream.body \in Seq(Unit) /\ stream.packets \in Seq(Seq(Unit))
      /\ Len(stream.body) \in Nat /\ Len(bytes) \in Nat
  BY StreamIs, LenProperties
<1>2. /\ u.end = "error" => r = Framed(0, TRUE, body, <<>>, replies, "violation")
      /\ u.end = "close" => r = Framed(u.used, TRUE, body, <<>>, replies, "close")
      /\ u.end = "more" /\ f.bad => r = Framed(0, TRUE, body, f.packets, replies, "violation")
      /\ u.end = "more" /\ ~f.bad =>
             r = Framed(u.used, TRUE, Keep(body, f.used), f.packets, replies, "rearm")
  BY DEF WebFrames
<1> HIDE DEF u, r
<1>3. PICK q \in p..Len(stream.body) :
         /\ u.body = SubSeq(stream.body, p + 1, q)
         /\ u.pongs \in Nat /\ u.used \in 0..Len(bytes) /\ u.end \in {"more", "error", "close"}
         /\ u.end = "more" => Unwrapped(stream, c, Keep(bytes, u.used), q)
  BY DEF Unwraps, u
<1>4. replies \in Nat
  BY <1>3
<1>5. q \in 0..Len(stream.body) /\ q \in p..Len(stream.body)
  BY <1>1
<1>6. /\ f.used \in 0..Len(body) /\ f.bad \in BOOLEAN
      /\ HandedSome(stream, handled \o f.packets)
      /\ ~f.bad => HandedOn(stream, handled \o f.packets, Keep(body, f.used), q)
  <2> DEFINE b2 == payload \o SubSeq(stream.body, p + 1, q)
  <2>1. LET g == FramePackets(b2)
        IN  /\ b2 \in Seq(Unit) /\ g.used \in 0..Len(b2) /\ g.bad \in BOOLEAN
            /\ HandedSome(stream, handled \o g.packets)
            /\ ~g.bad => HandedOn(stream, handled \o g.packets, Keep(b2, g.used), q)
    BY <1>1, <1>5, HandsOn
  <2>2. body = b2
    BY <1>3
  <2> QED  BY <2>1, <2>2
<1>7. HandedSome(stream, handled \o <<>>)
  BY OnIsSome
<1> HIDE DEF body, f, replies
<1>8. CASE u.end \in {"error", "close"}
  <2>1. PICK used \in {0, u.used}, then \in {"violation", "close"} :
           r = Framed(used, TRUE, body, <<>>, replies, then)
    BY <1>2, <1>8
  <2>2. used \in 0..Len(bytes)
    BY <1>1, <1>3
  <2>3. r.used = used /\ r.upgraded = TRUE /\ r.replies = replies /\ r.packets = <<>> /\ r.then = then
    BY <2>1 DEF Framed
  <2>4. Goal(r)
    BY <1>4, <1>7, <2>1, <2>2, <2>3
  <2> QED  BY <2>4 DEF r
<1>9. CASE u.end = "more" /\ f.bad
  <2>1. r = Framed(0, TRUE, body, f.packets, replies, "violation")
    BY <1>2, <1>9
  <2>2. r.used = 0 /\ r.upgraded = TRUE /\ r.replies = replies /\ r.packets = f.packets
        /\ r.then = "violation"
    BY <2>1 DEF Framed
  <2>3. Goal(r)
    BY <1>1, <1>4, <1>6, <2>2
  <2> QED  BY <2>3 DEF r
<1>10. CASE u.end = "more" /\ ~f.bad
  <2>1. r = Framed(u.used, TRUE, Keep(body, f.used), f.packets, replies, "rearm")
    BY <1>2, <1>10
  <2>2. r.used = u.used /\ r.upgraded = TRUE /\ r.replies = replies /\ r.packets = f.packets
        /\ r.rest = Keep(body, f.used)
    BY <2>1 DEF Framed
  <2>3. /\ Unwrapped(stream, c, Keep(bytes, r.used), q)
        /\ HandedOn(stream, handled \o r.packets, r.rest, q)
    BY <1>3, <1>6, <1>10, <2>2
  <2>4. Goal(r)
    BY <1>3, <1>4, <1>5, <1>6, <2>2, <2>3
  <2> QED  BY <2>4 DEF r
<1> QED  BY <1>3, <1>6, <1>8, <1>9, <1>10

\* What OnRecv makes, of what there is to read when c units have arrived.
Answers(r, bytes, c) ==
    /\ r.used \in 0..Len(bytes) /\ r.upgraded \in BOOLEAN /\ r.replies \in Nat
    /\ HandedSome(stream, handled \o r.packets)
    /\ r.then = "rearm" => ReadUpto(stream, c, Keep(bytes, r.used),
                                    handshakeDone \/ r.upgraded, r.rest, handled \o r.packets)

\* The frames of a browser.
LEMMA WebFramesAnswer ==
    ASSUME stream \in Streams, stream.web, handshakeDone \in BOOLEAN,
           NEW p \in 0..Len(stream.body),
           HandedOn(stream, handled, payload, p), NEW bytes \in Seq(Unit), NEW i, NEW c,
           Unwraps(stream, p, c, bytes, Unwrap(bytes, i))
    PROVE  Answers(WebFrames(bytes, i), bytes, c)
<1> DEFINE r == WebFrames(bytes, i)
<1>1. /\ r.used \in 0..Len(bytes) /\ r.upgraded = TRUE /\ r.replies \in Nat
      /\ HandedSome(stream, handled \o r.packets)
      /\ r.then = "rearm" =>
             \E q \in 0..Len(stream.body) :
                 /\ Unwrapped(stream, c, Keep(bytes, r.used), q)
                 /\ HandedOn(stream, handled \o r.packets, r.rest, q)
  BY WebFramesIs
<1> HIDE DEF r
<1>2. (handshakeDone \/ r.upgraded) = TRUE
  BY <1>1
<1>3. r.then = "rearm" => ReadUpto(stream, c, Keep(bytes, r.used),
                                   handshakeDone \/ r.upgraded, r.rest, handled \o r.packets)
  BY <1>1, <1>2 DEF ReadUpto
<1> QED  BY <1>1, <1>3 DEF Answers, r

\* The bytes of a native client.
LEMMA RawAnswer ==
    ASSUME stream \in Streams, ~stream.web, handshakeDone \in BOOLEAN,
           NEW b \in 0..Len(stream.units), NEW c \in b..Len(stream.units),
           HandedOn(stream, handled, data, b)
    PROVE  LET bytes == data \o SubSeq(stream.units, b + 1, c)
           IN  bytes \in Seq(Unit) /\ Answers(RawRecv(bytes), bytes, c)
<1> DEFINE bytes == data \o SubSeq(stream.body, b + 1, c)
           f == FramePackets(bytes)
           r == RawRecv(bytes)
<1>1. stream.body = stream.units /\ stream.body \in Seq(Unit) /\ stream.packets \in Seq(Seq(Unit))
  BY StreamIs
<1>2. b \in 0..Len(stream.body) /\ c \in b..Len(stream.body)
  BY <1>1
<1>3. /\ bytes \in Seq(Unit) /\ f.used \in 0..Len(bytes) /\ f.bad \in BOOLEAN
      /\ HandedSome(stream, handled \o f.packets)
      /\ ~f.bad => HandedOn(stream, handled \o f.packets, Keep(bytes, f.used), c)
  BY <1>1, <1>2, HandsOn
<1>4. r = Framed(f.used, FALSE, <<>>, f.packets, 0, IF f.bad THEN "violation" ELSE "rearm")
  BY DEF RawRecv
<1> HIDE DEF bytes, f, r
<1>5. /\ r.used = f.used /\ r.upgraded = FALSE /\ r.replies = 0 /\ r.packets = f.packets
      /\ r.then = "rearm" => ~f.bad
  BY <1>4 DEF Framed
<1>6. r.then = "rearm" => ReadUpto(stream, c, Keep(bytes, r.used),
                                   handshakeDone \/ r.upgraded, r.rest, handled \o r.packets)
  BY <1>3, <1>5 DEF ReadUpto
<1>7. Answers(r, bytes, c)
  <2>1. r.used \in 0..Len(bytes) /\ r.upgraded \in BOOLEAN /\ r.replies \in Nat
    <3>1. r.used \in 0..Len(bytes)
      BY <1>3, <1>5
    <3>2. r.upgraded \in BOOLEAN
      BY <1>3, <1>5
    <3>3. r.replies \in Nat
      BY <1>3, <1>5
    <3> QED  BY <3>1, <3>2, <3>3
  <2>2. HandedSome(stream, handled \o r.packets)
    BY <1>3, <1>5
  <2> QED  BY <1>6, <2>1, <2>2, Zenon DEF Answers
<1> QED  BY <1>1, <1>3, <1>7 DEF bytes, r

\* A browser whose handshake is done.
LEMMA WebAnswer ==
    ASSUME stream \in Streams, stream.web, handshakeDone = TRUE,
           NEW b \in 0..Len(stream.units), NEW c \in b..Len(stream.units),
           NEW p \in 0..Len(stream.body),
           Unwrapped(stream, b, data, p), HandedOn(stream, handled, payload, p)
    PROVE  LET bytes == data \o SubSeq(stream.units, b + 1, c)
           IN  bytes \in Seq(Unit) /\ Answers(WebRecv(bytes), bytes, c)
<1> DEFINE units == stream.units
           body == stream.body
           n == Len(units)
           bytes == data \o SubSeq(units, b + 1, c)
<1>1. /\ units \in Seq(Unit) /\ body \in Seq(Unit) /\ n \in Nat
      /\ units = stream.units /\ body = stream.body /\ n = Len(units)
      /\ b \in 0..n /\ c \in b..n
  BY StreamIs
<1>2. PICK i \in 0..n, count \in 0..n :
        \E at \in [0..count -> i..n], pay \in [0..count -> 0..Len(body)] :
          /\ i # 0 /\ Upgrades(units, i) /\ at[0] = i
          /\ FramesAt(units, body, count, at, pay)
          /\ \E k \in 0..count : p = pay[k] /\ at[k] <= b /\ data = SubSeq(units, at[k] + 1, b)
  BY DEF Unwrapped
<1>3. PICK at \in [0..count -> i..n], pay \in [0..count -> 0..Len(body)] :
          /\ i # 0 /\ Upgrades(units, i) /\ at[0] = i
          /\ FramesAt(units, body, count, at, pay)
          /\ \E k \in 0..count : p = pay[k] /\ at[k] <= b /\ data = SubSeq(units, at[k] + 1, b)
  BY <1>2
<1>4. PICK k \in 0..count : p = pay[k] /\ at[k] <= b /\ data = SubSeq(units, at[k] + 1, b)
  BY <1>3
<1> DEFINE a == at[k]
<1> HIDE DEF units, body, n
<1>5. a \in 0..n /\ b \in a..n /\ c \in b..n /\ a \in 0..a /\ c \in a..n /\ a - a = 0
  <2>1. i \in Nat /\ a \in i..n /\ a <= b
    BY <1>1, <1>4
  <2> HIDE DEF a
  <2> QED  BY <1>1, <2>1
<1>6. bytes = SubSeq(units, a + 1, c)
  <2>1. data = SubSeq(units, a + 1, b)
    BY <1>4
  <2>2. units \in Seq(Unit) /\ a \in 0..Len(units) /\ b \in a..Len(units) /\ c \in b..Len(units)
    BY <1>1, <1>5
  <2>3. bytes = SubSeq(units, a + 1, b) \o SubSeq(units, b + 1, c)
    BY <2>1
  <2> HIDE DEF a, bytes
  <2> QED  BY <2>2, <2>3, WindowsJoin
<1>7. bytes \in Seq(Unit)
  <2>1. units \in Seq(Unit) /\ a \in 0..Len(units) /\ c \in a..Len(units)
    BY <1>1, <1>5
  <2> HIDE DEF a, bytes
  <2> QED  BY <1>6, <2>1, Window
<1>8. Unwraps(stream, p, c, bytes, Unwrap(bytes, 0))
  <2>1. LET w == SubSeq(stream.units, a + 1, c)
        IN  Unwraps(stream, pay[k], c, w, Unwrap(w, at[k] - a))
    BY <1>1, <1>3, <1>5, UnwrapsMore
  <2> HIDE DEF bytes
  <2> QED  BY <1>1, <1>4, <1>5, <1>6, <2>1
<1> HIDE DEF bytes
<1>9. Answers(WebFrames(bytes, 0), bytes, c)
  BY <1>7, <1>8, WebFramesAnswer
<1>10. WebRecv(bytes) = WebFrames(bytes, 0)
  BY DEF WebRecv
<1> QED  BY <1>1, <1>7, <1>9, <1>10 DEF bytes

\* One whose request has not ended, or ends now.
LEMMA HandshakeAnswer ==
    ASSUME stream \in Streams, stream.web, handshakeDone = FALSE,
           NEW b \in 0..Len(stream.units), NEW c \in b..Len(stream.units),
           handled = <<>>, payload = <<>>, data = SubSeq(stream.units, 1, b)
    PROVE  LET bytes == data \o SubSeq(stream.units, b + 1, c)
           IN  bytes \in Seq(Unit) /\ Answers(WebRecv(bytes), bytes, c)
<1> DEFINE units == stream.units
           body == stream.body
           n == Len(units)
           bytes == data \o SubSeq(units, b + 1, c)
           t == TryHandshake(bytes)
           r == WebRecv(bytes)
<1>1. /\ units \in Seq(Unit) /\ body \in Seq(Unit) /\ n \in Nat /\ Wraps(units, body)
      /\ units = stream.units /\ body = stream.body /\ n = Len(units)
      /\ b \in 0..n /\ c \in b..n /\ c \in 0..n /\ Len(body) \in Nat
  <2>1. units \in Seq(Unit) /\ body \in Seq(Unit) /\ n \in Nat /\ Wraps(units, body) /\ Len(body) \in Nat
    BY StreamIs
  <2>2. b \in 0..n /\ c \in b..n
    OBVIOUS
  <2> HIDE DEF n
  <2>3. c \in 0..n
    BY <2>1, <2>2
  <2> QED  BY <2>1, <2>2, <2>3 DEF n
<1>2. bytes = SubSeq(units, 1, c)
  <2> DEFINE z == 0
  <2>1. z \in 0..n /\ b \in z..n /\ z + 1 = 1 /\ data = SubSeq(units, z + 1, b)
    BY <1>1
  <2> HIDE DEF z, units, n
  <2>2. SubSeq(units, z + 1, b) \o SubSeq(units, b + 1, c) = SubSeq(units, z + 1, c)
    BY <1>1, <2>1, WindowsJoin
  <2> QED  BY <2>1, <2>2
<1>3. bytes \in Seq(Unit) /\ Len(bytes) = c /\ \A j \in 1..c : bytes[j] = units[j]
  <2> DEFINE z == 0
             w == SubSeq(units, z + 1, c)
  <2>1. z \in 0..n /\ c \in z..n /\ z + 1 = 1 /\ c - z = c /\ \A j \in 1..c : z + j = j
    BY <1>1
  <2>2. bytes = w
    BY <1>2, <2>1
  <2> HIDE DEF z, units, n, bytes
  <2>3. w \in Seq(Unit) /\ Len(w) = c - z /\ \A j \in 1 .. c - z : w[j] = units[z + j]
    BY <1>1, <2>1, Window
  <2> QED  BY <2>1, <2>2, <2>3
<1>4. /\ t.status \in {"ok", "error", "incomplete"}
      /\ t.status = "incomplete" => EndOfRequest(bytes) = {} /\ Len(bytes) <= MaxHandshake
      /\ t.status = "ok" => t.used \in 1..Len(bytes) /\ Upgrades(bytes, t.used)
  BY <1>3, TryHandshakeIs
<1>5. /\ t.status = "incomplete" => r = Framed(0, FALSE, <<>>, <<>>, 0, "rearm")
      /\ t.status = "error" => r = Framed(0, FALSE, <<>>, <<>>, 0, "violation")
      /\ t.status = "ok" => r = WebFrames(bytes, t.used)
  BY DEF WebRecv
<1> HIDE DEF t, r
<1>6. HandedOn(stream, <<>>, <<>>, 0) /\ HandedSome(stream, <<>>)
  BY HandedNone
<1>7. CASE t.status = "incomplete"
  <2>1. /\ r.used = 0 /\ r.upgraded = FALSE /\ r.replies = 0 /\ r.packets = <<>> /\ r.rest = <<>>
        /\ r.then = "rearm"
    BY <1>5, <1>7 DEF Framed
  <2>2. Keep(bytes, 0) = bytes
    BY <1>3, SubSeqFull DEF Keep
  <2>3. handled \o r.packets = <<>> /\ handled \o r.packets = <<>>
    BY <2>1, ConcatEmptySeq
  <2>4. (handshakeDone \/ r.upgraded) = FALSE
    BY <2>1
  <2> HIDE DEF bytes, units, n
  <2>5. ReadUpto(stream, c, Keep(bytes, r.used), handshakeDone \/ r.upgraded, r.rest,
                 handled \o r.packets)
    BY <1>1, <1>2, <1>3, <1>4, <1>7, <2>1, <2>2, <2>3, <2>4 DEF ReadUpto
  <2>6. 0 \in 0..Len(bytes)
    BY <1>1, <1>3
  <2>7. Answers(r, bytes, c)
    <3>1. r.used \in 0..Len(bytes) /\ r.upgraded \in BOOLEAN /\ r.replies \in Nat
      <4>1. r.used \in 0..Len(bytes)
        BY <2>1, <2>6
      <4>2. r.upgraded \in BOOLEAN
        BY <2>1, <2>6
      <4>3. r.replies \in Nat
        BY <2>1, <2>6
      <4> QED  BY <4>1, <4>2, <4>3
    <3>2. HandedSome(stream, handled \o r.packets)
      BY <1>6, <2>3
    <3> QED  BY <2>5, <3>1, <3>2, Zenon DEF Answers
  <2> QED  BY <1>3, <2>7 DEF r, bytes, units
<1>8. CASE t.status = "error"
  <2>1. /\ r.used = 0 /\ r.upgraded = FALSE /\ r.replies = 0 /\ r.packets = <<>>
        /\ r.then = "violation"
    BY <1>5, <1>8 DEF Framed
  <2>2. handled \o r.packets = <<>>
    BY <2>1, ConcatEmptySeq
  <2> HIDE DEF bytes, units, n
  <2>3. 0 \in 0..Len(bytes)
    BY <1>1, <1>3
  <2>4. Answers(r, bytes, c)
    <3>1. r.used \in 0..Len(bytes) /\ r.upgraded \in BOOLEAN /\ r.replies \in Nat
      <4>1. r.used \in 0..Len(bytes)
        BY <2>1, <2>3
      <4>2. r.upgraded \in BOOLEAN
        BY <2>1, <2>3
      <4>3. r.replies \in Nat
        BY <2>1, <2>3
      <4> QED  BY <4>1, <4>2, <4>3
    <3>2. HandedSome(stream, handled \o r.packets) /\ r.then # "rearm"
      BY <1>6, <2>1, <2>2
    <3> QED  BY <3>1, <3>2, Zenon DEF Answers
  <2> QED  BY <1>3, <2>4 DEF r, bytes, units
<1>9. CASE t.status = "ok"
  <2> HIDE DEF bytes, units, body, n
  <2> DEFINE j == t.used
  <2>1. j \in 1..c /\ j \in 1..n /\ Upgrades(units, j)
    <3>1. j \in 1..c /\ Upgrades(bytes, j)
      BY <1>3, <1>4, <1>9
    <3> HIDE DEF j
    <3>2. j \in 1..n /\ \A m \in 1 .. j - 1 : m \in 1..c
      BY <1>1, <3>1
    <3>3. Upgrades(units, j)
      BY <1>3, <3>1, <3>2 DEF Upgrades
    <3> QED  BY <3>1, <3>2, <3>3
  <2> HIDE DEF j
  <2>2. PICK i \in 0..n, count \in 0..n :
          \E at \in [0..count -> i..n], pay \in [0..count -> 0..Len(body)] :
             i # 0 /\ Upgrades(units, i) /\ at[0] = i /\ FramesAt(units, body, count, at, pay)
    <3>1. ~ \A m \in 1..Len(units) : ~Upgrades(units, m)
      BY <1>1, <2>1
    <3>2. \E i, count \in 0..Len(units) :
             \E at \in [0..count -> i..Len(units)], pay \in [0..count -> 0..Len(body)] :
                i # 0 /\ Upgrades(units, i) /\ at[0] = i /\ FramesAt(units, body, count, at, pay)
      <4>1. Wraps(units, body)
        BY <1>1
      <4> QED  BY <3>1, <4>1, Zenon DEF Wraps
    <3> QED  BY <1>1, <3>2, Zenon
  <2>3. PICK at \in [0..count -> i..n], pay \in [0..count -> 0..Len(body)] :
             i # 0 /\ Upgrades(units, i) /\ at[0] = i /\ FramesAt(units, body, count, at, pay)
    BY <2>2
  <2>4. i = j
    <3>1. i \in 1..n
      BY <1>1, <2>3
    <3> QED  BY <1>1, <2>1, <2>3, <3>1, UpgradesOnce
  <2> DEFINE k == 0
             a == 0
  <2>5. k \in 0..count /\ a \in 0..at[k] /\ c \in at[k]..n /\ at[k] - a = j /\ pay[k] = 0
        /\ a + 1 = 1 /\ 0 \in 0..Len(body)
    <3>1. at[0] = j /\ pay[0] = 0 /\ j \in Nat
      BY <2>1, <2>3, <2>4 DEF FramesAt
    <3> QED  BY <1>1, <2>1, <3>1
  <2> HIDE DEF k, a
  <2>6. LET w == SubSeq(stream.units, a + 1, c)
        IN  Unwraps(stream, pay[k], c, w, Unwrap(w, at[k] - a))
    BY <1>1, <2>3, <2>5, UnwrapsMore
  <2>7. Unwraps(stream, 0, c, bytes, Unwrap(bytes, j))
    BY <1>1, <1>2, <2>5, <2>6
  <2>8. Answers(WebFrames(bytes, j), bytes, c)
    BY <1>1, <1>3, <1>6, <2>5, <2>7, WebFramesAnswer
  <2>9. Answers(r, bytes, c)
    BY <1>5, <1>9, <2>8 DEF j
  <2> QED  BY <1>1, <1>3, <2>9 DEF r, bytes
<1> QED  BY <1>4, <1>7, <1>8, <1>9

\* Whatever has arrived, and however much of it now, OnRecv hands on the packets that are
\* complete and leaves what is not.
LEMMA OnRecvAnswers ==
    ASSUME stream \in Streams, handshakeDone \in BOOLEAN,
           NEW b \in 0..Len(stream.units), NEW c \in b..Len(stream.units),
           ReadUpto(stream, b, data, handshakeDone, payload, handled)
    PROVE  LET bytes == data \o SubSeq(stream.units, b + 1, c)
           IN  bytes \in Seq(Unit) /\ Answers(OnRecv(bytes), bytes, c)
<1>1. CASE ~stream.web
  BY <1>1, RawAnswer DEF ReadUpto, OnRecv
<1>2. CASE stream.web /\ handshakeDone
  <2>1. PICK p \in 0..Len(stream.body) :
           Unwrapped(stream, b, data, p) /\ HandedOn(stream, handled, payload, p)
    BY <1>2 DEF ReadUpto
  <2> QED  BY <1>2, <2>1, WebAnswer DEF OnRecv
<1>3. CASE stream.web /\ ~handshakeDone
  BY <1>3, HandshakeAnswer DEF ReadUpto, OnRecv
<1> QED  BY <1>1, <1>2, <1>3

\* What waits for more is less than the buffer holds.
LEMMA ReadFits ==
    ASSUME NEW s \in Streams, NEW n \in 0..Len(s.units), NEW rest, NEW shaken, NEW body, NEW done,
           ReadUpto(s, n, rest, shaken, body, done)
    PROVE  rest \in Seq(Unit) /\ Len(rest) \in Nat /\ Len(rest) < Capacity
<1>1. /\ s.units \in Seq(Unit) /\ Len(s.units) \in Nat /\ (~s.web => s.body = s.units)
      /\ s.body \in Seq(Unit)
  BY StreamIs
<1>2. /\ Capacity \in Nat \ {0} /\ MaxPacketSize \in Nat /\ MaxFramePayload \in Nat /\ MaxHandshake \in Nat
      /\ HeaderSize \in Nat /\ HeaderSize <= MaxPacketSize
      /\ MaxPacketSize <= Capacity /\ MaxFramePayload < Capacity /\ MaxHandshake < Capacity
  BY SessionAssumption, FramingAssumption, BufferAssumption DEF Capacity
<1>3. CASE ~s.web
  <2>1. HandedOn(s, done, rest, n) /\ s.body = s.units
    BY <1>1, <1>3 DEF ReadUpto
  <2>2. PICK cut \in [0..Len(s.packets) -> 0..Len(s.body)] :
          \E m \in 0..Len(s.packets) :
             cut[m] <= n /\ rest = SubSeq(s.body, cut[m] + 1, n) /\ Waits(s.body, n, cut[m])
    BY <2>1 DEF HandedOn
  <2>3. PICK m \in 0..Len(s.packets) :
             cut[m] <= n /\ rest = SubSeq(s.body, cut[m] + 1, n) /\ Waits(s.body, n, cut[m])
    BY <2>2
  <2> DEFINE c == cut[m]
             size == s.body[c + 1][3]
  <2>4. c \in 0..Len(s.body) /\ n \in c..Len(s.body) /\ n \in Nat /\ c \in Nat /\ c <= n
    <3>1. c \in 0..Len(s.body) /\ n \in 0..Len(s.body) /\ c <= n
      BY <2>1, <2>3
    <3> HIDE DEF c
    <3> QED  BY <1>1, <2>1, <3>1
  <2>5. n - c < HeaderSize \/ (~BadSize(size) /\ n - c < size)
    BY <2>3 DEF Waits
  <2>6. ASSUME ~(n - c < HeaderSize) PROVE size \in Nat
    <3>1. c + 1 \in 1..Len(s.body)
      <4>1. HeaderSize \in Nat \ {0} /\ n <= Len(s.body) /\ Len(s.body) \in Nat
        BY <1>1, <2>1, FramingAssumption
      <4> HIDE DEF c
      <4> QED  BY <2>4, <2>6, <4>1
    <3>2. s.body[c + 1] \in Unit
      BY <1>1, <3>1, ElementOfSeq
    <3> QED  BY <3>2 DEF Unit
  <2> HIDE DEF c, size
  <2>7. n - c < MaxPacketSize
    BY <1>2, <2>4, <2>5, <2>6 DEF BadSize
  <2>8. rest = SubSeq(s.body, c + 1, n)
    BY <2>3 DEF c
  <2>9. rest \in Seq(Unit) /\ Len(rest) = n - c
    BY <1>1, <2>4, <2>8, Window
  <2> QED  BY <1>2, <2>4, <2>7, <2>9
<1>4. CASE s.web /\ ~shaken
  <2>1. rest = SubSeq(s.units, 1, n) /\ n <= MaxHandshake
    BY <1>4 DEF ReadUpto
  <2> DEFINE z == 0
  <2>2. z \in 0..Len(s.units) /\ n \in z..Len(s.units) /\ rest = SubSeq(s.units, z + 1, n)
        /\ n - z = n
    BY <1>1, <2>1
  <2> HIDE DEF z
  <2>3. rest \in Seq(Unit) /\ Len(rest) = n
    <3>1. LET v == SubSeq(s.units, z + 1, n)
          IN  v \in Seq(Unit) /\ Len(v) = n - z
      <4>1. s.units \in Seq(Unit) /\ z \in 0..Len(s.units) /\ n \in z..Len(s.units)
        BY <1>1, <2>2
      <4> QED  BY <4>1, Window, Zenon
    <3> QED  BY <2>2, <3>1, Zenon
  <2> QED  BY <1>1, <1>2, <2>1, <2>3
<1>5. CASE s.web /\ shaken
  <2>1. PICK p : Unwrapped(s, n, rest, p)
    BY <1>5 DEF ReadUpto
  <2>2. PICK i \in 0..Len(s.units), count \in 0..Len(s.units) :
          \E at \in [0..count -> i..Len(s.units)] : \E k \in 0..count :
             at[k] <= n /\ rest = SubSeq(s.units, at[k] + 1, n) /\ FrameWaits(s.units, n, at[k])
    BY <2>1 DEF Unwrapped
  <2>3. PICK at \in [0..count -> i..Len(s.units)] : \E k \in 0..count :
             at[k] <= n /\ rest = SubSeq(s.units, at[k] + 1, n) /\ FrameWaits(s.units, n, at[k])
    BY <2>2
  <2>4. PICK k \in 0..count :
             at[k] <= n /\ rest = SubSeq(s.units, at[k] + 1, n) /\ FrameWaits(s.units, n, at[k])
    BY <2>3
  <2> DEFINE c == at[k]
             size == s.units[c + 1][3]
  <2>5. c \in 0..Len(s.units) /\ n \in c..Len(s.units) /\ n \in Nat /\ c \in Nat /\ c <= n
    <3>1. c \in i..Len(s.units) /\ i \in Nat /\ c <= n /\ n \in 0..Len(s.units)
      BY <1>1, <2>4
    <3> HIDE DEF c
    <3> QED  BY <1>1, <3>1
  <2>6. n = c \/ (IsFrame(s.units[c + 1]) /\ n - c < 1 + size)
    BY <2>4 DEF FrameWaits
  <2>7. ASSUME n # c PROVE size \in Nat
    <3>1. c + 1 \in 1..Len(s.units)
      <4> HIDE DEF c
      <4> QED  BY <1>1, <2>5, <2>7
    <3>2. s.units[c + 1] \in Unit
      BY <1>1, <3>1, ElementOfSeq
    <3> QED  BY <3>2 DEF Unit
  <2>8. n # c => size <= MaxFramePayload
    BY <2>6 DEF IsFrame
  <2>9. rest = SubSeq(s.units, c + 1, n)
    BY <2>4
  <2> HIDE DEF c, size
  <2>10. n - c <= MaxFramePayload
    <3>1. CASE n = c
      BY <1>2, <2>5, <3>1
    <3>2. CASE n # c
      BY <1>2, <2>5, <2>6, <2>7, <2>8, <3>2
    <3> QED  BY <3>1, <3>2
  <2>11. rest \in Seq(Unit) /\ Len(rest) = n - c
    BY <1>1, <2>5, <2>9, Window
  <2> QED  BY <1>2, <2>5, <2>10, <2>11
<1> QED  BY <1>3, <1>4, <1>5

\* After Clean there is room, if what is kept does not fill the buffer.
LEMMA CleanLeavesRoom ==
    ASSUME NEW pos \in Nat, NEW unread \in Seq(Unit), pos + Len(unread) <= Capacity
    PROVE  LET at == Clean(pos, unread)
           IN  /\ at \in Nat /\ at + Len(unread) <= Capacity
               /\ Len(unread) < Capacity => Capacity - at - Len(unread) > 0
<1> DEFINE n == Len(unread)
           at == Clean(pos, unread)
<1>1. n \in Nat /\ Capacity \in Nat /\ BufferSize \in Nat \ {0}
  BY LenProperties, SessionAssumption DEF Capacity
<1>2. CASE unread = <<>> \/ Capacity - pos - n < BufferSize
  <2>1. at = 0
    BY <1>2 DEF Clean
  <2> HIDE DEF n, at
  <2>2. at \in Nat /\ at + n <= Capacity /\ (n < Capacity => Capacity - at - n > 0)
    <3>1. pos + n <= Capacity
      BY DEF n
    <3> QED  BY <1>1, <2>1, <3>1
  <2> QED  BY <2>2 DEF n, at
<1>3. CASE ~(unread = <<>> \/ Capacity - pos - n < BufferSize)
  <2>1. at = pos /\ ~(Capacity - pos - n < BufferSize)
    BY <1>3 DEF Clean
  <2>2. pos + n <= Capacity
    OBVIOUS
  <2> HIDE DEF n, at
  <2>3. at \in Nat /\ at + n <= Capacity /\ (n < Capacity => Capacity - at - n > 0)
    BY <1>1, <2>1, <2>2
  <2> QED  BY <2>3 DEF n, at
<1> QED  BY <1>2, <1>3

(***************************************************************************)
(* The receiving side                                                      *)
(***************************************************************************)

\* The receive is in flight, is about to be posted, or will be once the replies of
\* OnRecv are on their way.
Receives ==
    \/ pc["recv"] \in {"accept", "add", "rearm", "listen"} \/ "recv" \in inFlight
    \/ pc["recv"] \in {"reply", "enqueue", "register", "collect", "post"} /\ after = "rearm"

\* Where the thread of the receive may be, and what is left for it to do.
Flow ==
    /\ owed \in Nat /\ (pc["recv"] = "reply" => owed # 0)
    /\ "recv" \in inFlight => pc["recv"] = "idle"
    /\ pc["recv"] \in {"teardown", "closing", "close"} => after = "idle" /\ owed = 0

\* What is in the receive buffer and has been handed on is what the peer has sent, and
\* as long as the session receives, no packet that is complete is among what is kept.
Reads ==
    /\ stream \in Streams /\ received \in 0..Len(stream.units)
    /\ handshakeDone \in BOOLEAN /\ data \in Seq(Unit)
    /\ readPos \in Nat /\ readPos + Len(data) <= Capacity
    /\ HandedSome(stream, handled)
    /\ Receives => /\ ReadUpto(stream, received, data, handshakeDone, payload, handled)
                   /\ FreeSize > 0

\* Who is about to run OnDisconnected.
Ending(a) == pc[a] \in {"teardown", "closing"}

\* The one who has won _connected runs it, or the completion of its operation; and nobody
\* after that.
EndsOnce ==
    /\ ended \in 0..1
    /\ \A a \in Actor : Ending(a) =>
          ended = 0 /\ "disconnect" \notin inFlight /\ \A b \in Actor : Ending(b) => b = a
    /\ "disconnect" \in inFlight => ended = 0
    /\ connected \/ ~Known =>
          ended = 0 /\ "disconnect" \notin inFlight /\ \A a \in Actor : ~Ending(a)

\* The inductive invariant of receiving and of the end of the session.
RInv == Flow /\ Reads /\ EndsOnce

\* Nothing has arrived.
LEMMA InitRInv == Init => RInv
<1> SUFFICES ASSUME Init PROVE RInv
  OBVIOUS
<1> USE DEF Init
<1>1. "recv" \in Actor /\ pc["recv"] = "accept"
  BY DEF Actor, Op
<1>2. Flow
  BY <1>1 DEF Flow
<1>3. EndsOnce
  BY DEF EndsOnce, Ending
<1>4. stream \in Streams /\ stream.web \in BOOLEAN /\ Len(stream.units) \in Nat
  BY StreamIs
<1>5. HandedOn(stream, <<>>, <<>>, 0) /\ HandedSome(stream, <<>>)
  BY <1>4, HandedNone
<1>6. ReadUpto(stream, received, data, handshakeDone, payload, handled)
  <2>1. SubSeq(stream.units, 1, 0) = <<>>
    BY SubSeqEmpty
  <2>2. EndOfRequest(<<>>) = {}
    BY DEF EndOfRequest
  <2>3. 0 <= MaxHandshake
    BY FramingAssumption
  <2> QED  BY <1>5, <2>1, <2>2, <2>3 DEF ReadUpto
<1>7. Len(data) = 0 /\ data \in Seq(Unit) /\ Capacity \in Nat \ {0}
  BY SessionAssumption DEF Capacity
<1>8. FreeSize > 0 /\ readPos + Len(data) <= Capacity
  BY <1>7 DEF FreeSize
<1>9. Reads
  <2>1. received \in 0..Len(stream.units)
    BY <1>4
  <2>2. HandedSome(stream, handled) /\ handshakeDone \in BOOLEAN /\ readPos \in Nat
    BY <1>5
  <2> QED  BY <1>4, <1>6, <1>7, <1>8, <2>1, <2>2, Zenon DEF Reads
<1> QED  BY <1>2, <1>3, <1>9 DEF RInv

\* Where a call made by OnRecv returns to.
LEMMA BackOfRecv ==
    ASSUME Flow
    PROVE  /\ owed # 0 => Back("recv") = "reply"
           /\ owed = 0 => Back("recv") = after
BY DEF Flow, Back

\* What Flow says of a step, and that it does not make the session receive.
Keeps == Flow' /\ (Receives' => Receives) /\ UNCHANGED recvVars

\* A step of another thread.
LEMMA OthersKeep ==
    ASSUME Typed, Flow, NEW a \in Actor, a # "recv", NEW x, pc' = [pc EXCEPT ![a] = x],
           UNCHANGED <<owed, after, recvVars>>, "recv" \in inFlight' => "recv" \in inFlight
    PROVE  Keeps
<1>1. pc'["recv"] = pc["recv"]
  BY DEF Typed, Actor, Op
<1> QED  BY <1>1 DEF Keeps, Flow, Receives

\* A step of the thread of the receive, from where it receives, or to where it does not.
LEMMA RecvKeeps ==
    ASSUME Typed, Flow, NEW x, pc' = [pc EXCEPT !["recv"] = x],
           UNCHANGED recvVars, owed' \in Nat, x = "reply" => owed' # 0,
           "recv" \in inFlight' => x = "idle",
           x \in {"teardown", "closing", "close"} => after' = "idle" /\ owed' = 0,
           \/ Receives
           \/ /\ "recv" \notin inFlight' /\ x \notin {"accept", "add", "rearm", "listen"}
              /\ x \in {"reply", "enqueue", "register", "collect", "post"} => after' # "rearm"
    PROVE  Keeps
<1>1. pc'["recv"] = x
  BY DEF Typed, Actor, Op
<1> QED  BY <1>1 DEF Keeps, Flow, Receives

\* Every step but ProcessRecv keeps what has been read.
LEMMA StepsKeep ==
    ASSUME Typed, Flow, Next, ~ \E n \in 1..Len(stream.units) : ProcessRecv(n)
    PROVE  Keeps
<1>1. /\ "recv" \in Actor /\ "send" \in Actor /\ "disconnect" \in Actor /\ Sender \subseteq Actor
      /\ "recv" \notin Sender /\ after \in {"idle", "rearm", "disconnect"}
  BY SessionAssumption DEF Actor, Op, Typed
<1>2. ASSUME NEW t \in Sender, Send(t) \/ CallDisconnect(t) PROVE Keeps
  <2>1. PICK x : pc' = [pc EXCEPT ![t] = x]
    BY <1>2 DEF Send, CallDisconnect, Goes
  <2> QED  BY <1>1, <1>2, <2>1, OthersKeep DEF Send, CallDisconnect, replyVars
<1>3. ASSUME NEW a \in Actor, ThreadStep(a), a # "recv" PROVE Keeps
  <2>1. /\ \E x : pc' = [pc EXCEPT ![a] = x]
        /\ UNCHANGED <<owed, after, recvVars>> /\ ("recv" \in inFlight' => "recv" \in inFlight)
    <3>1. CASE Enqueue(a)
      BY <3>1 DEF Enqueue, Goes, replyVars
    <3>2. CASE RegisterSend(a)
      BY <3>2 DEF RegisterSend, Goes, replyVars
    <3>3. CASE Collect(a)
      BY <3>3 DEF Collect, Goes, replyVars
    <3>4. CASE WSASend(a) \/ WSASendFails(a) \/ GiveUp(a)
      BY <3>4 DEF WSASend, WSASendFails, GiveUp, Goes, replyVars
    <3>5. CASE Disconnect(a)
      BY <1>3, <3>5 DEF Disconnect, Goes
    <3>6. CASE RegisterDisconnect(a) \/ OnDisconnected(a) \/ CloseSocket(a)
      BY <3>6 DEF RegisterDisconnect, OnDisconnected, CloseSocket, Goes, replyVars
    <3> QED  BY <1>3, <3>1, <3>2, <3>3, <3>4, <3>5, <3>6 DEF ThreadStep
  <2>2. PICK x : pc' = [pc EXCEPT ![a] = x]
    BY <2>1
  <2> QED  BY <1>3, <2>1, <2>2, OthersKeep
<1>4. CASE SendCompletes \/ SendAborted \/ SendAgain
  <2>1. /\ \E x : pc' = [pc EXCEPT !["send"] = x]
        /\ UNCHANGED <<owed, after, recvVars>> /\ ("recv" \in inFlight' => "recv" \in inFlight)
    BY <1>4 DEF SendCompletes, SendAborted, SendAgain, Goes, replyVars
  <2>2. PICK x : pc' = [pc EXCEPT !["send"] = x]
    BY <2>1
  <2> QED  BY <1>1, <2>1, <2>2, OthersKeep
<1>5. CASE DisconnectCompletes
  <2>1. /\ pc' = [pc EXCEPT !["disconnect"] = "closing"]
        /\ UNCHANGED <<owed, after, recvVars>> /\ ("recv" \in inFlight' => "recv" \in inFlight)
    BY <1>5 DEF DisconnectCompletes, Goes, replyVars
  <2> QED  BY <1>1, <2>1, OthersKeep
\* What the thread of the receive does.
<1> DEFINE r == "recv"
<1>6. CASE GoLive \/ AddSession
  <2>1. PICK x \in {"add", "rearm"} : pc' = [pc EXCEPT !["recv"] = x]
    BY <1>6 DEF GoLive, AddSession, Goes
  <2>2. /\ pc["recv"] \in {"accept", "add"} /\ UNCHANGED <<owed, after, recvVars, inFlight>>
    BY <1>6 DEF GoLive, AddSession, replyVars
  <2>3. owed' \in Nat /\ "recv" \notin inFlight' /\ Receives
    BY <2>2 DEF Flow, Receives
  <2> QED  BY <2>1, <2>2, <2>3, RecvKeeps
<1>7. CASE SendRaw
  <2>1. PICK x : /\ pc' = [pc EXCEPT !["recv"] = x]
                 /\ x = CASE connected -> "enqueue"
                          [] ~connected /\ owed # 1 -> "reply"
                          [] OTHER -> after
    BY <1>7 DEF SendRaw, Goes
  <2>2. /\ pc["recv"] = "reply" /\ owed' = owed - 1 /\ UNCHANGED <<after, recvVars, inFlight>>
    BY <1>7 DEF SendRaw
  <2>3. owed \in Nat \ {0} /\ owed' \in Nat /\ "recv" \notin inFlight'
    BY <2>2 DEF Flow
  <2>4. x \in {"enqueue", "reply", after} /\ (x = "reply" => owed # 1)
    BY <1>1, <2>1 DEF Typed
  <2>5. x = "reply" => owed' # 0
    BY <2>2, <2>3, <2>4
  <2>6. after' = "rearm" => Receives
    BY <2>2 DEF Receives
  <2> QED  BY <1>1, <2>1, <2>2, <2>3, <2>4, <2>5, <2>6, RecvKeeps
<1>8. CASE RegisterRecv \/ WSARecv
  <2>1. PICK x \in {"idle", "disconnect", "listen"} : pc' = [pc EXCEPT !["recv"] = x]
    BY <1>8 DEF RegisterRecv, WSARecv, Goes
  <2>2. /\ pc["recv"] \in {"rearm", "listen"} /\ UNCHANGED <<owed, after, recvVars>>
        /\ "recv" \in inFlight' => "recv" \in inFlight \/ pc' = [pc EXCEPT !["recv"] = "idle"]
    BY <1>8 DEF RegisterRecv, WSARecv, replyVars, Goes
  <2>3. owed' \in Nat /\ "recv" \notin inFlight /\ Receives
    BY <2>2 DEF Flow, Receives
  <2>4. "recv" \in inFlight' => x = "idle"
    <3>1. pc' = [pc EXCEPT !["recv"] = "idle"] => x = "idle"
      BY <2>1 DEF Typed, Actor, Op
    <3> QED  BY <2>2, <2>3, <3>1
  <2> QED  BY <2>1, <2>2, <2>3, <2>4, RecvKeeps
<1>9. CASE RecvAborted
  <2>1. /\ pc' = [pc EXCEPT !["recv"] = "disconnect"] /\ UNCHANGED <<owed, after, recvVars>>
        /\ "recv" \notin inFlight'
    BY <1>9 DEF RecvAborted, replyVars, Goes
  <2>2. owed' \in Nat
    BY <2>1 DEF Flow
  <2> QED  BY <2>1, <2>2, RecvKeeps
<1>10. ASSUME ThreadStep("recv") PROVE Keeps
  <2>1. ASSUME NEW x \in {"reply", after, "register", "collect", "post"},
               pc' = [pc EXCEPT !["recv"] = x], x = "reply" => owed # 0,
               pc["recv"] \in {"enqueue", "register", "collect", "post"},
               UNCHANGED <<owed, after, recvVars>>, "recv" \in inFlight' => "recv" \in inFlight
        PROVE  Keeps
    <3>1. owed' \in Nat /\ "recv" \notin inFlight'
      BY <2>1 DEF Flow
    <3>2. after = "rearm" => Receives
      BY <2>1 DEF Receives
    <3> QED  BY <1>1, <2>1, <3>1, <3>2, RecvKeeps
  <2>2. Back("recv") \in {"reply", after} /\ (Back("recv") = "reply" => owed # 0)
    BY <1>1, BackOfRecv DEF Flow
  <2>3. CASE Enqueue("recv")
    <3>1. PICK x \in {"register", Back("recv")} : pc' = [pc EXCEPT !["recv"] = x]
      BY <2>3 DEF Enqueue, Goes
    <3> QED  BY <2>1, <2>2, <2>3, <3>1 DEF Enqueue, replyVars
  <2>4. CASE RegisterSend("recv")
    <3>1. PICK x \in {"collect", Back("recv")} : pc' = [pc EXCEPT !["recv"] = x]
      BY <2>4 DEF RegisterSend, Goes
    <3> QED  BY <2>1, <2>2, <2>4, <3>1 DEF RegisterSend, replyVars
  <2>5. CASE Collect("recv")
    <3>1. PICK x \in {"post", Back("recv")} : pc' = [pc EXCEPT !["recv"] = x]
      BY <2>5 DEF Collect, Goes
    <3> QED  BY <2>1, <2>2, <2>5, <3>1 DEF Collect, replyVars
  <2>6. CASE WSASend("recv")
    <3>1. pc' = [pc EXCEPT !["recv"] = Back("recv")]
      BY <2>6 DEF WSASend, Goes
    <3> QED  BY <2>1, <2>2, <2>6, <3>1 DEF WSASend, replyVars
  <2>7. CASE WSASendFails("recv") \/ GiveUp("recv")
    <3>1. PICK x \in {"failed", "disconnect"} : pc' = [pc EXCEPT !["recv"] = x]
      BY <2>7 DEF WSASendFails, GiveUp, Goes
    <3>2. /\ UNCHANGED <<owed, after, recvVars, inFlight>> /\ pc["recv"] \in {"post", "failed"}
      BY <2>7 DEF WSASendFails, GiveUp, replyVars
    <3>3. owed' \in Nat /\ "recv" \notin inFlight'
      BY <3>2 DEF Flow
    <3> QED  BY <3>1, <3>2, <3>3, RecvKeeps
  <2>8. CASE Disconnect("recv")
    <3>1. PICK x \in {"teardown", "idle"} : pc' = [pc EXCEPT !["recv"] = x]
      BY <2>8 DEF Disconnect, Goes
    <3>2. after' = "idle" /\ owed' = 0 /\ UNCHANGED <<recvVars, inFlight>> /\ pc["recv"] = "disconnect"
      BY <2>8 DEF Disconnect
    <3>3. "recv" \notin inFlight'
      BY <3>2 DEF Flow
    <3> QED  BY <3>1, <3>2, <3>3, RecvKeeps
  <2>9. CASE RegisterDisconnect("recv") \/ OnDisconnected("recv") \/ CloseSocket("recv")
    <3>1. PICK x \in {"closing", "close", Back("recv")} : pc' = [pc EXCEPT !["recv"] = x]
      BY <2>9 DEF RegisterDisconnect, OnDisconnected, CloseSocket, Goes
    <3>2. /\ pc["recv"] \in {"teardown", "closing", "close"} /\ UNCHANGED <<owed, after, recvVars>>
          /\ "recv" \in inFlight' => "recv" \in inFlight
      BY <2>9 DEF RegisterDisconnect, OnDisconnected, CloseSocket, replyVars
    <3>3. after' = "idle" /\ owed' = 0 /\ "recv" \notin inFlight' /\ Back("recv") = "idle"
      BY <3>2, BackOfRecv DEF Flow
    <3>4. x \in {"closing", "close", "idle"}
      BY <3>1, <3>3
    <3>5. owed' \in Nat
      BY <3>3
    <3> QED  BY <3>1, <3>2, <3>3, <3>4, <3>5, RecvKeeps
  <2> QED  BY <1>10, <2>3, <2>4, <2>5, <2>6, <2>7, <2>8, <2>9 DEF ThreadStep
<1> QED
  BY <1>2, <1>3, <1>4, <1>5, <1>6, <1>7, <1>8, <1>9, <1>10 DEF Next, Receiving

\* A step that keeps what has been read keeps what is said of it.
LEMMA KeepsReads ==
    ASSUME Reads, Keeps
    PROVE  Reads'
<1>1. /\ UNCHANGED <<stream, received, data, readPos, handshakeDone, payload, handled>>
      /\ Receives' => Receives
  BY DEF Keeps, recvVars
<1>2. FreeSize' = FreeSize
  BY <1>1 DEF FreeSize
<1>3. Receives' => (ReadUpto(stream, received, data, handshakeDone, payload, handled)
                    /\ FreeSize > 0)'
  BY <1>1, <1>2 DEF Reads
<1> QED  BY <1>1, <1>3 DEF Reads

\* ProcessRecv: what has arrived is read.
LEMMA ProcessRecvReads ==
    ASSUME Typed, Flow, Reads, NEW n \in 1..Len(stream.units), ProcessRecv(n)
    PROVE  Flow' /\ Reads'
<1> DEFINE c == received + n
           bytes == Written(n)
           r == OnRecv(bytes)
<1>1. /\ "recv" \in inFlight /\ pc["recv"] = "idle" /\ n <= FreeSize /\ c <= Len(stream.units)
      /\ inFlight' = inFlight \ {"recv"} /\ received' = c /\ stream' = stream
  BY DEF ProcessRecv
<1>2. /\ stream \in Streams /\ Len(stream.units) \in Nat /\ received \in Nat
      /\ received \in 0..Len(stream.units) /\ c \in received..Len(stream.units)
      /\ c \in 0..Len(stream.units) /\ n \in Nat
  <2>1. stream \in Streams /\ received \in 0..Len(stream.units) /\ Len(stream.units) \in Nat
    BY StreamIs DEF Reads
  <2>2. c \in received..Len(stream.units) /\ c \in 0..Len(stream.units)
    BY <1>1, <2>1
  <2> QED  BY <2>1, <2>2
<1>3. Receives /\ ReadUpto(stream, received, data, handshakeDone, payload, handled)
  BY <1>1 DEF Receives, Reads
<1>4. bytes \in Seq(Unit) /\ Answers(r, bytes, c)
  <2>1. LET b == data \o SubSeq(stream.units, received + 1, c)
        IN  b \in Seq(Unit) /\ Answers(OnRecv(b), b, c)
    BY <1>2, <1>3, OnRecvAnswers DEF Reads
  <2> QED  BY <2>1 DEF Written
<1>5. Len(bytes) = Len(data) + n /\ Len(data) \in Nat
  <2> DEFINE w == SubSeq(stream.units, received + 1, c)
  <2>1. w \in Seq(Unit) /\ Len(w) = c - received
    BY <1>2, StreamIs, Window
  <2>2. data \in Seq(Unit)
    BY DEF Reads
  <2>3. bytes = data \o w
    BY DEF Written
  <2> HIDE DEF w, bytes
  <2>4. Len(bytes) = Len(data) + Len(w)
    BY <2>1, <2>2, <2>3, ConcatProperties
  <2> QED  BY <1>2, <2>1, <2>2, <2>4, LenProperties
<1>6. readPos \in Nat /\ readPos + Len(bytes) <= Capacity /\ Capacity \in Nat
  <2>1. readPos \in Nat /\ readPos + Len(data) <= Capacity /\ Capacity \in Nat
    BY SessionAssumption DEF Reads, Capacity
  <2>2. n <= Capacity - readPos - Len(data)
    BY <1>1 DEF FreeSize
  <2> HIDE DEF bytes
  <2> QED  BY <1>2, <1>5, <2>1, <2>2
<1> HIDE DEF c, bytes, r
<1>7. "recv" \notin inFlight'
  BY <1>1
<1>8. CASE ~connected
  <2>1. /\ UNCHANGED <<pc, data, readPos, handshakeDone, payload, handled, owed, after>>
    BY <1>8 DEF ProcessRecv, replyVars
  <2>2. ~Receives'
    BY <1>1, <1>7, <2>1 DEF Receives
  <2>3. Reads'
    BY <1>1, <1>2, <2>1, <2>2 DEF Reads
  <2>4. Flow'
    BY <1>1, <1>7, <2>1 DEF Flow
  <2> QED  BY <2>3, <2>4
<1>9. CASE connected
  <2> DEFINE unread == Keep(bytes, r.used)
             then == IF r.then = "rearm" THEN "rearm" ELSE "disconnect"
             to == IF r.replies # 0 THEN "reply" ELSE then
  <2>1. /\ handled' = handled \o r.packets
        /\ handshakeDone' = (handshakeDone \/ r.upgraded)
        /\ payload' = r.rest
        /\ r.then = "violation" => data' = bytes /\ readPos' = readPos
        /\ r.then # "violation" => data' = unread /\ readPos' = Clean(readPos + r.used, unread)
        /\ owed' = r.replies /\ after' = then /\ pc' = [pc EXCEPT !["recv"] = to]
    BY <1>9 DEF ProcessRecv, Goes, bytes, r
  <2>2. /\ r.used \in 0..Len(bytes) /\ r.upgraded \in BOOLEAN /\ r.replies \in Nat
        /\ HandedSome(stream, handled \o r.packets)
        /\ r.then = "rearm" => ReadUpto(stream, c, unread,
                                        handshakeDone \/ r.upgraded, r.rest, handled \o r.packets)
    BY <1>4, Zenon DEF Answers
  <2>3. unread \in Seq(Unit) /\ Len(unread) = Len(bytes) - r.used
    <3>1. r.used \in 0..Len(bytes) /\ Len(bytes) \in r.used..Len(bytes)
      BY <1>4, <2>2, LenProperties
    <3> QED  BY <1>4, <3>1, Window DEF Keep
  <2>4. then \in {"rearm", "disconnect"} /\ (then = "rearm" <=> r.then = "rearm")
    OBVIOUS
  <2>5. pc'["recv"] = to /\ to \in {"reply", then} /\ (to = "reply" => r.replies # 0)
    BY <2>1, <2>4 DEF Typed, Actor, Op
  <2> HIDE DEF unread, then, to
  <2>6. Flow'
    BY <1>7, <2>1, <2>2, <2>4, <2>5 DEF Flow
  <2>7. Receives' => r.then = "rearm"
    BY <1>7, <2>1, <2>4, <2>5 DEF Receives
  <2>8. data' \in Seq(Unit) /\ readPos' \in Nat /\ readPos' + Len(data') <= Capacity
        /\ (r.then = "rearm" /\ Len(unread) < Capacity => Capacity - readPos' - Len(data') > 0)
    <3>1. CASE r.then = "violation"
      BY <1>4, <1>6, <2>1, <3>1
    <3>2. CASE r.then # "violation"
      <4> DEFINE pos == readPos + r.used
      <4>1. pos \in Nat /\ pos + Len(unread) <= Capacity
        <5>1. r.used \in Nat /\ Len(bytes) \in Nat
          BY <1>4, <2>2, LenProperties
        <5> QED  BY <1>6, <2>3, <5>1
      <4>2. readPos' = Clean(pos, unread) /\ data' = unread
        BY <2>1, <3>2
      <4> HIDE DEF pos
      <4>3. LET at == Clean(pos, unread)
            IN  /\ at \in Nat /\ at + Len(unread) <= Capacity
                /\ Len(unread) < Capacity => Capacity - at - Len(unread) > 0
        BY <2>3, <4>1, CleanLeavesRoom
      <4> QED  BY <2>3, <4>2, <4>3
    <3> QED  BY <3>1, <3>2
  <2>9. ASSUME Receives'
        PROVE  /\ ReadUpto(stream, received, data, handshakeDone, payload, handled)'
               /\ FreeSize' > 0
    <3>1. r.then = "rearm" /\ data' = unread
      BY <2>1, <2>7, <2>9
    <3>2. ReadUpto(stream, c, unread, handshakeDone \/ r.upgraded, r.rest, handled \o r.packets)
      BY <2>2, <3>1
    <3>3. ReadUpto(stream, received, data, handshakeDone, payload, handled)'
      BY <1>1, <2>1, <3>1, <3>2
    <3>4. Len(unread) < Capacity
      BY <1>2, <3>2, ReadFits
    <3> QED  BY <2>8, <3>1, <3>3, <3>4 DEF FreeSize
  <2>10. handshakeDone' \in BOOLEAN
    BY <2>1, <2>2 DEF Reads
  <2>11. HandedSome(stream, handled)' /\ received' \in 0..Len(stream'.units) /\ stream' \in Streams
    BY <1>1, <1>2, <2>1, <2>2 DEF c
  <2>12. Reads'
    BY <2>8, <2>9, <2>10, <2>11 DEF Reads
  <2> QED  BY <2>6, <2>12
<1> QED  BY <1>8, <1>9 DEF Typed

\* A thread goes on, and it is not to end the session.
LEMMA EndsElsewhere ==
    ASSUME Typed, EndsOnce, NEW a \in Actor, NEW x, x \notin {"teardown", "closing"},
           pc' = [pc EXCEPT ![a] = x], ended' = ended,
           "disconnect" \in inFlight' => "disconnect" \in inFlight,
           (connected \/ ~Known)' => connected \/ ~Known
    PROVE  EndsOnce'
<1>1. \A b \in Actor : Ending(b)' => Ending(b)
  BY DEF Typed, Ending
<1> QED  BY <1>1 DEF EndsOnce

\* Whatever the threads and the kernel do, OnDisconnected is run at most once.
LEMMA EndsOnceKept ==
    ASSUME SInv, EndsOnce, Next
    PROVE  EndsOnce'
<1>1. Typed /\ pc \in [Actor -> PC] /\ connected \in BOOLEAN
  BY DEF SInv, Typed
<1>2. /\ "recv" \in Actor /\ "send" \in Actor /\ "disconnect" \in Actor /\ Sender \subseteq Actor
      /\ after \in {"idle", "rearm", "disconnect"}
  BY <1>1 DEF Actor, Op, Typed
<1>3. CASE GoLive \/ AddSession
  <2>1. PICK x \in {"add", "rearm"} : pc' = [pc EXCEPT !["recv"] = x]
    BY <1>3 DEF GoLive, AddSession, Goes
  <2>2. ~Known /\ UNCHANGED <<inFlight, ended>>
    BY <1>3 DEF GoLive, AddSession, Known
  <2> QED  BY <1>1, <1>2, <2>1, <2>2, EndsElsewhere
<1>4. ASSUME ~GoLive, ~AddSession PROVE Known /\ Known'
  BY <1>4, KnownSteps
<1> SUFFICES ASSUME Known, Known', ~GoLive, ~AddSession PROVE EndsOnce'
  BY <1>3, <1>4
\* All but the steps of the disconnection.
<1>5. ASSUME NEW a \in Actor, NEW x, x \notin {"teardown", "closing"}, pc' = [pc EXCEPT ![a] = x],
             UNCHANGED ended, connected' => connected,
             "disconnect" \in inFlight' => "disconnect" \in inFlight
      PROVE  EndsOnce'
  BY <1>1, <1>5, EndsElsewhere
<1>6. ASSUME NEW t \in Sender, Send(t) \/ CallDisconnect(t) PROVE EndsOnce'
  <2>1. PICK x \in {"enqueue", "disconnect"} : pc' = [pc EXCEPT ![t] = x]
    BY <1>6 DEF Send, CallDisconnect, Goes
  <2> QED  BY <1>2, <1>5, <1>6, <2>1 DEF Send, CallDisconnect
<1>7. ASSUME NEW a \in Actor,
             Enqueue(a) \/ RegisterSend(a) \/ Collect(a) \/ WSASend(a) \/ WSASendFails(a) \/ GiveUp(a)
      PROVE  EndsOnce'
  <2>1. PICK x \in {"register", "collect", "post", "failed", "disconnect", Back(a)} :
           pc' = [pc EXCEPT ![a] = x]
    BY <1>7 DEF Enqueue, RegisterSend, Collect, WSASend, WSASendFails, GiveUp, Goes
  <2>2. x \notin {"teardown", "closing"}
    BY <1>1, <2>1, BackHoldsNothing
  <2>3. UNCHANGED <<ended, connected>> /\ inFlight' \in {inFlight, inFlight \cup {"send"}}
    BY <1>7 DEF Enqueue, RegisterSend, Collect, WSASend, WSASendFails, GiveUp
  <2> QED  BY <1>5, <2>1, <2>2, <2>3
<1>8. ASSUME NEW a \in Actor, Disconnect(a) PROVE EndsOnce'
  <2>1. UNCHANGED <<ended, inFlight>> /\ connected' = FALSE
    BY <1>8 DEF Disconnect
  <2>2. CASE connected
    <3>1. pc' = [pc EXCEPT ![a] = "teardown"]
      BY <1>8, <2>2 DEF Disconnect, Goes, FirstCaller
    <3>2. ended = 0 /\ "disconnect" \notin inFlight /\ \A b \in Actor : ~Ending(b)
      BY <2>2 DEF EndsOnce
    <3>3. \A b \in Actor : Ending(b)' => b = a
      BY <1>1, <3>1, <3>2 DEF Ending
    <3> QED  BY <2>1, <3>2, <3>3 DEF EndsOnce
  <2>3. CASE ~connected
    <3>1. pc' = [pc EXCEPT ![a] = "idle"]
      BY <1>8, <2>3 DEF Disconnect, Goes, FirstCaller
    <3> QED  BY <1>5, <2>1, <3>1
  <2> QED  BY <1>1, <2>2, <2>3
<1>9. ASSUME NEW a \in Actor, RegisterDisconnect(a) PROVE EndsOnce'
  <2>1. UNCHANGED <<ended, connected>> /\ Ending(a)
    BY <1>9 DEF RegisterDisconnect, Ending
  <2>2. /\ ended = 0 /\ "disconnect" \notin inFlight /\ ~connected
        /\ \A b \in Actor : Ending(b) => b = a
    BY <2>1 DEF EndsOnce
  <2>3. CASE inFlight' = inFlight \cup {"disconnect"} /\ pc' = [pc EXCEPT ![a] = Back(a)]
    <3>1. \A b \in Actor : ~Ending(b)'
      BY <1>1, <2>2, <2>3, BackHoldsNothing DEF Ending
    <3> QED  BY <2>1, <2>2, <2>3, <3>1 DEF EndsOnce
  <2>4. CASE UNCHANGED inFlight /\ pc' = [pc EXCEPT ![a] = "closing"]
    <3>1. \A b \in Actor : Ending(b)' => b = a
      BY <1>1, <2>2, <2>4 DEF Ending
    <3> QED  BY <2>1, <2>2, <2>4, <3>1 DEF EndsOnce
  <2> QED  BY <1>9, <2>3, <2>4 DEF RegisterDisconnect, Goes
<1>10. ASSUME NEW a \in Actor, OnDisconnected(a) PROVE EndsOnce'
  <2>1. /\ ended' = ended + 1 /\ pc' = [pc EXCEPT ![a] = "close"] /\ Ending(a)
        /\ UNCHANGED <<inFlight, connected>>
    BY <1>10 DEF OnDisconnected, Ending, Goes
  <2>2. /\ ended = 0 /\ "disconnect" \notin inFlight /\ ~connected
        /\ \A b \in Actor : Ending(b) => b = a
    BY <2>1 DEF EndsOnce
  <2>3. \A b \in Actor : ~Ending(b)'
    BY <1>1, <2>1, <2>2 DEF Ending
  <2> QED  BY <2>1, <2>2, <2>3 DEF EndsOnce
<1>11. ASSUME NEW a \in Actor, CloseSocket(a) PROVE EndsOnce'
  <2>1. pc' = [pc EXCEPT ![a] = Back(a)] /\ UNCHANGED <<ended, connected, inFlight>>
    BY <1>11 DEF CloseSocket, Goes
  <2>2. Back(a) \notin {"teardown", "closing"}
    BY <1>1, BackHoldsNothing
  <2> QED  BY <1>5, <2>1, <2>2
<1>12. CASE DisconnectCompletes
  <2>1. /\ pc' = [pc EXCEPT !["disconnect"] = "closing"] /\ inFlight' = inFlight \ {"disconnect"}
        /\ "disconnect" \in inFlight /\ UNCHANGED <<ended, connected>>
    BY <1>12 DEF DisconnectCompletes, Goes
  <2>2. ended = 0 /\ ~connected /\ \A b \in Actor : ~Ending(b)
    BY <2>1 DEF EndsOnce
  <2>3. \A b \in Actor : Ending(b)' => b = "disconnect"
    BY <1>1, <2>1, <2>2 DEF Ending
  <2> QED  BY <2>1, <2>2, <2>3 DEF EndsOnce
<1>13. CASE SendCompletes \/ SendAborted \/ SendAgain
  <2>1. PICK x \in {"sent", "idle", "disconnect", "register"} : pc' = [pc EXCEPT !["send"] = x]
    BY <1>13 DEF SendCompletes, SendAborted, SendAgain, Goes
  <2>2. UNCHANGED <<ended, connected>> /\ inFlight' \in {inFlight, inFlight \ {"send"}}
    BY <1>13 DEF SendCompletes, SendAborted, SendAgain
  <2> QED  BY <1>2, <1>5, <2>1, <2>2
<1>14. CASE SendRaw \/ RegisterRecv \/ WSARecv \/ RecvAborted
  <2>1. PICK x \in {"enqueue", "reply", after, "idle", "disconnect", "listen"} :
           pc' = [pc EXCEPT !["recv"] = x]
    BY <1>14 DEF SendRaw, RegisterRecv, WSARecv, RecvAborted, Goes
  <2>2. /\ UNCHANGED <<ended, connected>>
        /\ inFlight' \in {inFlight, inFlight \cup {"recv"}, inFlight \ {"recv"}}
    BY <1>14 DEF SendRaw, RegisterRecv, WSARecv, RecvAborted
  <2> QED  BY <1>2, <1>5, <2>1, <2>2
<1>15. ASSUME NEW n \in 1..Len(stream.units), ProcessRecv(n) PROVE EndsOnce'
  <2>1. UNCHANGED <<ended, connected>> /\ inFlight' = inFlight \ {"recv"} /\ pc["recv"] = "idle"
    BY <1>15 DEF ProcessRecv
  <2>2. PICK x \in {"idle", "reply", "rearm", "disconnect"} : pc' = [pc EXCEPT !["recv"] = x]
    <3>1. CASE ~connected
      <4>1. pc' = pc
        BY <1>15, <3>1 DEF ProcessRecv
      <4> QED  BY <1>1, <1>2, <2>1, <4>1
    <3>2. CASE connected
      <4>1. PICK r : r = OnRecv(Written(n))
        OBVIOUS
      <4>2. PICK then \in {"rearm", "disconnect"} :
               then = IF r.then = "rearm" THEN "rearm" ELSE "disconnect"
        OBVIOUS
      <4>3. pc' = [pc EXCEPT !["recv"] = IF r.replies # 0 THEN "reply" ELSE then]
        BY <1>15, <3>2, <4>1, <4>2 DEF ProcessRecv, Goes
      <4> QED  BY <4>2, <4>3
    <3> QED  BY <1>1, <3>1, <3>2
  <2> QED  BY <1>2, <1>5, <2>1, <2>2
<1> QED
  BY <1>6, <1>7, <1>8, <1>9, <1>10, <1>11, <1>12, <1>13, <1>14, <1>15
  DEF Next, ThreadStep, Receiving

\* Every step of the session keeps the invariant of the receiving side.
LEMMA ReceiveInductive ==
    ASSUME SInv, RInv, [Next]_vars
    PROVE  RInv'
<1>1. Typed /\ Flow /\ Reads /\ EndsOnce
  BY DEF SInv, RInv
<1>2. CASE UNCHANGED vars
  <2>1. Receives' <=> Receives
    BY <1>2 DEF vars, Receives, replyVars
  <2>2. Keeps
    BY <1>1, <1>2, <2>1 DEF vars, replyVars, Keeps, Flow
  <2>3. Reads'
    BY <1>1, <2>2, KeepsReads
  <2>4. EndsOnce'
    BY <1>1, <1>2 DEF vars, EndsOnce, Ending, Known
  <2> QED  BY <2>2, <2>3, <2>4 DEF RInv, Keeps
<1>3. CASE Next
  <2>1. EndsOnce'
    BY <1>1, <1>3, EndsOnceKept
  <2>2. CASE \E n \in 1..Len(stream.units) : ProcessRecv(n)
    <3>1. Flow' /\ Reads'
      BY <1>1, <2>2, ProcessRecvReads
    <3> QED  BY <2>1, <3>1 DEF RInv
  <2>3. CASE ~ \E n \in 1..Len(stream.units) : ProcessRecv(n)
    <3>1. Keeps
      BY <1>1, <1>3, <2>3, StepsKeep
    <3> QED  BY <1>1, <2>1, <3>1, KeepsReads DEF RInv, Keeps
  <2> QED  BY <2>2, <2>3
<1> QED  BY <1>2, <1>3

\* Every reachable state of a session satisfies the invariant of the receiving side.
THEOREM ReceiveInvariant == Spec => []RInv
<1>1. SInv /\ RInv /\ [Next]_vars => RInv'
  BY ReceiveInductive
<1> QED  BY <1>1, InitRInv, SessionInvariant, PTL DEF Spec

\* The first packets of a stream are a prefix of them.
LEMMA SomeIsPrefix ==
    ASSUME NEW s \in Streams, NEW done, HandedSome(s, done)
    PROVE  IsPrefix(done, s.packets)
<1>1. s.packets \in Seq(Seq(Unit)) /\ Len(s.packets) \in Nat
  BY StreamIs
<1>2. PICK m \in 0..Len(s.packets) : done = SubSeq(s.packets, 1, m)
  BY DEF HandedSome
<1> DEFINE z == 0
<1>3. z \in 0..Len(s.packets) /\ m \in z..Len(s.packets) /\ done = SubSeq(s.packets, z + 1, m)
  BY <1>1, <1>2
<1> HIDE DEF z
<1>4. done \in Seq(Seq(Unit)) /\ Len(done) = m - z
  BY <1>1, <1>3, Window
<1>5. Len(done) = m /\ Len(done) <= Len(s.packets)
  BY <1>1, <1>2, <1>4 DEF z
<1>6. SubSeq(done, 1, Len(done)) = done
  BY <1>4, SubSeqFull
<1> QED  BY <1>2, <1>5, <1>6 DEF IsPrefix

\* When everything has arrived and been read, everything has been handed on.
LEMMA ReadAll ==
    ASSUME NEW s \in Streams, NEW rest, NEW shaken, NEW body, NEW done,
           ReadUpto(s, Len(s.units), rest, shaken, body, done)
    PROVE  done = s.packets
<1>1. /\ s.units \in Seq(Unit) /\ s.body \in Seq(Unit) /\ s.packets \in Seq(Seq(Unit))
      /\ Carries(s.body, s.packets) /\ (s.web => Wraps(s.units, s.body))
      /\ (~s.web => s.body = s.units)
  BY StreamIs
<1>2. CASE ~s.web
  <2>1. HandedOn(s, done, rest, Len(s.body))
    BY <1>1, <1>2 DEF ReadUpto
  <2> QED  BY <1>1, <2>1, HandedAll
<1>3. CASE s.web /\ shaken
  <2>1. PICK p \in 0..Len(s.body) :
           Unwrapped(s, Len(s.units), rest, p) /\ HandedOn(s, done, body, p)
    BY <1>3 DEF ReadUpto
  <2>2. p = Len(s.body)
    BY <1>1, <2>1, UnwrappedAll
  <2>3. HandedOn(s, done, body, Len(s.body))
    BY <2>1, <2>2
  <2> QED  BY <1>1, <2>3, HandedAll
<1>4. CASE s.web /\ ~shaken
  <2>1. done = <<>> /\ rest = SubSeq(s.units, 1, Len(s.units)) /\ EndOfRequest(rest) = {}
    BY <1>4 DEF ReadUpto
  <2>2. rest = s.units
    BY <1>1, <2>1, SubSeqFull
  <2>3. \A i \in 1..Len(s.units) : ~Upgrades(s.units, i)
    BY <2>1, <2>2 DEF EndOfRequest, Upgrades
  <2>4. Len(s.units) \in Nat
    BY StreamIs
  <2>5. s.body = <<>>
    <3>1. ASSUME NEW i \in 0..Len(s.units), i # 0, Upgrades(s.units, i) PROVE FALSE
      <4>1. i \in 1..Len(s.units)
        BY <2>4, <3>1
      <4> QED  BY <2>3, <3>1, <4>1
    <3> QED  BY <1>1, <1>4, <3>1 DEF Wraps
  \* Nothing carries no packet.
  <2>6. PICK cut \in [0..Len(s.packets) -> 0..Len(s.body)] : PacketsAt(s.body, s.packets, cut)
    BY <1>1 DEF Carries
  <2>7. Len(s.body) = 0 /\ Len(s.packets) \in Nat
    BY <2>5, StreamIs
  <2>8. CASE Len(s.packets) = 0
    <3>1. s.packets = <<>>
      BY <1>1, <2>8, EmptySeq
    <3> QED  BY <2>1, <3>1
  <2>9. CASE Len(s.packets) # 0
    <3>1. 1 \in 1..Len(s.packets) /\ 1 - 1 = 0
      BY <2>7, <2>9
    <3>2. ~EndOfPackets(s.body, cut[0]) /\ cut[0] = 0
      BY <2>6, <3>1 DEF PacketsAt
    <3>3. EndOfPackets(s.body, 0)
      BY <2>7, FramingAssumption DEF EndOfPackets
    <3> QED  BY <3>2, <3>3
  <2> QED  BY <2>8, <2>9
<1> QED  BY <1>2, <1>3, <1>4, <1>1, StreamIs

\* However what a peer sends is cut up, by the network, into frames and by the end of the
\* receive buffer: OnRecvPacket is given the packets it has sent, whole, once and in order,
\* when everything has arrived it has been given all of them, and there is room for the
\* next receive (Session.cpp:430-537).
THEOREM HandledWhole == Spec => []HandledAsSent
<1>1. ASSUME RInv PROVE HandledAsSent
  <2>1. Reads
    BY <1>1 DEF RInv
  <2>2. IsPrefix(handled, stream.packets)
    BY <2>1, SomeIsPrefix DEF Reads
  <2>3. ASSUME "recv" \in inFlight, received = Len(stream.units) PROVE handled = stream.packets
    <3>1. Receives
      BY <2>3 DEF Receives
    <3>2. ReadUpto(stream, Len(stream.units), data, handshakeDone, payload, handled)
      BY <2>1, <2>3, <3>1 DEF Reads
    <3> QED  BY <2>1, <3>2, ReadAll DEF Reads
  <2>4. pc["recv"] = "rearm" => FreeSize > 0
    BY <2>1 DEF Reads, Receives
  <2> QED  BY <2>2, <2>3, <2>4 DEF HandledAsSent
<1> QED  BY <1>1, ReceiveInvariant, PTL

\* Whoever disconnects, and however often: OnDisconnected is run at most once, by the one who
\* has won _connected or by the completion it has asked for, and not while the session is
\* connected (Session.cpp:94-109, 335-345).
THEOREM DisconnectedOnce == Spec => []EndsOnce
<1>1. RInv => EndsOnce
  BY DEF RInv
<1> QED  BY <1>1, ReceiveInvariant, PTL

\* What of the types the two invariants leave out.
RestTyped ==
    /\ kept \in BOOLEAN /\ socket \in {"open", "disconnecting", "closed"}
    /\ \A i \in DOMAIN delivered : delivered[i] >= 1

\* No step takes those away.
LEMMA RestTypedKept ==
    ASSUME SInv, RestTyped, [Next]_vars
    PROVE  RestTyped'
<1>1. CASE UNCHANGED vars
  BY <1>1 DEF vars, sendVars, RestTyped
<1>2. CASE Next
  <2>1. kept' \in BOOLEAN /\ socket' \in {"open", "disconnecting", "closed"}
    <3>1. kept' \in {kept, TRUE, FALSE} /\ socket' \in {socket, "disconnecting", "closed"}
      BY <1>2
      DEF Next, ThreadStep, Receiving, Send, CallDisconnect, Enqueue, RegisterSend, Collect,
          WSASend, WSASendFails, GiveUp, Disconnect, RegisterDisconnect, OnDisconnected,
          CloseSocket, Closed, GoLive, AddSession, SendRaw, RegisterRecv, WSARecv, SendCompletes,
          SendAborted, SendAgain, ProcessRecv, RecvAborted, DisconnectCompletes
    <3> QED  BY <3>1 DEF RestTyped
  <2>2. CASE SendCompletes
    <3>1. delivered' = delivered \o sendBuffers
      BY <2>2 DEF SendCompletes
    <3>2. /\ delivered \in Seq(Nat) /\ sendBuffers \in Seq(Nat)
          /\ \A i \in DOMAIN sendBuffers : sendBuffers[i] >= 1
      BY DEF SInv, Typed, Numbered
    <3>3. \A i \in DOMAIN delivered' : delivered'[i] >= 1
      BY <3>1, <3>2 DEF RestTyped
    <3> QED  BY <2>1, <3>3 DEF RestTyped
  <2>3. CASE ~SendCompletes
    <3>1. delivered' = delivered
      BY <1>2, <2>3
      DEF Next, ThreadStep, Receiving, Send, CallDisconnect, Enqueue, RegisterSend, Collect,
          WSASend, WSASendFails, GiveUp, Disconnect, RegisterDisconnect, OnDisconnected,
          CloseSocket, GoLive, AddSession, SendRaw, RegisterRecv, WSARecv, SendAborted,
          SendAgain, ProcessRecv, RecvAborted, DisconnectCompletes, sendVars
    <3> QED  BY <2>1, <3>1 DEF RestTyped
  <2> QED  BY <2>2, <2>3
<1> QED  BY <1>1, <1>2

\* A sequence is one over whatever its elements are in.
LEMMA Retyped ==
    ASSUME NEW S, NEW T, NEW s \in Seq(S), \A i \in DOMAIN s : s[i] \in T
    PROVE  s \in Seq(T)
<1>1. s = [i \in 1..Len(s) |-> s[i]] /\ Len(s) \in Nat /\ DOMAIN s = 1..Len(s)
  BY LenProperties
<1>2. \A i \in 1..Len(s) : s[i] \in T
  BY <1>1
<1> QED  BY <1>1, <1>2

\* Every variable of a session keeps its type: what is queued and sent are numbers of what
\* Send took, and the unread bytes lie in the receive buffer.
THEOREM TypeCorrect == Spec => []TypeOK
<1>1. Init => RestTyped
  <2>1. Len(<<>>) = 0 /\ DOMAIN <<>> = {}
    OBVIOUS
  <2> QED  BY <2>1 DEF Init, RestTyped
<1>2. ASSUME SInv, RInv, RestTyped PROVE TypeOK
  <2>1. /\ Typed /\ Numbered /\ InOrder /\ taken \in Nat /\ Passed \in Nat
        /\ sendQueue \in Seq(Nat) /\ sendBuffers \in Seq(Nat) /\ delivered \in Seq(Nat)
    BY <1>2 DEF SInv, Typed, Numbered
  <2>2. Passed + Len(sendBuffers) + Len(sendQueue) = taken
    BY <2>1 DEF Passed
  <2>3. \A i \in DOMAIN sendQueue : sendQueue[i] \in 1..taken
    BY <2>1, <2>2 DEF Numbered
  <2>4. \A i \in DOMAIN sendBuffers : sendBuffers[i] \in 1..taken
    BY <2>1, <2>2 DEF Numbered
  <2>5. \A i \in DOMAIN delivered : delivered[i] \in 1..taken
    BY <1>2, <2>1, <2>2 DEF InOrder, RestTyped
  <2>6. sendQueue \in Seq(1..taken) /\ sendBuffers \in Seq(1..taken) /\ delivered \in Seq(1..taken)
    BY <2>1, <2>3, <2>4, <2>5, Retyped
  <2>7. /\ received \in 0..Len(stream.units) /\ readPos \in Nat /\ handshakeDone \in BOOLEAN
        /\ readPos + Len(data) <= BufferSize * BufferCount /\ owed \in Nat /\ ended \in 0..1
    BY <1>2 DEF RInv, Reads, Flow, EndsOnce, Capacity
  <2> QED  BY <1>2, <2>1, <2>6, <2>7 DEF TypeOK, Typed, RestTyped
<1>3. SInv /\ RestTyped /\ [Next]_vars => RestTyped'
  BY RestTypedKept
<1> QED  BY <1>1, <1>2, <1>3, SessionInvariant, ReceiveInvariant, PTL DEF Spec
=============================================================================
