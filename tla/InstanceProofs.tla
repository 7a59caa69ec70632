--------------------------- MODULE InstanceProofs ---------------------------
(***************************************************************************)
(* For any players, instances, rosters and connections: an instance tells  *)
(* the match server of itself as MatchReports promises, and its game is    *)
(* started and ended once, whoever connects, leaves or closes it when.     *)
(***************************************************************************)
EXTENDS Instance, SequenceTheorems, TLAPS

(***************************************************************************)
(* The inductive invariant                                                 *)
(***************************************************************************)

InstanceRecord ==
    [state : State, members : SUBSET Player, here : SUBSET Player,
     session : [Player -> Conn \cup {None}], jobs : Seq(Job), due : BOOLEAN,
     forget : SUBSET Player]

ConnRecord ==
    [link : {"unused", "open", "closing", "closed"}, who : Player \cup {None},
     at : Inst \cup {None}]

\* What the match server was told of an instance.
NothingTold(i) == reports[i] = <<>>
ReadyTold(i) == Len(reports[i]) = 1 /\ reports[i][1] = "ready"
EndTold(i) ==
    \/ Len(reports[i]) = 1 /\ reports[i][1] = "closed"
    \/ Len(reports[i]) = 2 /\ reports[i][1] = "ready" /\ reports[i][2] = "closed"

\* What the state of an instance says of its registration, its game and its reports.
NotBegun(i) ==
    inst[i].state = "none" =>
        /\ i \notin registered /\ NothingTold(i) /\ play[i] = "idle"
        /\ inst[i].jobs = <<>> /\ ~inst[i].due /\ inst[i].here = {}

Awaiting(i) ==
    inst[i].state = "AwaitingPlayers" =>
        i \in registered /\ NothingTold(i) /\ play[i] = "idle"

Live(i) ==
    inst[i].state = "Running" =>
        i \in registered /\ ReadyTold(i) /\ play[i] # "idle"

\* The instance is registered until it has reported its end.
Ending(i) ==
    inst[i].state = "Finished" =>
        /\ play[i] # "playing"
        /\ i \in registered => NothingTold(i) \/ ReadyTold(i)
        /\ i \notin registered => EndTold(i)

Phases == \A i \in Inst : NotBegun(i) /\ Awaiting(i) /\ Live(i) /\ Ending(i)

\* A connection that said hello has the player of its ticket.
Named == \A c \in Conn : conns[c].link \in {"open", "closing"} => conns[c].who # None

IInv == TypeOK /\ Phases /\ Named
-----------------------------------------------------------------------------
(***************************************************************************)
(* Types                                                                   *)
(***************************************************************************)

\* The parts of TypeOK.
LEMMA Typed ==
    ASSUME TypeOK
    PROVE  /\ inst \in [Inst -> InstanceRecord] /\ conns \in [Conn -> ConnRecord]
           /\ registered \subseteq Inst /\ routes \in [Player -> registered \cup {None}]
           /\ tickets \subseteq Ticket /\ play \in [Inst -> {"idle", "playing", "over"}]
           /\ closes \in [Inst -> Nat]
           /\ reports \in [Inst -> Seq({"ready", "closed"})]
           /\ \A i \in Inst : Len(reports[i]) <= 2
BY DEF TypeOK, InstanceRecord, ConnRecord

\* And what makes it hold after a step.
LEMMA TypedAgain ==
    ASSUME inst' \in [Inst -> InstanceRecord], conns' \in [Conn -> ConnRecord],
           registered' \subseteq Inst, routes' \in [Player -> registered' \cup {None}],
           tickets' \subseteq Ticket, play' \in [Inst -> {"idle", "playing", "over"}],
           closes' \in [Inst -> Nat],
           reports' \in [Inst -> Seq({"ready", "closed"})], \A i \in Inst : Len(reports'[i]) <= 2
    PROVE  TypeOK'
BY DEF TypeOK, InstanceRecord, ConnRecord

\* A job of the queue, by its kind.
LEMMA JobParts ==
    ASSUME NEW job \in Job
    PROVE  /\ job.kind = "Connected" => job.conn \in Conn /\ job.who \in Player
           /\ job.kind = "Left" => job.who \in Player
BY DEF Job, ConnectedJob, LeftJob, CloseJob

\* A record with other jobs.
LEMMA WithJobs ==
    ASSUME NEW r \in InstanceRecord, NEW q \in Seq(Job)
    PROVE  LET s == [r EXCEPT !.jobs = q]
           IN  /\ s \in InstanceRecord /\ s.jobs = q
               /\ s.state = r.state /\ s.members = r.members /\ s.here = r.here
               /\ s.session = r.session /\ s.due = r.due /\ s.forget = r.forget
BY DEF InstanceRecord

\* What is left of an instance when its next job is taken.
LEMMA TakenTyped ==
    ASSUME TypeOK, NEW i \in Inst, inst[i].jobs # <<>>
    PROVE  /\ Head(inst[i].jobs) \in Job
           /\ Taken(i) \in InstanceRecord
           /\ Taken(i).state = inst[i].state /\ Taken(i).members = inst[i].members
           /\ Taken(i).here = inst[i].here /\ Taken(i).session = inst[i].session
           /\ Taken(i).due = inst[i].due /\ Taken(i).forget = inst[i].forget
<1> DEFINE q == inst[i].jobs
<1>1. inst[i] \in InstanceRecord /\ q \in Seq(Job)
  BY Typed DEF InstanceRecord
<1>2. Head(q) \in Job /\ Tail(q) \in Seq(Job)
  BY <1>1, HeadTailProperties
<1>3. Taken(i) = [inst[i] EXCEPT !.jobs = Tail(q)]
  BY DEF Taken
<1> DEFINE t == Tail(q)
<1> HIDE DEF t
<1>4. t \in Seq(Job) /\ Taken(i) = [inst[i] EXCEPT !.jobs = t]
  BY <1>2, <1>3 DEF t
<1> QED  BY <1>1, <1>2, <1>4, WithJobs

\* One instance moves, in its phase, and the others stay.
LEMMA OneMoves ==
    ASSUME IInv, NEW i \in Inst, NEW r \in InstanceRecord, inst' = [inst EXCEPT ![i] = r],
           \A j \in Inst \ {i} : /\ j \in registered' <=> j \in registered
                                 /\ reports'[j] = reports[j] /\ play'[j] = play[j],
           NotBegun(i)', Awaiting(i)', Live(i)', Ending(i)'
    PROVE  inst' \in [Inst -> InstanceRecord] /\ Phases' /\ inst'[i] = r
<1>1. inst \in [Inst -> InstanceRecord]
  BY Typed DEF IInv
<1>2. inst' \in [Inst -> InstanceRecord] /\ inst'[i] = r /\ \A j \in Inst \ {i} : inst'[j] = inst[j]
  BY <1>1
<1>3. ASSUME NEW j \in Inst, j # i
      PROVE  NotBegun(j)' /\ Awaiting(j)' /\ Live(j)' /\ Ending(j)'
  <2>1. NotBegun(j) /\ Awaiting(j) /\ Live(j) /\ Ending(j)
    BY DEF IInv, Phases
  <2>2. /\ inst'[j] = inst[j] /\ j \in registered' <=> j \in registered
        /\ reports'[j] = reports[j] /\ play'[j] = play[j]
    BY <1>2, <1>3
  <2> QED  BY <2>1, <2>2 DEF NotBegun, Awaiting, Live, Ending, NothingTold, ReadyTold, EndTold
<1> QED  BY <1>2, <1>3 DEF Phases

\* A job comes to a registered instance.
LEMMA PostKeeps ==
    ASSUME IInv, NEW i \in registered, NEW job \in Job, inst' = Post(i, job),
           UNCHANGED <<registered, reports, play>>
    PROVE  /\ inst' \in [Inst -> InstanceRecord] /\ Phases'
           /\ \A j \in Inst : inst'[j].state = inst[j].state
<1> DEFINE q == Append(inst[i].jobs, job)
           r == [inst[i] EXCEPT !.jobs = q]
<1>1. i \in Inst /\ inst \in [Inst -> InstanceRecord] /\ inst[i] \in InstanceRecord
  BY Typed DEF IInv
<1>2. q \in Seq(Job)
  BY <1>1 DEF InstanceRecord
<1>3. inst' = [inst EXCEPT ![i] = r]
  BY <1>1 DEF Post
<1> HIDE DEF q
<1>4. /\ r \in InstanceRecord /\ r.state = inst[i].state
  BY <1>1, <1>2, WithJobs
<1> HIDE DEF r
<1>5. inst'[i] = r
  BY <1>1, <1>3
<1>6. NotBegun(i)' /\ Awaiting(i)' /\ Live(i)' /\ Ending(i)'
  <2>1. NotBegun(i) /\ Awaiting(i) /\ Live(i) /\ Ending(i)
    BY <1>1 DEF IInv, Phases
  <2> QED  BY <1>4, <1>5, <2>1 DEF NotBegun, Awaiting, Live, Ending, NothingTold, ReadyTold, EndTold
<1>7. inst' \in [Inst -> InstanceRecord] /\ Phases'
  BY <1>1, <1>3, <1>4, <1>6, OneMoves
<1>8. \A j \in Inst : inst'[j].state = inst[j].state
  BY <1>1, <1>3, <1>4
<1> QED  BY <1>7, <1>8

\* Disconnected marks connections that close; who they are of stays.
LEMMA DisconnectedTyped ==
    ASSUME TypeOK, Named, NEW cs
    PROVE  /\ Disconnected(cs) \in [Conn -> ConnRecord]
           /\ \A c \in Conn : /\ Disconnected(cs)[c].who = conns[c].who
                              /\ Disconnected(cs)[c].at = conns[c].at
           /\ conns' = Disconnected(cs) => Named'
<1>1. conns \in [Conn -> ConnRecord]
  BY Typed
<1>2. ASSUME NEW c \in Conn
      PROVE  LET d == [conns[c] EXCEPT !.link = "closing"]
             IN  /\ d \in ConnRecord /\ d.link = "closing"
                 /\ d.who = conns[c].who /\ d.at = conns[c].at
  BY <1>1 DEF ConnRecord
<1>3. ASSUME NEW c \in Conn
      PROVE  /\ Disconnected(cs)[c] \in ConnRecord
             /\ Disconnected(cs)[c].who = conns[c].who /\ Disconnected(cs)[c].at = conns[c].at
             /\ Disconnected(cs)[c].link \in {"open", "closing"}
                  => conns[c].link \in {"open", "closing"}
  <2>1. CASE c \in cs /\ conns[c].link = "open"
    BY <1>2, <2>1 DEF Disconnected
  <2>2. CASE ~(c \in cs /\ conns[c].link = "open")
    <3>1. Disconnected(cs)[c] = conns[c]
      BY <2>2 DEF Disconnected
    <3> QED  BY <1>1, <3>1
  <2> QED  BY <2>1, <2>2
<1>4. Disconnected(cs) \in [Conn -> ConnRecord]
  <2>1. Disconnected(cs) = [c \in Conn |-> Disconnected(cs)[c]]
    BY DEF Disconnected
  <2> QED  BY <1>3, <2>1
<1>5. conns' = Disconnected(cs) => Named'
  BY <1>3 DEF Named
<1> QED  BY <1>3, <1>4, <1>5

-----------------------------------------------------------------------------
(***************************************************************************)
(* The end                                                                 *)
(***************************************************************************)

\* An instance that has ended, and has its players still to forget.
Over(r) == [r EXCEPT !.state = "Finished", !.here = {},
                     !.session = [p \in Player |-> None], !.forget = r.members]

\* An instance that has ended is an instance.
LEMMA OverTyped ==
    ASSUME NEW r \in InstanceRecord
    PROVE  Over(r) \in InstanceRecord /\ Over(r).state = "Finished"
<1>1. [p \in Player |-> None] \in [Player -> Conn \cup {None}] /\ r.members \in SUBSET Player
  BY DEF InstanceRecord
<1> DEFINE s == [p \in Player |-> None]
           m == r.members
<1> HIDE DEF s, m
<1>2. s \in [Player -> Conn \cup {None}] /\ m \in SUBSET Player
  BY <1>1 DEF s, m
<1>3. Over(r) = [r EXCEPT !.state = "Finished", !.here = {}, !.session = s, !.forget = m]
  BY DEF Over, s, m
<1> QED  BY <1>2, <1>3 DEF InstanceRecord, State

\* HandleClose ends the game of a match that was on, and does nothing twice.
LEMMA BeginCloseKeeps ==
    ASSUME IInv, NEW i \in Inst, NEW r \in InstanceRecord,
           r.state = inst[i].state, r.state # "none",
           BeginClose(i, r), UNCHANGED <<registered, reports>>
    PROVE  /\ inst' \in [Inst -> InstanceRecord] /\ Phases'
           /\ conns' \in [Conn -> ConnRecord] /\ Named'
           /\ play' \in [Inst -> {"idle", "playing", "over"}]
           /\ \A j \in Inst : inst'[j].state = "none" <=> inst[j].state = "none"
           /\ \A j \in Inst : play'[j] = play[j] \/ (play[j] = "playing" /\ play'[j] = "over")
           /\ r.state = "Running" => play'[i] = "over"
<1>1. /\ inst \in [Inst -> InstanceRecord] /\ conns \in [Conn -> ConnRecord] /\ TypeOK /\ Named
      /\ play \in [Inst -> {"idle", "playing", "over"}]
      /\ NotBegun(i) /\ Awaiting(i) /\ Live(i) /\ Ending(i)
  BY Typed DEF IInv, Phases
<1>2. r.state \in {"AwaitingPlayers", "Running", "Finished"}
  BY DEF InstanceRecord, State
<1>3. CASE r.state = "Finished"
  <2>1. inst' = [inst EXCEPT ![i] = r] /\ UNCHANGED <<conns, play>>
    BY <1>3 DEF BeginClose
  <2>2. inst'[i] = r
    BY <1>1, <2>1
  <2>3. NotBegun(i)' /\ Awaiting(i)' /\ Live(i)' /\ Ending(i)'
    BY <1>1, <1>3, <2>1, <2>2 DEF NotBegun, Awaiting, Live, Ending, NothingTold, ReadyTold, EndTold
  <2>4. inst' \in [Inst -> InstanceRecord] /\ Phases'
    BY <2>1, <2>3, OneMoves
  <2>5. \A j \in Inst : inst'[j].state = "none" <=> inst[j].state = "none"
    BY <1>1, <1>3, <2>1
  <2> QED  BY <1>1, <1>3, <2>1, <2>4, <2>5 DEF Named
<1>4. CASE r.state # "Finished"
  <2>1. /\ inst' = [inst EXCEPT ![i] = Over(r)]
        /\ conns' = Disconnected({r.session[p] : p \in Player})
        /\ play' = [play EXCEPT ![i] = IF r.state = "Running" THEN "over" ELSE @]
    BY <1>4 DEF BeginClose, Over
  <2>2. Over(r) \in InstanceRecord /\ Over(r).state = "Finished" /\ inst'[i] = Over(r)
    BY <1>1, <2>1, OverTyped
  <2>3. /\ play'[i] = IF r.state = "Running" THEN "over" ELSE play[i]
        /\ \A j \in Inst \ {i} : play'[j] = play[j]
        /\ play' \in [Inst -> {"idle", "playing", "over"}]
    BY <1>1, <2>1
  <2>4. NotBegun(i)' /\ Awaiting(i)' /\ Live(i)' /\ Ending(i)'
    BY <1>1, <1>2, <1>4, <2>2, <2>3
      DEF NotBegun, Awaiting, Live, Ending, NothingTold, ReadyTold, EndTold
  <2>5. inst' \in [Inst -> InstanceRecord] /\ Phases'
    BY <2>1, <2>2, <2>3, <2>4, OneMoves
  <2>6. conns' \in [Conn -> ConnRecord] /\ Named'
    BY <1>1, <2>1, DisconnectedTyped
  <2>7. \A j \in Inst : inst'[j].state = "none" <=> inst[j].state = "none"
    BY <1>1, <2>1, <2>2
  <2>8. \A j \in Inst : play'[j] = play[j] \/ (play[j] = "playing" /\ play'[j] = "over")
    BY <1>1, <1>2, <1>4, <2>3 DEF Live
  <2> QED  BY <2>3, <2>5, <2>6, <2>7, <2>8
<1> QED  BY <1>3, <1>4
-----------------------------------------------------------------------------
(***************************************************************************)
(* The actions keep the invariant                                          *)
(***************************************************************************)

\* What a step keeps, action by action: first the match server's packets.
LEMMA P_InstanceCreateKeeps ==
    ASSUME IInv, NEW i \in Inst, P_InstanceCreate(i)
    PROVE  IInv'
<1> DEFINE r == Created(i)
<1>1. /\ inst[i].state = "none" /\ inst' = [inst EXCEPT ![i] = r]
      /\ registered' = registered \cup {i}
      /\ routes' = [p \in Player |-> IF p \in Roster[i] THEN i ELSE routes[p]]
      /\ tickets' = tickets \cup (Roster[i] \X {i})
      /\ UNCHANGED <<conns, play, closes, reports>>
  BY DEF P_InstanceCreate, Create
<1>2. TypeOK /\ Named /\ NotBegun(i)
  BY DEF IInv, Phases
<1>3. Roster[i] \in SUBSET Player
  BY InstanceAssumption
<1>4. r \in InstanceRecord /\ r.state = "AwaitingPlayers"
  <2>1. Fresh \in InstanceRecord
    BY DEF Fresh, InstanceRecord, State
  <2>2. r = [Fresh EXCEPT !.state = "AwaitingPlayers", !.members = Roster[i], !.due = TRUE]
    BY DEF Created
  <2> QED  BY <1>3, <2>1, <2>2 DEF InstanceRecord, State
<1> HIDE DEF r
<1>5. inst'[i] = r
  BY <1>1, <1>2, Typed
<1>6. NotBegun(i)' /\ Awaiting(i)' /\ Live(i)' /\ Ending(i)'
  BY <1>1, <1>2, <1>4, <1>5 DEF NotBegun, Awaiting, Live, Ending, NothingTold, ReadyTold, EndTold
<1>7. \A j \in Inst \ {i} : j \in registered' <=> j \in registered
  BY <1>1
<1>8. inst' \in [Inst -> InstanceRecord] /\ Phases'
  BY <1>1, <1>4, <1>6, <1>7, OneMoves
<1>9. registered' \subseteq Inst /\ routes' \in [Player -> registered' \cup {None}]
  BY <1>1, <1>2, Typed
<1>10. tickets' \subseteq Ticket
  BY <1>1, <1>2, <1>3, Typed DEF Ticket
<1>11. TypeOK'
  BY <1>1, <1>2, <1>8, <1>9, <1>10, Typed, TypedAgain
<1> QED  BY <1>1, <1>2, <1>8, <1>11 DEF IInv, Named

LEMMA P_InstanceClosedKeeps ==
    ASSUME IInv, NEW i \in Inst, P_InstanceClosed(i)
    PROVE  IInv'
<1>1. /\ i \in registered /\ inst' = Post(i, CloseJob)
      /\ UNCHANGED <<registered, routes, tickets, conns, play, closes, reports>>
  BY DEF P_InstanceClosed
<1>2. CloseJob \in Job
  BY DEF Job
<1>3. inst' \in [Inst -> InstanceRecord] /\ Phases'
  BY <1>1, <1>2, PostKeeps
<1>4. TypeOK'
  BY <1>1, <1>3, Typed, TypedAgain DEF IInv
<1> QED  BY <1>1, <1>3, <1>4 DEF IInv, Named

\* Hellos and the ends of connections.
LEMMA HelloRefusedKeeps ==
    ASSUME IInv, NEW c \in Conn, NEW t \in Ticket, HelloRefused(c, t)
    PROVE  IInv'
<1>1. /\ tickets' = tickets \ {t} /\ conns' = [conns EXCEPT ![c].link = "closed"]
      /\ UNCHANGED <<inst, registered, routes, play, closes, reports>>
  BY DEF HelloRefused
<1>2. TypeOK /\ Named /\ Phases /\ conns \in [Conn -> ConnRecord] /\ conns[c] \in ConnRecord
  BY Typed DEF IInv
<1> DEFINE d == [conns[c] EXCEPT !.link = "closed"]
<1>3. d \in ConnRecord /\ d.link = "closed"
  BY <1>2 DEF ConnRecord
<1>4. conns' = [conns EXCEPT ![c] = d]
  BY <1>1, <1>2
<1> HIDE DEF d
<1>5. conns' \in [Conn -> ConnRecord]
  BY <1>2, <1>3, <1>4
<1>6. Named'
  BY <1>2, <1>3, <1>4 DEF Named
<1>7. TypeOK'
  BY <1>1, <1>2, <1>5, Typed, TypedAgain
<1>8. Phases'
  BY <1>1, <1>2 DEF Phases, NotBegun, Awaiting, Live, Ending, NothingTold, ReadyTold, EndTold
<1> QED  BY <1>6, <1>7, <1>8 DEF IInv

LEMMA HelloAcceptedKeeps ==
    ASSUME IInv, NEW c \in Conn, NEW t \in Ticket, HelloAccepted(c, t)
    PROVE  IInv'
<1> DEFINE i == routes[t[1]]
           job == ConnectedJob(c, t[1])
<1>1. /\ i # None /\ tickets' = tickets \ {t}
      /\ conns' = [conns EXCEPT ![c].link = "open", ![c].who = t[1]]
      /\ inst' = Post(i, job)
      /\ UNCHANGED <<registered, routes, play, closes, reports>>
  BY DEF HelloAccepted
<1>2. /\ TypeOK /\ Named /\ conns \in [Conn -> ConnRecord] /\ conns[c] \in ConnRecord
      /\ t[1] \in Player /\ t[1] # None
  BY Typed, InstanceAssumption DEF IInv, Ticket
<1>3. i \in registered
  BY <1>1, <1>2, Typed
<1>4. job \in Job
  BY <1>2 DEF Job
<1> HIDE DEF i, job
<1>5. inst' \in [Inst -> InstanceRecord] /\ Phases'
  BY <1>1, <1>3, <1>4, PostKeeps
<1> DEFINE who == t[1]
           d == [conns[c] EXCEPT !.link = "open", !.who = who]
<1>6. conns' = [conns EXCEPT ![c] = d] /\ who \in Player /\ who # None
  BY <1>1, <1>2
<1> HIDE DEF who
<1>7. d \in ConnRecord /\ d.who = who
  BY <1>2, <1>6 DEF ConnRecord
<1> HIDE DEF d
<1>8. conns' \in [Conn -> ConnRecord]
  BY <1>2, <1>6, <1>7
<1>9. Named'
  BY <1>2, <1>6, <1>7 DEF Named
<1>10. TypeOK'
  BY <1>1, <1>2, <1>5, <1>8, Typed, TypedAgain
<1> QED  BY <1>5, <1>9, <1>10 DEF IInv

\* What is said of a player whose connection is open or closing.
LEMMA PostLeftKeeps ==
    ASSUME IInv, NEW c \in Conn, conns[c].link \in {"open", "closing"}, PostLeft(c),
           UNCHANGED <<registered, reports, play>>
    PROVE  /\ inst' \in [Inst -> InstanceRecord] /\ Phases'
           /\ \A j \in Inst : inst'[j].state = inst[j].state
<1>1. conns[c] \in ConnRecord /\ conns[c].who # None /\ registered \subseteq Inst
  BY Typed DEF IInv, Named
<1>2. conns[c].who \in Player
  BY <1>1 DEF ConnRecord
<1>3. CASE conns[c].at \in registered
  <2> DEFINE i == conns[c].at
             job == LeftJob(conns[c].who)
  <2>1. inst' = Post(i, job) /\ job \in Job /\ i \in registered
    BY <1>2, <1>3 DEF PostLeft, Job
  <2> HIDE DEF i, job
  <2> QED  BY <2>1, PostKeeps
<1>4. CASE conns[c].at \notin registered
  <2>1. inst' = inst
    BY <1>4 DEF PostLeft
  <2> QED  BY <2>1, Typed
      DEF IInv, Phases, NotBegun, Awaiting, Live, Ending, NothingTold, ReadyTold, EndTold
<1> QED  BY <1>3, <1>4

LEMMA BreaksKeeps ==
    ASSUME IInv, NEW c \in Conn, Breaks(c)
    PROVE  IInv'
<1>1. /\ conns' = Disconnected({c})
      /\ UNCHANGED <<inst, registered, routes, tickets, play, closes, reports>>
  BY DEF Breaks
<1>2. TypeOK /\ Named /\ Phases
  BY DEF IInv
<1>3. conns' \in [Conn -> ConnRecord] /\ Named'
  BY <1>1, <1>2, DisconnectedTyped
<1>4. TypeOK'
  BY <1>1, <1>2, <1>3, Typed, TypedAgain
<1>5. Phases'
  BY <1>1, <1>2 DEF Phases, NotBegun, Awaiting, Live, Ending, NothingTold, ReadyTold, EndTold
<1> QED  BY <1>3, <1>4, <1>5 DEF IInv

LEMMA C_InstLeaveKeeps ==
    ASSUME IInv, NEW c \in Conn, C_InstLeave(c)
    PROVE  IInv'
<1>1. /\ conns[c].link = "open" /\ PostLeft(c) /\ conns' = Disconnected({c})
      /\ UNCHANGED <<registered, routes, tickets, play, closes, reports>>
  BY DEF C_InstLeave
<1>2. TypeOK /\ Named
  BY DEF IInv
<1>3. conns' \in [Conn -> ConnRecord] /\ Named'
  BY <1>1, <1>2, DisconnectedTyped
<1>4. inst' \in [Inst -> InstanceRecord] /\ Phases'
  BY <1>1, PostLeftKeeps
<1>5. TypeOK'
  BY <1>1, <1>2, <1>3, <1>4, Typed, TypedAgain
<1> QED  BY <1>3, <1>4, <1>5 DEF IInv

LEMMA OnDisconnectedKeeps ==
    ASSUME IInv, NEW c \in Conn, OnDisconnected(c)
    PROVE  IInv'
<1>1. /\ conns[c].link = "closing" /\ PostLeft(c) /\ conns' = [conns EXCEPT ![c] = Closed]
      /\ UNCHANGED <<registered, routes, tickets, play, closes, reports>>
  BY DEF OnDisconnected
<1>2. TypeOK /\ Named /\ conns \in [Conn -> ConnRecord]
  BY Typed DEF IInv
<1>3. Closed \in ConnRecord /\ Closed.link = "closed"
  BY DEF Closed, ConnRecord
<1>4. conns' \in [Conn -> ConnRecord] /\ Named'
  BY <1>1, <1>2, <1>3 DEF Named
<1>5. inst' \in [Inst -> InstanceRecord] /\ Phases'
  BY <1>1, PostLeftKeeps
<1>6. TypeOK'
  BY <1>1, <1>2, <1>4, <1>5, Typed, TypedAgain
<1> QED  BY <1>4, <1>5, <1>6 DEF IInv

\* A player that is forgotten is routed nowhere.
LEMMA ForgetSessionKeeps ==
    ASSUME IInv, NEW i \in Inst, ForgetSession(i)
    PROVE  IInv'
<1>1. PICK p \in inst[i].forget :
         /\ inst' = [inst EXCEPT ![i].forget = @ \ {p}]
         /\ routes' = [routes EXCEPT ![p] = None]
         /\ UNCHANGED <<registered, tickets, conns, play, closes, reports>>
  BY DEF ForgetSession
<1>2. /\ TypeOK /\ Named /\ inst[i] \in InstanceRecord /\ NotBegun(i) /\ Awaiting(i) /\ Live(i)
      /\ Ending(i)
  BY Typed DEF IInv, Phases
<1> DEFINE f == inst[i].forget \ {p}
           r == [inst[i] EXCEPT !.forget = f]
<1>3. inst' = [inst EXCEPT ![i] = r] /\ f \in SUBSET Player
  BY <1>1, <1>2, Typed DEF InstanceRecord
<1> HIDE DEF f
<1>4. /\ r \in InstanceRecord /\ r.state = inst[i].state /\ r.jobs = inst[i].jobs
      /\ r.due = inst[i].due /\ r.here = inst[i].here
  BY <1>2, <1>3 DEF InstanceRecord
<1> HIDE DEF r
<1>5. inst'[i] = r
  BY <1>2, <1>3, Typed
<1>6. NotBegun(i)' /\ Awaiting(i)' /\ Live(i)' /\ Ending(i)'
  BY <1>1, <1>2, <1>4, <1>5 DEF NotBegun, Awaiting, Live, Ending, NothingTold, ReadyTold, EndTold
<1>7. inst' \in [Inst -> InstanceRecord] /\ Phases'
  BY <1>1, <1>3, <1>4, <1>6, OneMoves
<1>8. routes' \in [Player -> registered' \cup {None}]
  BY <1>1, <1>2, Typed
<1>9. TypeOK'
  BY <1>1, <1>2, <1>7, <1>8, Typed, TypedAgain
<1> QED  BY <1>1, <1>2, <1>7, <1>9 DEF IInv, Named

\* A report comes after those there are.
LEMMA ReportIsLast ==
    ASSUME NEW S, NEW s \in Seq(S), NEW e \in S
    PROVE  /\ Append(s, e) \in Seq(S) /\ Len(Append(s, e)) = Len(s) + 1
           /\ \A k \in 1..Len(s) : Append(s, e)[k] = s[k]
           /\ Append(s, e)[Len(s) + 1] = e
OBVIOUS

\* The end is reported once, and the instance is registered no longer.
LEMMA EndCloseKeeps ==
    ASSUME IInv, NEW i \in Inst, EndClose(i)
    PROVE  IInv'
<1>1. /\ inst[i].state = "Finished" /\ i \in registered
      /\ reports' = [reports EXCEPT ![i] = Append(@, "closed")]
      /\ registered' = registered \ {i}
      /\ routes' = [p \in Player |-> IF routes[p] = i THEN None ELSE routes[p]]
      /\ UNCHANGED <<inst, tickets, conns, play, closes>>
  BY DEF EndClose, Free
<1>2. TypeOK /\ Named /\ Phases /\ Ending(i)
  BY DEF IInv, Phases
<1>3. NothingTold(i) \/ ReadyTold(i)
  BY <1>1, <1>2 DEF Ending
<1>4. reports[i] \in Seq({"ready", "closed"}) /\ reports \in [Inst -> Seq({"ready", "closed"})]
  BY <1>2, Typed
<1>5. EndTold(i)' /\ \A j \in Inst \ {i} : reports'[j] = reports[j]
  <2>1. reports'[i] = Append(reports[i], "closed") /\ \A j \in Inst \ {i} : reports'[j] = reports[j]
    BY <1>1, <1>4
  <2>2. CASE NothingTold(i)
    <3>1. Len(Append(<<>>, "closed")) = 1 /\ Append(<<>>, "closed")[1] = "closed"
      OBVIOUS
    <3> QED  BY <2>1, <2>2, <3>1 DEF NothingTold, EndTold
  <2>3. CASE ReadyTold(i)
    <3> DEFINE s == reports[i]
               u == Append(s, "closed")
    <3>1. s \in Seq({"ready", "closed"}) /\ Len(s) = 1 /\ s[1] = "ready" /\ reports'[i] = u
      BY <1>4, <2>1, <2>3 DEF ReadyTold
    <3> HIDE DEF s
    <3>2. /\ u \in Seq({"ready", "closed"}) /\ Len(u) = Len(s) + 1
          /\ \A k \in 1..Len(s) : u[k] = s[k]
          /\ u[Len(s) + 1] = "closed"
      <4> DEFINE S == {"ready", "closed"}
                 e == "closed"
      <4>1. e \in S /\ s \in Seq(S)
        BY <3>1
      <4> HIDE DEF S, e
      <4>2. /\ Append(s, e) \in Seq(S) /\ Len(Append(s, e)) = Len(s) + 1
            /\ \A k \in 1..Len(s) : Append(s, e)[k] = s[k]
            /\ Append(s, e)[Len(s) + 1] = e
        BY <4>1, ReportIsLast
      <4> QED  BY <4>2, Zenon DEF S, e
    <3> HIDE DEF u
    <3>3. Len(u) = 2 /\ u[1] = "ready" /\ u[2] = "closed"
      BY <3>1, <3>2
    <3>4. Len(reports'[i]) = 2 /\ reports'[i][1] = "ready" /\ reports'[i][2] = "closed"
      BY <3>1, <3>3, Zenon
    <3> QED  BY <2>1, <3>4, Zenon DEF EndTold
  <2> QED  BY <1>3, <2>2, <2>3
<1>6. /\ reports' \in [Inst -> Seq({"ready", "closed"})]
      /\ \A j \in Inst : Len(reports'[j]) <= 2
  <2>1. Append(reports[i], "closed") \in Seq({"ready", "closed"})
    BY <1>4
  <2>2. reports' \in [Inst -> Seq({"ready", "closed"})]
    BY <1>1, <1>4, <2>1
  <2>3. Len(reports'[i]) <= 2
    <3>1. Len(reports'[i]) = 1 \/ Len(reports'[i]) = 2
      BY <1>5, Zenon DEF EndTold
    <3> DEFINE n == Len(reports'[i])
    <3> HIDE DEF n
    <3>2. n = 1 \/ n = 2
      BY <3>1 DEF n
    <3>3. n <= 2
      BY <3>2
    <3> QED  BY <3>3, Zenon DEF n
  <2>4. \A j \in Inst \ {i} : Len(reports'[j]) <= 2
    BY <1>2, <1>5, Typed
  <2> QED  BY <2>2, <2>3, <2>4
<1>7. registered' \subseteq Inst /\ routes' \in [Player -> registered' \cup {None}]
  <2>1. registered \subseteq Inst /\ routes \in [Player -> registered \cup {None}]
    BY <1>2, Typed
  <2> QED  BY <1>1, <2>1
<1>8. TypeOK'
  BY <1>1, <1>2, <1>6, <1>7, Typed, TypedAgain
<1>9. NotBegun(i)' /\ Awaiting(i)' /\ Live(i)' /\ Ending(i)'
  BY <1>1, <1>2, <1>5 DEF NotBegun, Awaiting, Live, Ending, NothingTold, ReadyTold, EndTold
<1>10. ASSUME NEW j \in Inst, j # i
       PROVE  NotBegun(j)' /\ Awaiting(j)' /\ Live(j)' /\ Ending(j)'
  <2>1. NotBegun(j) /\ Awaiting(j) /\ Live(j) /\ Ending(j)
    BY <1>2 DEF Phases
  <2>2. reports'[j] = reports[j] /\ (j \in registered' <=> j \in registered)
    BY <1>1, <1>5, <1>10
  <2> QED  BY <1>1, <2>1, <2>2 DEF NotBegun, Awaiting, Live, Ending, NothingTold, ReadyTold, EndTold
<1> QED  BY <1>1, <1>2, <1>8, <1>9, <1>10 DEF IInv, Phases, Named

\* A job that is next finds an instance that was created, and has not been closed
\* or is already removed.
LEMMA NextJob ==
    ASSUME IInv, NEW i \in Inst, inst[i].jobs # <<>>
    PROVE  /\ inst[i].state \in {"AwaitingPlayers", "Running", "Finished"}
           /\ inst[i] \in InstanceRecord
           /\ Head(inst[i].jobs) \in Job /\ Taken(i) \in InstanceRecord
           /\ Taken(i).state = inst[i].state /\ Taken(i).session = inst[i].session
           /\ Taken(i).here = inst[i].here /\ Taken(i).due = inst[i].due
           /\ NotBegun(i) /\ Awaiting(i) /\ Live(i) /\ Ending(i)
<1>1. TypeOK /\ NotBegun(i) /\ Awaiting(i) /\ Live(i) /\ Ending(i)
  BY DEF IInv, Phases
<1>2. inst[i].state # "none" /\ inst[i] \in InstanceRecord
  BY <1>1, Typed DEF NotBegun
<1>3. inst[i].state \in {"AwaitingPlayers", "Running", "Finished"}
  BY <1>2 DEF InstanceRecord, State
<1> QED  BY <1>1, <1>2, <1>3, TakenTyped

\* An instance whose record changes and whose state does not keeps its phase.
LEMMA SameState ==
    ASSUME IInv, NEW i \in Inst, NEW r \in InstanceRecord, inst' = [inst EXCEPT ![i] = r],
           r.state = inst[i].state, r.state # "none",
           UNCHANGED <<registered, reports, play>>
    PROVE  /\ inst' \in [Inst -> InstanceRecord] /\ Phases'
           /\ \A j \in Inst : inst'[j].state = inst[j].state
<1>1. /\ TypeOK /\ NotBegun(i) /\ Awaiting(i) /\ Live(i) /\ Ending(i)
      /\ inst \in [Inst -> InstanceRecord]
  BY Typed DEF IInv, Phases
<1>2. inst'[i] = r
  BY <1>1
<1>3. NotBegun(i)' /\ Awaiting(i)' /\ Live(i)' /\ Ending(i)'
  BY <1>1, <1>2 DEF NotBegun, Awaiting, Live, Ending, NothingTold, ReadyTold, EndTold
<1>4. inst' \in [Inst -> InstanceRecord] /\ Phases'
  BY <1>3, OneMoves
<1>5. \A j \in Inst : inst'[j].state = inst[j].state
  BY <1>1
<1> QED  BY <1>4, <1>5

\* Jobs that come too late, or twice, change no more than the queue.
LEMMA ConnectedTooLateKeeps ==
    ASSUME IInv, NEW i \in Inst, ConnectedTooLate(i)
    PROVE  IInv'
<1>1. /\ inst[i].jobs # <<>> /\ inst' = [inst EXCEPT ![i] = Taken(i)]
      /\ conns' = Disconnected({Head(inst[i].jobs).conn})
      /\ UNCHANGED <<registered, routes, tickets, play, closes, reports>>
  BY DEF ConnectedTooLate, NextIs
<1>2. TypeOK /\ Named /\ Taken(i) \in InstanceRecord /\ Taken(i).state = inst[i].state
      /\ Taken(i).state # "none"
  BY <1>1, NextJob DEF IInv
<1>3. inst' \in [Inst -> InstanceRecord] /\ Phases'
  BY <1>1, <1>2, SameState
<1>4. conns' \in [Conn -> ConnRecord] /\ Named'
  BY <1>1, <1>2, DisconnectedTyped
<1>5. TypeOK'
  BY <1>1, <1>2, <1>3, <1>4, Typed, TypedAgain
<1> QED  BY <1>3, <1>4, <1>5 DEF IInv

LEMMA LeftAlreadyKeeps ==
    ASSUME IInv, NEW i \in Inst, LeftAlready(i)
    PROVE  IInv'
<1>1. /\ inst[i].jobs # <<>> /\ inst' = [inst EXCEPT ![i] = Taken(i)]
      /\ UNCHANGED <<registered, routes, tickets, conns, play, closes, reports>>
  BY DEF LeftAlready, NextIs
<1>2. TypeOK /\ Named /\ Taken(i) \in InstanceRecord /\ Taken(i).state = inst[i].state
      /\ Taken(i).state # "none"
  BY <1>1, NextJob DEF IInv
<1>3. inst' \in [Inst -> InstanceRecord] /\ Phases'
  BY <1>1, <1>2, SameState
<1>4. TypeOK'
  BY <1>1, <1>2, <1>3, Typed, TypedAgain
<1> QED  BY <1>1, <1>2, <1>3, <1>4 DEF IInv, Named

\* The ways to the end: a job, the timer, a tick of the game.
LEMMA CloseRequestedKeeps ==
    ASSUME IInv, NEW i \in Inst, CloseRequested(i)
    PROVE  IInv'
<1>1. /\ inst[i].jobs # <<>> /\ BeginClose(i, Taken(i))
      /\ UNCHANGED <<registered, routes, tickets, closes, reports>>
  BY DEF CloseRequested, NextIs
<1>2. TypeOK /\ Taken(i) \in InstanceRecord /\ Taken(i).state = inst[i].state
      /\ Taken(i).state # "none"
  BY <1>1, NextJob DEF IInv
<1>3. /\ inst' \in [Inst -> InstanceRecord] /\ Phases' /\ conns' \in [Conn -> ConnRecord]
      /\ Named' /\ play' \in [Inst -> {"idle", "playing", "over"}]
  BY <1>1, <1>2, BeginCloseKeeps
<1>4. TypeOK'
  BY <1>1, <1>2, <1>3, Typed, TypedAgain
<1> QED  BY <1>3, <1>4 DEF IInv

\* The instance once its timeout has come.
LEMMA NoLongerDue ==
    ASSUME IInv, NEW i \in Inst, inst[i].due
    PROVE  LET r == [inst[i] EXCEPT !.due = FALSE]
           IN  r \in InstanceRecord /\ r.state = inst[i].state /\ r.state # "none"
<1>1. inst[i] \in InstanceRecord /\ inst[i].state # "none"
  BY Typed DEF IInv, Phases, NotBegun
<1> QED  BY <1>1 DEF InstanceRecord

LEMMA JoinTimeoutKeeps ==
    ASSUME IInv, NEW i \in Inst, JoinTimeout(i)
    PROVE  IInv'
<1> DEFINE r == [inst[i] EXCEPT !.due = FALSE]
<1>1. /\ inst[i].due
      /\ \/ BeginClose(i, r)
         \/ inst' = [inst EXCEPT ![i] = r] /\ UNCHANGED <<conns, play>>
      /\ UNCHANGED <<registered, routes, tickets, closes, reports>>
  <2>1. inst \in [Inst -> InstanceRecord]
    BY Typed DEF IInv
  <2>2. [inst EXCEPT ![i].due = FALSE] = [inst EXCEPT ![i] = r]
    BY <2>1
  <2> QED  BY <2>2 DEF JoinTimeout
<1>2. TypeOK /\ Named /\ r \in InstanceRecord /\ r.state = inst[i].state /\ r.state # "none"
  BY <1>1, NoLongerDue DEF IInv
<1> HIDE DEF r
<1>3. /\ inst' \in [Inst -> InstanceRecord] /\ Phases' /\ conns' \in [Conn -> ConnRecord]
      /\ Named' /\ play' \in [Inst -> {"idle", "playing", "over"}]
  <2>1. CASE BeginClose(i, r)
    BY <1>1, <1>2, <2>1, BeginCloseKeeps
  <2>2. CASE inst' = [inst EXCEPT ![i] = r] /\ UNCHANGED <<conns, play>>
    <3>1. inst' \in [Inst -> InstanceRecord] /\ Phases'
      BY <1>1, <1>2, <2>2, SameState
    <3> QED  BY <1>2, <2>2, <3>1, Typed DEF Named
  <2> QED  BY <1>1, <2>1, <2>2
<1>4. TypeOK'
  BY <1>1, <1>2, <1>3, Typed, TypedAgain
<1> QED  BY <1>3, <1>4 DEF IInv

\* The match is on while its game goes on.
LEMMA DecidingTickKeeps ==
    ASSUME IInv, NEW i \in Inst, DecidingTick(i)
    PROVE  IInv'
<1>1. /\ inst[i].state = "Running" /\ play[i] = "playing"
      /\ closes' = [closes EXCEPT ![i] = @ + 1] /\ inst' = Post(i, CloseJob)
      /\ play' = [play EXCEPT ![i] = "over"]
      /\ UNCHANGED <<registered, routes, tickets, conns, reports>>
  BY DEF DecidingTick, Completes
<1>2. /\ TypeOK /\ Named /\ NotBegun(i) /\ Awaiting(i) /\ Live(i) /\ Ending(i)
      /\ inst \in [Inst -> InstanceRecord] /\ inst[i] \in InstanceRecord
  BY Typed DEF IInv, Phases
<1> DEFINE q == Append(inst[i].jobs, CloseJob)
           r == [inst[i] EXCEPT !.jobs = q]
<1>3. q \in Seq(Job)
  BY <1>2 DEF InstanceRecord, Job
<1>4. inst' = [inst EXCEPT ![i] = r]
  BY <1>1, <1>2 DEF Post
<1> HIDE DEF q
<1>5. r \in InstanceRecord /\ r.state = "Running"
  BY <1>1, <1>2, <1>3, WithJobs
<1> HIDE DEF r
<1>6. inst'[i] = r
  BY <1>2, <1>4
<1>7. /\ play'[i] = "over" /\ \A j \in Inst \ {i} : play'[j] = play[j]
      /\ play' \in [Inst -> {"idle", "playing", "over"}] /\ closes' \in [Inst -> Nat]
  BY <1>1, <1>2, Typed
<1>8. NotBegun(i)' /\ Awaiting(i)' /\ Live(i)' /\ Ending(i)'
  BY <1>1, <1>2, <1>5, <1>6, <1>7
  DEF NotBegun, Awaiting, Live, Ending, NothingTold, ReadyTold, EndTold
<1>9. inst' \in [Inst -> InstanceRecord] /\ Phases'
  BY <1>1, <1>4, <1>5, <1>7, <1>8, OneMoves
<1>10. TypeOK'
  BY <1>1, <1>2, <1>7, <1>9, Typed, TypedAgain
<1> QED  BY <1>1, <1>2, <1>9, <1>10 DEF IInv, Named

\* An instance a player has connected to, and one that a player has left.
LEMMA PlayerTaken ==
    ASSUME NEW t \in InstanceRecord, NEW p \in Player, NEW c \in Conn
    PROVE  LET r == [t EXCEPT !.session[p] = c, !.here = @ \cup {p}]
           IN  r \in InstanceRecord /\ r.state = t.state
<1> DEFINE s == [t.session EXCEPT ![p] = c]
           h == t.here \cup {p}
<1>1. s \in [Player -> Conn \cup {None}] /\ h \in SUBSET Player
  BY DEF InstanceRecord
<1>2. [t EXCEPT !.session[p] = c, !.here = @ \cup {p}] = [t EXCEPT !.session = s, !.here = h]
  BY DEF InstanceRecord
<1> HIDE DEF s, h
<1> QED  BY <1>1, <1>2 DEF InstanceRecord

\* The instance without a player that left.
LEMMA PlayerGone ==
    ASSUME NEW t \in InstanceRecord, NEW p \in Player
    PROVE  LET r == [t EXCEPT !.here = @ \ {p}, !.session[p] = None]
           IN  r \in InstanceRecord /\ r.state = t.state
<1> DEFINE s == [t.session EXCEPT ![p] = None]
           h == t.here \ {p}
<1>1. s \in [Player -> Conn \cup {None}] /\ h \in SUBSET Player
  BY DEF InstanceRecord
<1>2. [t EXCEPT !.here = @ \ {p}, !.session[p] = None] = [t EXCEPT !.here = h, !.session = s]
  BY DEF InstanceRecord
<1> HIDE DEF s, h
<1> QED  BY <1>1, <1>2 DEF InstanceRecord

\* The match begins once, when its last player connects.
LEMMA BeginMatchKeeps ==
    ASSUME IInv, NEW i \in Inst, NEW r \in InstanceRecord, r.state = inst[i].state,
           r.state # "none", BeginMatch(i, r), UNCHANGED registered
    PROVE  /\ inst' \in [Inst -> InstanceRecord] /\ Phases'
           /\ play' \in [Inst -> {"idle", "playing", "over"}]
           /\ reports' \in [Inst -> Seq({"ready", "closed"})]
           /\ \A j \in Inst : Len(reports'[j]) <= 2
<1>1. /\ TypeOK /\ NotBegun(i) /\ Awaiting(i) /\ Live(i) /\ Ending(i)
      /\ inst \in [Inst -> InstanceRecord]
      /\ play \in [Inst -> {"idle", "playing", "over"}]
      /\ reports \in [Inst -> Seq({"ready", "closed"})] /\ \A j \in Inst : Len(reports[j]) <= 2
  BY Typed DEF IInv, Phases
<1>2. CASE AllConnected(r) /\ r.state = "AwaitingPlayers"
  <2> DEFINE s == [r EXCEPT !.state = "Running"]
  <2>1. /\ inst' = [inst EXCEPT ![i] = s]
        /\ play' = [play EXCEPT ![i] = "playing"]
        /\ reports' = [reports EXCEPT ![i] = Append(@, "ready")]
    BY <1>2 DEF BeginMatch
  <2>2. s \in InstanceRecord /\ s.state = "Running"
    BY DEF InstanceRecord, State
  <2> HIDE DEF s
  <2>3. inst'[i] = s
    BY <1>1, <2>1
  <2>4. /\ play'[i] = "playing" /\ \A j \in Inst \ {i} : play'[j] = play[j]
        /\ play' \in [Inst -> {"idle", "playing", "over"}]
    BY <1>1, <2>1
  <2>5. i \in registered /\ reports[i] = <<>>
    BY <1>1, <1>2 DEF Awaiting, NothingTold
  <2>6. reports'[i] = Append(<<>>, "ready") /\ \A j \in Inst \ {i} : reports'[j] = reports[j]
    BY <1>1, <2>1, <2>5
  <2>7. /\ Append(<<>>, "ready") \in Seq({"ready", "closed"})
        /\ Len(Append(<<>>, "ready")) = 1 /\ Append(<<>>, "ready")[1] = "ready"
    OBVIOUS
  <2>8. ReadyTold(i)'
    BY <2>6, <2>7, Zenon DEF ReadyTold
  <2>9. /\ reports' \in [Inst -> Seq({"ready", "closed"})]
        /\ \A j \in Inst : Len(reports'[j]) <= 2
    <3>1. reports' \in [Inst -> Seq({"ready", "closed"})]
      BY <1>1, <2>1, <2>5, <2>7
    <3>2. Len(reports'[i]) = 1
      BY <2>6, <2>7, Zenon
    <3>3. Len(reports'[i]) <= 2
      BY <3>2
    <3> QED  BY <1>1, <2>6, <3>1, <3>3
  <2>10. NotBegun(i)' /\ Awaiting(i)' /\ Live(i)' /\ Ending(i)'
    BY <2>2, <2>3, <2>4, <2>5, <2>8 DEF NotBegun, Awaiting, Live, Ending
  <2>11. inst' \in [Inst -> InstanceRecord] /\ Phases'
    BY <2>1, <2>2, <2>4, <2>6, <2>10, OneMoves
  <2> QED  BY <2>4, <2>9, <2>11
<1>3. CASE ~(AllConnected(r) /\ r.state = "AwaitingPlayers")
  <2>1. inst' = [inst EXCEPT ![i] = r] /\ UNCHANGED <<play, reports>>
    BY <1>3 DEF BeginMatch
  <2>2. inst' \in [Inst -> InstanceRecord] /\ Phases'
    BY <2>1, SameState
  <2> QED  BY <1>1, <2>1, <2>2
<1> QED  BY <1>2, <1>3

\* The last player to come starts the game, and is reported.
LEMMA PlayerConnectedKeeps ==
    ASSUME IInv, NEW i \in Inst, PlayerConnected(i)
    PROVE  IInv'
<1> DEFINE job == Head(inst[i].jobs)
           r == [Taken(i) EXCEPT !.session[job.who] = job.conn, !.here = @ \cup {job.who}]
<1>1. /\ inst[i].jobs # <<>> /\ job.kind = "Connected" /\ BeginMatch(i, r)
      /\ conns' = [conns EXCEPT ![job.conn].at = i]
      /\ UNCHANGED <<registered, routes, tickets, closes>>
  BY DEF PlayerConnected, NextIs
<1>2. /\ TypeOK /\ Named /\ job \in Job /\ Taken(i) \in InstanceRecord
      /\ Taken(i).state = inst[i].state /\ Taken(i).state # "none"
  BY <1>1, NextJob DEF IInv
<1> HIDE DEF job
<1>3. job.conn \in Conn /\ job.who \in Player
  BY <1>1, <1>2, JobParts
<1>4. r \in InstanceRecord /\ r.state = inst[i].state /\ r.state # "none"
  BY <1>2, <1>3, PlayerTaken
<1> HIDE DEF r
<1>5. /\ inst' \in [Inst -> InstanceRecord] /\ Phases'
      /\ play' \in [Inst -> {"idle", "playing", "over"}]
      /\ reports' \in [Inst -> Seq({"ready", "closed"})] /\ \A j \in Inst : Len(reports'[j]) <= 2
  BY <1>1, <1>4, BeginMatchKeeps
<1> DEFINE c == job.conn
           d == [conns[c] EXCEPT !.at = i]
<1>6. conns \in [Conn -> ConnRecord] /\ conns[c] \in ConnRecord
  BY <1>2, <1>3, Typed
<1>7. d \in ConnRecord /\ d.link = conns[c].link /\ d.who = conns[c].who
  BY <1>6 DEF ConnRecord
<1>8. conns' = [conns EXCEPT ![c] = d]
  BY <1>1, <1>6
<1> HIDE DEF c, d
<1>9. conns' \in [Conn -> ConnRecord]
  BY <1>6, <1>7, <1>8
<1>10. Named'
  BY <1>2, <1>6, <1>7, <1>8 DEF Named
<1>11. TypeOK'
  BY <1>1, <1>2, <1>5, <1>9, Typed, TypedAgain
<1> QED  BY <1>5, <1>10, <1>11 DEF IInv

\* A game that ends asks for the instance to be closed.
LEMMA ClosesGrow ==
    ASSUME IInv, NEW i \in Inst, NEW r, Completes(i, r)
    PROVE  closes' \in [Inst -> Nat] /\ r.state = "Running" /\ play[i] = "playing"
BY Typed DEF IInv, Completes

\* The last player to leave ends the match, whether or not the game had just ended.
LEMMA PlayerLeftKeeps ==
    ASSUME IInv, NEW i \in Inst, PlayerLeft(i)
    PROVE  IInv'
<1> DEFINE p == Head(inst[i].jobs).who
           left == [Taken(i) EXCEPT !.here = @ \ {p}, !.session[p] = None]
           q == Append(left.jobs, CloseJob)
           last == [left EXCEPT !.jobs = q]
<1>1. /\ inst[i].jobs # <<>> /\ p \in inst[i].here
      /\ \/ BeginClose(i, left) /\ UNCHANGED closes
         \/ Completes(i, left) /\ BeginClose(i, last)
         \/ inst' = [inst EXCEPT ![i] = left] /\ UNCHANGED <<conns, play, closes>>
         \/ /\ Completes(i, left) /\ inst' = [inst EXCEPT ![i] = last]
            /\ play' = [play EXCEPT ![i] = "over"] /\ UNCHANGED conns
      /\ UNCHANGED <<registered, routes, tickets, reports>>
  BY DEF PlayerLeft, NextIs
<1>2. /\ TypeOK /\ Named /\ Taken(i) \in InstanceRecord /\ inst[i] \in InstanceRecord
      /\ Taken(i).state = inst[i].state /\ Taken(i).state # "none"
  BY <1>1, NextJob DEF IInv
<1>3. p \in Player
  BY <1>1, <1>2 DEF InstanceRecord
<1> HIDE DEF p
<1>4. left \in InstanceRecord /\ left.state = inst[i].state /\ left.state # "none"
  BY <1>2, <1>3, PlayerGone
<1> HIDE DEF left
<1>5. q \in Seq(Job)
  BY <1>4 DEF InstanceRecord, Job
<1> HIDE DEF q
<1>6. last \in InstanceRecord /\ last.state = inst[i].state /\ last.state # "none"
  BY <1>4, <1>5, WithJobs
<1> HIDE DEF last
<1>7. /\ inst' \in [Inst -> InstanceRecord] /\ Phases' /\ conns' \in [Conn -> ConnRecord]
      /\ Named' /\ play' \in [Inst -> {"idle", "playing", "over"}] /\ closes' \in [Inst -> Nat]
  <2>1. CASE BeginClose(i, left) /\ UNCHANGED closes
    BY <1>1, <1>2, <1>4, <2>1, BeginCloseKeeps, Typed
  <2>2. CASE Completes(i, left) /\ BeginClose(i, last)
    BY <1>1, <1>6, <2>2, BeginCloseKeeps, ClosesGrow
  <2>3. CASE inst' = [inst EXCEPT ![i] = left] /\ UNCHANGED <<conns, play, closes>>
    <3>1. inst' \in [Inst -> InstanceRecord] /\ Phases'
      BY <1>1, <1>4, <2>3, SameState
    <3> QED  BY <1>2, <2>3, <3>1, Typed DEF Named
  <2>4. CASE /\ Completes(i, left) /\ inst' = [inst EXCEPT ![i] = last]
             /\ play' = [play EXCEPT ![i] = "over"] /\ UNCHANGED conns
    <3>1. closes' \in [Inst -> Nat] /\ last.state = "Running"
      BY <1>4, <1>6, <2>4, ClosesGrow
    <3>2. NotBegun(i) /\ Awaiting(i) /\ Live(i) /\ Ending(i) /\ inst \in [Inst -> InstanceRecord]
      BY Typed DEF IInv, Phases
    <3>3. /\ play'[i] = "over" /\ \A j \in Inst \ {i} : play'[j] = play[j]
          /\ play' \in [Inst -> {"idle", "playing", "over"}]
      BY <1>2, <2>4, Typed
    <3>4. inst'[i] = last
      BY <2>4, <3>2
    <3>5. NotBegun(i)' /\ Awaiting(i)' /\ Live(i)' /\ Ending(i)'
      BY <1>1, <1>6, <3>1, <3>2, <3>3, <3>4
      DEF NotBegun, Awaiting, Live, Ending, NothingTold, ReadyTold, EndTold
    <3>6. inst' \in [Inst -> InstanceRecord] /\ Phases'
      BY <1>1, <1>6, <2>4, <3>3, <3>5, OneMoves
    <3> QED  BY <1>2, <2>4, <3>1, <3>3, <3>6, Typed DEF Named
  <2> QED  BY <1>1, <2>1, <2>2, <2>3, <2>4
<1>8. TypeOK'
  BY <1>1, <1>2, <1>7, Typed, TypedAgain
<1> QED  BY <1>7, <1>8 DEF IInv

\* Nothing exists, and nothing was told.
LEMMA InitIInv == Init => IInv
<1> SUFFICES ASSUME Init PROVE IInv
  OBVIOUS
<1>1. /\ Fresh \in InstanceRecord /\ Fresh.state = "none" /\ Fresh.jobs = <<>> /\ ~Fresh.due
      /\ Fresh.here = {}
  BY DEF Fresh, InstanceRecord, State
<1>2. Unused \in ConnRecord /\ Unused.link = "unused"
  BY DEF Unused, ConnRecord
<1>3. inst \in [Inst -> InstanceRecord] /\ conns \in [Conn -> ConnRecord]
  BY <1>1, <1>2 DEF Init
<1>4. reports \in [Inst -> Seq({"ready", "closed"})] /\ \A i \in Inst : Len(reports[i]) <= 2
  BY DEF Init
<1>5. TypeOK
  BY <1>3, <1>4 DEF Init, TypeOK, InstanceRecord, ConnRecord
<1>6. Phases
  BY <1>1 DEF Init, Phases, NotBegun, Awaiting, Live, Ending, NothingTold
<1>7. Named
  BY <1>2 DEF Init, Named
<1> QED  BY <1>5, <1>6, <1>7 DEF IInv

\* Every step keeps the invariant.
LEMMA Inductive == IInv /\ [Next]_vars => IInv'
<1> SUFFICES ASSUME IInv, [Next]_vars PROVE IInv'
  OBVIOUS
<1>1. ASSUME NEW i \in Inst, P_InstanceCreate(i) PROVE IInv'
  BY <1>1, P_InstanceCreateKeeps
<1>2. ASSUME NEW i \in Inst, P_InstanceClosed(i) PROVE IInv'
  BY <1>2, P_InstanceClosedKeeps
<1>3. ASSUME NEW i \in Inst, InstanceStep(i) PROVE IInv'
  BY <1>3, ForgetSessionKeeps, EndCloseKeeps, PlayerConnectedKeeps, ConnectedTooLateKeeps,
     PlayerLeftKeeps, LeftAlreadyKeeps, CloseRequestedKeeps DEF InstanceStep
<1>4. ASSUME NEW i \in Inst, JoinTimeout(i) PROVE IInv'
  BY <1>4, JoinTimeoutKeeps
<1>5. ASSUME NEW i \in Inst, DecidingTick(i) PROVE IInv'
  BY <1>5, DecidingTickKeeps
<1>6. ASSUME NEW c \in Conn, Breaks(c) \/ C_InstLeave(c) \/ OnDisconnected(c) PROVE IInv'
  BY <1>6, BreaksKeeps, C_InstLeaveKeeps, OnDisconnectedKeeps
<1>7. ASSUME NEW c \in Conn, NEW t \in Ticket, C_InstHello(c, t) PROVE IInv'
  BY <1>7, HelloRefusedKeeps, HelloAcceptedKeeps DEF C_InstHello
<1>8. CASE UNCHANGED vars
  BY <1>8 DEF vars, IInv, TypeOK, Named, Phases, NotBegun, Awaiting, Live, Ending,
              NothingTold, ReadyTold, EndTold
<1> QED  BY <1>1, <1>2, <1>3, <1>4, <1>5, <1>6, <1>7, <1>8 DEF Next

\* The invariant holds in every state.
THEOREM InstanceInvariant == Spec => []IInv
BY InitIInv, Inductive, PTL DEF Spec

\* The variables of the instance server have their types: a route leads to a
\* registered instance or nowhere, and an instance reports twice at most.
THEOREM TypeCorrect == Spec => []TypeOK
<1>1. IInv => TypeOK
  BY DEF IInv
<1> QED  BY <1>1, InstanceInvariant, PTL
-----------------------------------------------------------------------------
(***************************************************************************)
(* What the match server and the games see of a step                       *)
(***************************************************************************)

\* Nothing that the match server knows of.
Quiet(i) == reports'[i] = reports[i] /\ (inst'[i].state = "none" <=> inst[i].state = "none")

\* What a game may do.
Plays(i) ==
    \/ play'[i] = play[i] /\ closes'[i] = closes[i]
    \/ play[i] = "idle" /\ play'[i] = "playing" /\ closes'[i] = closes[i]
    \/ play[i] = "playing" /\ play'[i] = "over" /\ closes'[i] \in {closes[i], closes[i] + 1}

\* An instance that is created, reports its match, or reports its end.
Opens(i) ==
    /\ inst[i].state = "none" /\ inst'[i].state # "none" /\ NothingTold(i)
    /\ UNCHANGED reports
GoesLive(i) ==
    /\ inst[i].state # "none" /\ inst'[i].state # "none" /\ NothingTold(i) /\ ReadyTold(i)'
    /\ reports' = [reports EXCEPT ![i] = Append(@, "ready")]
IsOver(i) ==
    /\ inst[i].state # "none" /\ inst'[i].state # "none"
    /\ NothingTold(i) \/ ReadyTold(i)
    /\ EndTold(i)'
    /\ reports' = [reports EXCEPT ![i] = Append(@, "closed")]

Seen ==
    \/ \A j \in Inst : Quiet(j)
    \/ \E i \in Inst : /\ Opens(i) \/ GoesLive(i) \/ IsOver(i)
                       /\ \A j \in Inst \ {i} : Quiet(j)

\* An instance that is created.
LEMMA CreateSeen ==
    ASSUME IInv, IInv', NEW i \in Inst, P_InstanceCreate(i)
    PROVE  Seen /\ \A j \in Inst : Plays(j)
<1>1. /\ inst[i].state = "none" /\ inst' = [inst EXCEPT ![i] = Created(i)]
      /\ UNCHANGED <<play, closes, reports>>
  BY DEF P_InstanceCreate
<1>2. inst \in [Inst -> InstanceRecord] /\ NothingTold(i)
  BY <1>1, Typed DEF IInv, Phases, NotBegun
<1>3. Created(i).state = "AwaitingPlayers"
  BY DEF Created, Fresh
<1>4. inst'[i].state # "none" /\ \A j \in Inst \ {i} : inst'[j] = inst[j]
  BY <1>1, <1>2, <1>3
<1>5. Opens(i) /\ \A j \in Inst \ {i} : Quiet(j)
  BY <1>1, <1>2, <1>4 DEF Opens, Quiet
<1> QED  BY <1>1, <1>5 DEF Seen, Plays

\* A step that leaves the reports and the games alone, and creates nothing.
LEMMA NothingSeen ==
    ASSUME \A j \in Inst : inst'[j].state = "none" <=> inst[j].state = "none",
           UNCHANGED reports
    PROVE  Seen
BY DEF Seen, Quiet

\* Steps that only post a job, or change a connection, are not seen.
LEMMA PostSeen ==
    ASSUME IInv, \/ \E i \in Inst : P_InstanceClosed(i)
                 \/ \E c \in Conn : C_InstLeave(c) \/ OnDisconnected(c) \/ Breaks(c)
                 \/ \E c \in Conn, t \in Ticket : C_InstHello(c, t)
    PROVE  Seen /\ \A j \in Inst : Plays(j)
<1>1. UNCHANGED <<reports, play, closes, registered>>
  BY DEF P_InstanceClosed, C_InstLeave, OnDisconnected, Breaks, C_InstHello, HelloRefused,
         HelloAccepted
<1>2. \A j \in Inst : inst'[j].state = inst[j].state
  <2>1. ASSUME NEW i \in Inst, P_InstanceClosed(i)
        PROVE  \A j \in Inst : inst'[j].state = inst[j].state
    <3>1. i \in registered /\ inst' = Post(i, CloseJob) /\ CloseJob \in Job
      BY <2>1 DEF P_InstanceClosed, Job
    <3> QED  BY <1>1, <3>1, PostKeeps
  <2>2. ASSUME NEW c \in Conn, C_InstLeave(c) \/ OnDisconnected(c)
        PROVE  \A j \in Inst : inst'[j].state = inst[j].state
    BY <1>1, <2>2, PostLeftKeeps DEF C_InstLeave, OnDisconnected
  <2>3. ASSUME NEW c \in Conn, Breaks(c)
        PROVE  \A j \in Inst : inst'[j].state = inst[j].state
    BY <2>3 DEF Breaks
  <2>4. ASSUME NEW c \in Conn, NEW t \in Ticket, HelloRefused(c, t)
        PROVE  \A j \in Inst : inst'[j].state = inst[j].state
    BY <2>4 DEF HelloRefused
  <2>5. ASSUME NEW c \in Conn, NEW t \in Ticket, HelloAccepted(c, t)
        PROVE  \A j \in Inst : inst'[j].state = inst[j].state
    <3> DEFINE i == routes[t[1]]
               job == ConnectedJob(c, t[1])
    <3>1. i # None /\ inst' = Post(i, job) /\ t[1] \in Player
      BY <2>5 DEF HelloAccepted, Ticket
    <3>2. i \in registered /\ job \in Job
      BY <3>1, Typed DEF IInv, Job
    <3> HIDE DEF i, job
    <3> QED  BY <1>1, <3>1, <3>2, PostKeeps
  <2> QED  BY <2>1, <2>2, <2>3, <2>4, <2>5 DEF C_InstHello
<1> QED  BY <1>1, <1>2, NothingSeen DEF Plays

\* HandleClose, whether or not the game had just ended by itself.
LEMMA BeginCloseSeen ==
    ASSUME IInv, NEW i \in Inst, NEW r \in InstanceRecord,
           r.state = inst[i].state, r.state # "none",
           BeginClose(i, r), UNCHANGED <<registered, reports>>,
           UNCHANGED closes \/ Completes(i, r)
    PROVE  Seen /\ \A j \in Inst : Plays(j)
<1>1. /\ \A j \in Inst : inst'[j].state = "none" <=> inst[j].state = "none"
      /\ \A j \in Inst : play'[j] = play[j] \/ (play[j] = "playing" /\ play'[j] = "over")
      /\ r.state = "Running" => play'[i] = "over"
  BY BeginCloseKeeps
<1>2. Seen
  BY <1>1, NothingSeen
<1>3. CASE UNCHANGED closes
  BY <1>1, <1>2, <1>3 DEF Plays
<1>4. CASE Completes(i, r)
  <2>1. r.state = "Running" /\ play[i] = "playing" /\ closes' = [closes EXCEPT ![i] = @ + 1]
    BY <1>4 DEF Completes
  <2>2. closes \in [Inst -> Nat]
    BY Typed DEF IInv
  <2>3. closes'[i] = closes[i] + 1 /\ \A j \in Inst \ {i} : closes'[j] = closes[j]
    BY <2>1, <2>2
  <2>4. Plays(i)
    BY <1>1, <2>1, <2>3 DEF Plays
  <2>5. \A j \in Inst \ {i} : Plays(j)
    BY <1>1, <2>3 DEF Plays
  <2> QED  BY <1>2, <2>4, <2>5
<1> QED  BY <1>3, <1>4

\* A step that changes one record, and not whether its instance was created.
LEMMA RecordSeen ==
    ASSUME IInv, NEW i \in Inst, NEW r, inst' = [inst EXCEPT ![i] = r],
           r.state = inst[i].state, UNCHANGED reports
    PROVE  Seen
<1>1. inst \in [Inst -> InstanceRecord]
  BY Typed DEF IInv
<1>2. \A j \in Inst : inst'[j].state = inst[j].state
  BY <1>1
<1> QED  BY <1>2, NothingSeen

\* A game that the match outlives, or that the last player's leaving ended.
LEMMA CompletesSeen ==
    ASSUME IInv, NEW i \in Inst, NEW r, Completes(i, r), play' = [play EXCEPT ![i] = "over"]
    PROVE  \A j \in Inst : Plays(j)
<1>1. play[i] = "playing" /\ closes' = [closes EXCEPT ![i] = @ + 1]
  BY DEF Completes
<1>2. closes \in [Inst -> Nat] /\ play \in [Inst -> {"idle", "playing", "over"}]
  BY Typed DEF IInv
<1>3. /\ closes'[i] = closes[i] + 1 /\ play'[i] = "over"
      /\ \A j \in Inst \ {i} : closes'[j] = closes[j] /\ play'[j] = play[j]
  BY <1>1, <1>2
<1> QED  BY <1>1, <1>3 DEF Plays

\* The last player to come is a match gone live and a game started.
LEMMA PlayerConnectedSeen ==
    ASSUME IInv, IInv', NEW i \in Inst, PlayerConnected(i)
    PROVE  Seen /\ \A j \in Inst : Plays(j)
<1> DEFINE job == Head(inst[i].jobs)
           r == [Taken(i) EXCEPT !.session[job.who] = job.conn, !.here = @ \cup {job.who}]
<1>1. /\ inst[i].jobs # <<>> /\ job.kind = "Connected" /\ BeginMatch(i, r)
      /\ UNCHANGED <<registered, closes>>
  BY DEF PlayerConnected, NextIs
<1>2. /\ job \in Job /\ Taken(i) \in InstanceRecord /\ Taken(i).state = inst[i].state
      /\ inst[i].state # "none" /\ Awaiting(i) /\ inst \in [Inst -> InstanceRecord]
      /\ play \in [Inst -> {"idle", "playing", "over"}]
      /\ reports \in [Inst -> Seq({"ready", "closed"})]
  BY <1>1, NextJob, Typed DEF IInv
<1> HIDE DEF job
<1>3. job.conn \in Conn /\ job.who \in Player
  BY <1>1, <1>2, JobParts
<1>4. r \in InstanceRecord /\ r.state = inst[i].state
  BY <1>2, <1>3, PlayerTaken
<1> HIDE DEF r
<1>5. CASE AllConnected(r) /\ r.state = "AwaitingPlayers"
  <2> DEFINE s == [r EXCEPT !.state = "Running"]
  <2>1. /\ inst' = [inst EXCEPT ![i] = s]
        /\ play' = [play EXCEPT ![i] = "playing"]
        /\ reports' = [reports EXCEPT ![i] = Append(@, "ready")]
    BY <1>1, <1>5 DEF BeginMatch
  <2>2. s.state = "Running"
    BY <1>4 DEF InstanceRecord
  <2> HIDE DEF s
  <2>3. /\ inst'[i].state = "Running" /\ \A j \in Inst \ {i} : inst'[j] = inst[j]
        /\ play'[i] = "playing" /\ \A j \in Inst \ {i} : play'[j] = play[j]
        /\ \A j \in Inst \ {i} : reports'[j] = reports[j]
    BY <1>2, <2>1, <2>2
  <2>4. NothingTold(i) /\ play[i] = "idle"
    BY <1>2, <1>4, <1>5 DEF Awaiting
  <2>5. ReadyTold(i)'
    <3>1. Live(i)'
      BY DEF IInv, Phases
    <3> QED  BY <2>3, <3>1 DEF Live
  <2>6. GoesLive(i)
    BY <1>2, <2>1, <2>3, <2>4, <2>5 DEF GoesLive
  <2>7. \A j \in Inst \ {i} : Quiet(j)
    BY <2>3 DEF Quiet
  <2> QED  BY <1>1, <2>3, <2>4, <2>6, <2>7 DEF Seen, Plays
<1>6. CASE ~(AllConnected(r) /\ r.state = "AwaitingPlayers")
  <2>1. inst' = [inst EXCEPT ![i] = r] /\ UNCHANGED <<play, reports>>
    BY <1>1, <1>6 DEF BeginMatch
  <2> QED  BY <1>1, <1>4, <2>1, RecordSeen DEF Plays
<1> QED  BY <1>5, <1>6

\* A player that leaves is not seen, but the game may end.
LEMMA PlayerLeftSeen ==
    ASSUME IInv, NEW i \in Inst, PlayerLeft(i)
    PROVE  Seen /\ \A j \in Inst : Plays(j)
<1> DEFINE p == Head(inst[i].jobs).who
           left == [Taken(i) EXCEPT !.here = @ \ {p}, !.session[p] = None]
           q == Append(left.jobs, CloseJob)
           last == [left EXCEPT !.jobs = q]
<1>1. /\ inst[i].jobs # <<>> /\ p \in inst[i].here
      /\ \/ BeginClose(i, left) /\ UNCHANGED closes
         \/ Completes(i, left) /\ BeginClose(i, last)
         \/ inst' = [inst EXCEPT ![i] = left] /\ UNCHANGED <<play, closes>>
         \/ /\ Completes(i, left) /\ inst' = [inst EXCEPT ![i] = last]
            /\ play' = [play EXCEPT ![i] = "over"]
      /\ UNCHANGED <<registered, reports>>
  BY DEF PlayerLeft, NextIs
<1>2. /\ Taken(i) \in InstanceRecord /\ inst[i] \in InstanceRecord
      /\ Taken(i).state = inst[i].state /\ Taken(i).state # "none"
  BY <1>1, NextJob
<1>3. p \in Player
  BY <1>1, <1>2 DEF InstanceRecord
<1> HIDE DEF p
<1>4. left \in InstanceRecord /\ left.state = inst[i].state /\ left.state # "none"
  BY <1>2, <1>3, PlayerGone
<1> HIDE DEF left
<1>5. q \in Seq(Job)
  BY <1>4 DEF InstanceRecord, Job
<1> HIDE DEF q
<1>6. last \in InstanceRecord /\ last.state = inst[i].state /\ last.state # "none"
  BY <1>4, <1>5, WithJobs
<1> HIDE DEF last
<1>7. Completes(i, left) => Completes(i, last)
  BY <1>4, <1>6 DEF Completes
<1>8. CASE BeginClose(i, left) /\ UNCHANGED closes
  BY <1>1, <1>4, <1>8, BeginCloseSeen
<1>9. CASE Completes(i, left) /\ BeginClose(i, last)
  BY <1>1, <1>6, <1>7, <1>9, BeginCloseSeen
<1>10. CASE inst' = [inst EXCEPT ![i] = left] /\ UNCHANGED <<play, closes>>
  BY <1>1, <1>4, <1>10, RecordSeen DEF Plays
<1>11. CASE /\ Completes(i, left) /\ inst' = [inst EXCEPT ![i] = last]
            /\ play' = [play EXCEPT ![i] = "over"]
  BY <1>1, <1>6, <1>11, RecordSeen, CompletesSeen
<1> QED  BY <1>1, <1>8, <1>9, <1>10, <1>11

\* An instance is over when it is removed.
LEMMA EndCloseSeen ==
    ASSUME IInv, IInv', NEW i \in Inst, EndClose(i)
    PROVE  Seen /\ \A j \in Inst : Plays(j)
<1>1. /\ inst[i].state = "Finished" /\ i \in registered /\ registered' = registered \ {i}
      /\ reports' = [reports EXCEPT ![i] = Append(@, "closed")]
      /\ UNCHANGED <<inst, play, closes>>
  BY DEF EndClose, Free
<1>2. Ending(i) /\ Ending(i)' /\ reports \in [Inst -> Seq({"ready", "closed"})]
  BY Typed DEF IInv, Phases
<1>3. (NothingTold(i) \/ ReadyTold(i)) /\ EndTold(i)'
  BY <1>1, <1>2 DEF Ending
<1>4. IsOver(i) /\ \A j \in Inst \ {i} : Quiet(j)
  BY <1>1, <1>2, <1>3 DEF IsOver, Quiet
<1> QED  BY <1>1, <1>4 DEF Seen, Plays

\* All that an instance does.
LEMMA InstanceSeen ==
    ASSUME IInv, IInv', NEW i \in Inst,
           InstanceStep(i) \/ JoinTimeout(i) \/ DecidingTick(i)
    PROVE  Seen /\ \A j \in Inst : Plays(j)
<1>1. inst \in [Inst -> InstanceRecord] /\ inst[i] \in InstanceRecord
  BY Typed DEF IInv
<1>2. CASE ForgetSession(i)
  <2>1. PICK p \in inst[i].forget : /\ inst' = [inst EXCEPT ![i].forget = @ \ {p}]
                                    /\ UNCHANGED <<play, closes, reports>>
    BY <1>2 DEF ForgetSession
  <2>2. \A j \in Inst : inst'[j].state = inst[j].state
    BY <1>1, <2>1 DEF InstanceRecord
  <2> QED  BY <2>1, <2>2, NothingSeen DEF Plays
<1>3. CASE ConnectedTooLate(i) \/ LeftAlready(i)
  <2>1. /\ inst[i].jobs # <<>> /\ inst' = [inst EXCEPT ![i] = Taken(i)]
        /\ UNCHANGED <<play, closes, reports>>
    BY <1>3 DEF ConnectedTooLate, LeftAlready, NextIs
  <2>2. Taken(i).state = inst[i].state
    BY <2>1, NextJob
  <2> QED  BY <2>1, <2>2, RecordSeen DEF Plays
<1>4. CASE CloseRequested(i)
  <2>1. /\ inst[i].jobs # <<>> /\ BeginClose(i, Taken(i))
        /\ UNCHANGED <<registered, closes, reports>>
    BY <1>4 DEF CloseRequested, NextIs
  <2>2. /\ Taken(i) \in InstanceRecord /\ Taken(i).state = inst[i].state
        /\ Taken(i).state # "none"
    BY <2>1, NextJob
  <2> QED  BY <2>1, <2>2, BeginCloseSeen
<1>5. CASE JoinTimeout(i)
  <2> DEFINE r == [inst[i] EXCEPT !.due = FALSE]
  <2>1. /\ inst[i].due
        /\ BeginClose(i, r) \/ (inst' = [inst EXCEPT ![i] = r] /\ UNCHANGED play)
        /\ UNCHANGED <<registered, closes, reports>>
    BY <1>1, <1>5 DEF JoinTimeout
  <2>2. r \in InstanceRecord /\ r.state = inst[i].state /\ r.state # "none"
    BY <2>1, NoLongerDue
  <2> HIDE DEF r
  <2>3. CASE BeginClose(i, r)
    BY <2>1, <2>2, <2>3, BeginCloseSeen
  <2>4. CASE inst' = [inst EXCEPT ![i] = r] /\ UNCHANGED play
    BY <2>1, <2>2, <2>4, RecordSeen DEF Plays
  <2> QED  BY <2>1, <2>3, <2>4
<1>6. CASE DecidingTick(i)
  <2>1. /\ Completes(i, inst[i]) /\ play' = [play EXCEPT ![i] = "over"]
        /\ inst' = Post(i, CloseJob) /\ UNCHANGED reports
    BY <1>6 DEF DecidingTick
  <2>2. \A j \in Inst : inst'[j].state = inst[j].state
    BY <1>1, <2>1 DEF Post, InstanceRecord
  <2> QED  BY <2>1, <2>2, CompletesSeen, NothingSeen
<1> QED
  BY <1>2, <1>3, <1>4, <1>5, <1>6, PlayerConnectedSeen, PlayerLeftSeen, EndCloseSeen
  DEF InstanceStep

\* All steps.
LEMMA StepSeen == IInv /\ IInv' /\ [Next]_vars => Seen /\ \A j \in Inst : Plays(j)
<1> SUFFICES ASSUME IInv, IInv', [Next]_vars PROVE Seen /\ \A j \in Inst : Plays(j)
  OBVIOUS
<1>1. CASE UNCHANGED vars
  BY <1>1 DEF vars, Seen, Quiet, Plays
<1>2. CASE Next
  BY <1>2, CreateSeen, PostSeen, InstanceSeen DEF Next
<1> QED  BY <1>1, <1>2

-----------------------------------------------------------------------------
(***************************************************************************)
(* The match server's view                                                 *)
(***************************************************************************)

\* Which reports an instance has sent, by what it was told of.
LEMMA ToldIs ==
    ASSUME TypeOK, NEW i \in Inst
    PROVE  /\ NothingTold(i) => ~Has(i, "ready") /\ ~Has(i, "closed")
           /\ ReadyTold(i) => Has(i, "ready") /\ ~Has(i, "closed")
           /\ EndTold(i) => Has(i, "closed")
<1> DEFINE s == reports[i]
<1>1. DOMAIN s = 1 .. Len(s) /\ Len(s) \in Nat
  <2>1. s \in Seq({"ready", "closed"})
    BY Typed
  <2> QED  BY <2>1, LenProperties
<1>2. CASE NothingTold(i)
  <2>1. Len(s) # 1 /\ Len(s) # 2 /\ DOMAIN s = {}
    BY <1>2 DEF NothingTold
  <2> QED  BY <1>2, <2>1 DEF Has, ReadyTold, EndTold
<1>3. CASE ReadyTold(i)
  <2>1. DOMAIN s = {1} /\ s[1] = "ready" /\ Len(s) = 1 /\ Len(s) # 2
    BY <1>1, <1>3 DEF ReadyTold
  <2>2. s # <<>>
    BY <2>1
  <2>3. "ready" # "closed"
    OBVIOUS
  <2> QED  BY <2>1, <2>2, <2>3 DEF Has, NothingTold, EndTold
<1>4. CASE EndTold(i)
  <2>1. /\ \E n \in DOMAIN s : s[n] = "closed"
        /\ s # <<>>
        /\ ~ReadyTold(i)
    BY <1>1, <1>4 DEF EndTold, ReadyTold
  <2> QED  BY <2>1 DEF Has, NothingTold
<1> QED  BY <1>2, <1>3, <1>4

\* The life that MatchReports sees, by the state and the reports.
LifeAsTold ==
    \A i \in Inst :
        /\ inst[i].state = "none" => Life(i) = "none"
        /\ inst[i].state # "none" =>
             /\ NothingTold(i) => Life(i) = "awaiting"
             /\ ReadyTold(i) => Life(i) = "live"
             /\ EndTold(i) => Life(i) = "over"

\* What an instance was told of decides its life.
LEMMA LifeIs == IInv => LifeAsTold
BY ToldIs DEF IInv, Life, LifeAsTold

\* An instance nothing happens to, for the match server, stays what it is.
LEMMA QuietLife ==
    ASSUME NEW i \in Inst, Quiet(i)
    PROVE  Life(i)' = Life(i)
BY DEF Quiet, Life, Has

\* One instance lives on, and the others stay what they are.
LEMMA OneLives ==
    ASSUME NEW i \in Inst, \A j \in Inst \ {i} : Quiet(j), NEW l, Life(i)' = l
    PROVE  [j \in Inst |-> Life(j)]' = [[j \in Inst |-> Life(j)] EXCEPT ![i] = l]
<1>1. \A j \in Inst \ {i} : Life(j)' = Life(j)
  BY QuietLife
<1> QED  BY <1>1

\* Each step is one of MatchReports, or none.
LEMMA StepReports ==
    ASSUME IInv, IInv', [Next]_vars
    PROVE  [Reports!Next]_(Reports!vars)
<1>1. LifeAsTold /\ LifeAsTold'
  BY LifeIs, PTL
<1>2. CASE \A j \in Inst : Quiet(j)
  <2>1. \A j \in Inst : Life(j)' = Life(j) /\ reports'[j] = reports[j]
    BY <1>2, QuietLife DEF Quiet
  <2>2. reports' = reports
    <3>1. reports \in [Inst -> Seq({"ready", "closed"})]
          /\ reports' \in [Inst -> Seq({"ready", "closed"})]
      BY DEF IInv, TypeOK
    <3> QED  BY <2>1, <3>1
  <2> QED  BY <2>1, <2>2 DEF Reports!vars
<1>3. ASSUME NEW i \in Inst, Opens(i) \/ GoesLive(i) \/ IsOver(i),
             \A j \in Inst \ {i} : Quiet(j)
      PROVE  Reports!Next
  <2> USE DEF Reports!Becomes, Reports!Report
  <2>1. CASE Opens(i)
    <3>1. Life(i) = "none" /\ Life(i)' = "awaiting" /\ UNCHANGED reports
      BY <1>1, <2>1 DEF LifeAsTold, Opens, NothingTold
    <3>2. Reports!Open(i)
      BY <1>3, <3>1, OneLives DEF Reports!Open
    <3> QED  BY <3>2 DEF Reports!Next
  <2>2. CASE GoesLive(i)
    <3>1. /\ Life(i) = "awaiting" /\ Life(i)' = "live"
          /\ reports' = [reports EXCEPT ![i] = Append(@, "ready")]
      BY <1>1, <2>2 DEF LifeAsTold, GoesLive
    <3>2. Reports!GoLive(i)
      BY <1>3, <3>1, OneLives DEF Reports!GoLive
    <3> QED  BY <3>2 DEF Reports!Next
  <2>3. CASE IsOver(i)
    <3>1. /\ Life(i) \in {"awaiting", "live"} /\ Life(i)' = "over"
          /\ reports' = [reports EXCEPT ![i] = Append(@, "closed")]
      BY <1>1, <2>3 DEF LifeAsTold, IsOver
    <3>2. Reports!Close(i)
      BY <1>3, <3>1, OneLives DEF Reports!Close
    <3> QED  BY <3>2 DEF Reports!Next
  <2> QED  BY <1>3, <2>1, <2>2, <2>3
<1> QED  BY <1>2, <1>3, StepSeen DEF Seen

\* The match server is told of an instance as MatchReports promises it: live at
\* most once, over exactly once and last, whoever comes, stays away, leaves or
\* comes again, and whoever asks for the end first.
THEOREM ImplementsMatchReports == Spec => Reports!Init /\ [][Reports!Next]_(Reports!vars)
<1>1. Init => Reports!Init
  BY DEF Init, Reports!Init, Life, Fresh
<1>2. IInv /\ IInv' /\ [Next]_vars => [Reports!Next]_(Reports!vars)
  BY StepReports
<1> QED  BY <1>1, <1>2, InstanceInvariant, PTL DEF Spec

\* A game is started once, asks for the end at most once, and is not played
\* again after it, though the match may end by a timer, by an empty room, by the
\* match server or by the game itself, and any of them may come late.
THEOREM GamesPlayedOnce == Spec => GamesArePlayedOnce
<1>1. ASSUME IInv, IInv', [Next]_vars
      PROVE  [\A i \in Inst : UNCHANGED <<play[i], closes[i]>> \/ Mode(i)!Next]_<<play, closes>>
  <2>1. \A i \in Inst : Plays(i)
    BY <1>1, StepSeen
  <2> QED  BY <2>1 DEF Plays, Mode!Next, Mode!Start, Mode!Complete, Mode!End
<1> QED  BY <1>1, InstanceInvariant, PTL DEF Spec, GamesArePlayedOnce
=============================================================================
