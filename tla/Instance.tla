------------------------------ MODULE Instance ------------------------------
(***************************************************************************)
(* The instance server: instances, the connections of their players, the   *)
(* table of tickets and the map that routes a ticket to an instance.       *)
(*                                                                         *)
(* Packets of players and of the match server are handled on any worker;   *)
(* what they ask of an instance is a job of its queue (JobQueue.tla), and  *)
(* two jobs of one instance do not overlap.  A job of a timer comes to the *)
(* queue at a time of its own, so it may run between any two others.       *)
(*                                                                         *)
(* The game is what GameMode.tla says of it.  Shots do not change anything *)
(* here.  A client says hello once on a connection.                        *)
(***************************************************************************)
EXTENDS Naturals, Sequences, FiniteSets

CONSTANTS
    Player, Inst, None,
    MaxConns,   \* bound on the connections
    Roster,     \* the members of each instance the match server asks for
    GivenUp     \* the instances it may close before they are over

Conn == 1..MaxConns

ASSUME InstanceAssumption ==
    /\ MaxConns \in Nat
    /\ None \notin Player \cup Inst \cup Conn
    /\ Roster \in [Inst -> SUBSET Player \ {{}}]
    /\ GivenUp \subseteq Inst

VARIABLES
    inst,       \* the instances, registered or not
    registered, \* InstanceManager::_instances
    routes,     \* InstanceManager::_sessionToInstance
    tickets,    \* the table of tickets; each is of a member of an instance
    conns,      \* connections of players
    play,       \* the game of each instance, as in GameMode
    closes,     \* and how often it asked for the end
    reports     \* what each instance sent to the match server

vars == <<inst, registered, routes, tickets, conns, play, closes, reports>>

State == {"none", "AwaitingPlayers", "Running", "Finished"}
Ticket == Player \X Inst

ConnectedJob(c, p) == [kind |-> "Connected", conn |-> c, who |-> p]
LeftJob(p) == [kind |-> "Left", conn |-> None, who |-> p]
CloseJob == [kind |-> "Close", conn |-> None, who |-> None]
Job == {ConnectedJob(c, p) : c \in Conn, p \in Player}
           \cup {LeftJob(p) : p \in Player} \cup {CloseJob}

TypeOK ==
    /\ inst \in [Inst -> [state : State, members : SUBSET Player, here : SUBSET Player,
                          session : [Player -> Conn \cup {None}], jobs : Seq(Job),
                          due : BOOLEAN, forget : SUBSET Player]]
    /\ registered \subseteq Inst
    /\ routes \in [Player -> registered \cup {None}]
    /\ tickets \subseteq Ticket
    /\ conns \in [Conn -> [link : {"unused", "open", "closing", "closed"},
                           who : Player \cup {None}, at : Inst \cup {None}]]
    /\ play \in [Inst -> {"idle", "playing", "over"}]
    /\ closes \in [Inst -> Nat]
    /\ reports \in [Inst -> Seq({"ready", "closed"})] /\ \A i \in Inst : Len(reports[i]) <= 2

Fresh == [state |-> "none", members |-> {}, here |-> {}, session |-> [p \in Player |-> None],
          jobs |-> <<>>, due |-> FALSE, forget |-> {}]

Unused == [link |-> "unused", who |-> None, at |-> None]
Closed == [link |-> "closed", who |-> None, at |-> None]

Init ==
    /\ inst = [i \in Inst |-> Fresh]
    /\ registered = {} /\ routes = [p \in Player |-> None]
    /\ tickets = {}
    /\ conns = [c \in Conn |-> Unused]
    /\ play = [i \in Inst |-> "idle"] /\ closes = [i \in Inst |-> 0]
    /\ reports = [i \in Inst |-> <<>>]

Post(i, job) == [inst EXCEPT ![i].jobs = Append(@, job)]

\* Session::Disconnect of those that are still connected; OnDisconnected follows.
Disconnected(cs) ==
    [c \in Conn |-> IF c \in cs /\ conns[c].link = "open"
                    THEN [conns[c] EXCEPT !.link = "closing"] ELSE conns[c]]
-----------------------------------------------------------------------------
(***************************************************************************)
(* The match server's packets.  An instance id is used for one instance.   *)
(***************************************************************************)

\* Wrong: nobody waits for the players that do not come.
CreatedUntimed(i) == [Fresh EXCEPT !.state = "AwaitingPlayers", !.members = Roster[i]]

Created(i) == [Fresh EXCEPT !.state = "AwaitingPlayers", !.members = Roster[i], !.due = TRUE]

\* InstanceManager::Create: the players of the request are routed to the new one.
Create(i) ==
    /\ registered' = registered \cup {i}
    /\ routes' = [p \in Player |-> IF p \in Roster[i] THEN i ELSE routes[p]]

\* P_InstanceCreate, InstanceManager::Create, StartJoinTimeout, and the P_TicketAdd
\* that answer the acknowledgement: before them no player has a ticket to use.
P_InstanceCreate(i) ==
    /\ inst[i].state = "none"
    /\ inst' = [inst EXCEPT ![i] = Created(i)]
    /\ Create(i)
    /\ tickets' = tickets \cup (Roster[i] \X {i})
    /\ UNCHANGED <<conns, play, closes, reports>>

\* The match server gave the start up.
P_InstanceClosed(i) ==
    /\ i \in registered \cap GivenUp
    /\ CloseJob \notin {inst[i].jobs[n] : n \in DOMAIN inst[i].jobs}
    /\ inst' = Post(i, CloseJob)
    /\ UNCHANGED <<registered, routes, tickets, conns, play, closes, reports>>
-----------------------------------------------------------------------------
(***************************************************************************)
(* Connections                                                             *)
(***************************************************************************)

\* Connections are numbered in the order of their hellos.
IsNext(c) == conns[c].link = "unused" /\ \A d \in 1 .. c - 1 : conns[d].link # "unused"

\* A ticket is good once (TicketTable::Consume), and may be good for nothing:
\* the player is then sent away, as with a ticket that is not in the table.
HelloRefused(c, t) ==
    /\ IsNext(c) /\ t \in tickets /\ routes[t[1]] = None
    /\ tickets' = tickets \ {t}
    /\ conns' = [conns EXCEPT ![c].link = "closed"]
    /\ UNCHANGED <<inst, registered, routes, play, closes, reports>>

\* The ticket is a player's: which of its instances it was made for is not in it.
HelloAccepted(c, t) ==
    /\ IsNext(c) /\ t \in tickets /\ routes[t[1]] # None
    /\ tickets' = tickets \ {t}
    /\ conns' = [conns EXCEPT ![c].link = "open", ![c].who = t[1]]
    /\ inst' = Post(routes[t[1]], ConnectedJob(c, t[1]))
    /\ UNCHANGED <<registered, routes, play, closes, reports>>

C_InstHello(c, t) == HelloRefused(c, t) \/ HelloAccepted(c, t)

\* The connection breaks, or the client closes it.
Breaks(c) ==
    /\ conns[c].link = "open"
    /\ conns' = Disconnected({c})
    /\ UNCHANGED <<inst, registered, routes, tickets, play, closes, reports>>

\* What is said of a player reaches the instance the connection was taken into.
PostLeft(c) ==
    IF conns[c].at \in registered THEN inst' = Post(conns[c].at, LeftJob(conns[c].who))
                                  ELSE UNCHANGED inst

C_InstLeave(c) ==
    /\ conns[c].link = "open" /\ PostLeft(c)
    /\ conns' = Disconnected({c})
    /\ UNCHANGED <<registered, routes, tickets, play, closes, reports>>

OnDisconnected(c) ==
    /\ conns[c].link = "closing" /\ PostLeft(c)
    /\ conns' = [conns EXCEPT ![c] = Closed]
    /\ UNCHANGED <<registered, routes, tickets, play, closes, reports>>
-----------------------------------------------------------------------------
(***************************************************************************)
(* Jobs of an instance                                                     *)
(***************************************************************************)

\* The queue is free: no HandleClose is under way.
Free(i) == ~(inst[i].state = "Finished" /\ i \in registered)

Taken(i) == [inst[i] EXCEPT !.jobs = Tail(@)]

\* HandleClose, up to the calls of ForgetSession.
BeginClose(i, r) ==
    IF r.state = "Finished"
    THEN inst' = [inst EXCEPT ![i] = r] /\ UNCHANGED <<conns, play>>
    ELSE /\ inst' = [inst EXCEPT ![i] = [r EXCEPT !.state = "Finished", !.here = {},
                                              !.session = [p \in Player |-> None],
                                              !.forget = r.members]]
         /\ conns' = Disconnected({r.session[p] : p \in Player})
         /\ play' = [play EXCEPT ![i] = IF r.state = "Running" THEN "over" ELSE @]

\* The calls of ForgetSession, each under the lock of the manager.
ForgetSession(i) ==
    \E p \in inst[i].forget :
        /\ inst' = [inst EXCEPT ![i].forget = @ \ {p}]
        /\ routes' = [routes EXCEPT ![p] = None]
        /\ UNCHANGED <<registered, tickets, conns, play, closes, reports>>

\* The report and InstanceManager::Remove.
EndClose(i) ==
    /\ ~Free(i) /\ inst[i].forget = {}
    /\ reports' = [reports EXCEPT ![i] = Append(@, "closed")]
    /\ registered' = registered \ {i}
    /\ routes' = [p \in Player |-> IF routes[p] = i THEN None ELSE routes[p]]
    /\ UNCHANGED <<inst, tickets, conns, play, closes>>

NextIs(i, kind) == Free(i) /\ inst[i].jobs # <<>> /\ Head(inst[i].jobs).kind = kind

AllConnected(r) == r.members \subseteq r.here

\* Wrong: a match begins whenever its players are complete.
BeginMatchAgain(i, r) ==
    IF AllConnected(r)
    THEN /\ inst' = [inst EXCEPT ![i] = [r EXCEPT !.state = "Running"]]
         /\ play' = [play EXCEPT ![i] = "playing"]
         /\ reports' = [reports EXCEPT ![i] = Append(@, "ready")]
    ELSE inst' = [inst EXCEPT ![i] = r] /\ UNCHANGED <<play, reports>>

BeginMatch(i, r) ==
    IF AllConnected(r) /\ r.state = "AwaitingPlayers"
    THEN /\ inst' = [inst EXCEPT ![i] = [r EXCEPT !.state = "Running"]]
         /\ play' = [play EXCEPT ![i] = "playing"]
         /\ reports' = [reports EXCEPT ![i] = Append(@, "ready")]
    ELSE inst' = [inst EXCEPT ![i] = r] /\ UNCHANGED <<play, reports>>

\* A connection that has broken meanwhile is taken in like any other.
PlayerConnected(i) ==
    /\ NextIs(i, "Connected") /\ inst[i].state # "Finished"
    /\ LET job == Head(inst[i].jobs) IN
       /\ BeginMatch(i, [Taken(i) EXCEPT !.session[job.who] = job.conn, !.here = @ \cup {job.who}])
       /\ conns' = [conns EXCEPT ![job.conn].at = i]
    /\ UNCHANGED <<registered, routes, tickets, closes>>

ConnectedTooLate(i) ==
    /\ NextIs(i, "Connected") /\ inst[i].state = "Finished"
    /\ inst' = [inst EXCEPT ![i] = Taken(i)]
    /\ conns' = Disconnected({Head(inst[i].jobs).conn})
    /\ UNCHANGED <<registered, routes, tickets, play, closes, reports>>

\* The game decides the match, and asks for the instance to be closed.
Completes(i, r) ==
    /\ r.state = "Running" /\ play[i] = "playing"
    /\ closes' = [closes EXCEPT ![i] = @ + 1]

Deserted(r) == r.here = {}

\* OnMemberLeft may end the game; a match with nobody in it is closed at once.
PlayerLeft(i) ==
    /\ NextIs(i, "Left") /\ Head(inst[i].jobs).who \in inst[i].here
    /\ LET p == Head(inst[i].jobs).who
           left == [Taken(i) EXCEPT !.here = @ \ {p}, !.session[p] = None]
       IN  \/ /\ Deserted(left)
              /\ BeginClose(i, left)
              /\ UNCHANGED closes
           \/ /\ Deserted(left) /\ Completes(i, left)
              /\ BeginClose(i, [left EXCEPT !.jobs = Append(@, CloseJob)])
           \/ /\ ~Deserted(left)
              /\ inst' = [inst EXCEPT ![i] = left]
              /\ UNCHANGED <<conns, play, closes>>
           \/ /\ ~Deserted(left) /\ Completes(i, left)
              /\ inst' = [inst EXCEPT ![i] = [left EXCEPT !.jobs = Append(@, CloseJob)]]
              /\ play' = [play EXCEPT ![i] = "over"]
              /\ UNCHANGED conns
    /\ UNCHANGED <<registered, routes, tickets, reports>>

LeftAlready(i) ==
    /\ NextIs(i, "Left") /\ Head(inst[i].jobs).who \notin inst[i].here
    /\ inst' = [inst EXCEPT ![i] = Taken(i)]
    /\ UNCHANGED <<registered, routes, tickets, conns, play, closes, reports>>

CloseRequested(i) ==
    /\ NextIs(i, "Close")
    /\ BeginClose(i, Taken(i))
    /\ UNCHANGED <<registered, routes, tickets, closes, reports>>

\* The join timeout, which is armed once and does nothing for a match that began.
JoinTimeout(i) ==
    /\ inst[i].due /\ Free(i)
    /\ IF inst[i].state = "AwaitingPlayers"
       THEN BeginClose(i, [inst[i] EXCEPT !.due = FALSE])
       ELSE inst' = [inst EXCEPT ![i].due = FALSE] /\ UNCHANGED <<conns, play>>
    /\ UNCHANGED <<registered, routes, tickets, closes, reports>>

\* A tick of the game that decides the match; the others change nothing here.
DecidingTick(i) ==
    /\ Free(i) /\ Completes(i, inst[i])
    /\ inst' = Post(i, CloseJob)
    /\ play' = [play EXCEPT ![i] = "over"]
    /\ UNCHANGED <<registered, routes, tickets, conns, reports>>

InstanceStep(i) ==
    \/ ForgetSession(i) \/ EndClose(i)
    \/ PlayerConnected(i) \/ ConnectedTooLate(i) \/ PlayerLeft(i) \/ LeftAlready(i)
    \/ CloseRequested(i)
-----------------------------------------------------------------------------
Next ==
    \/ \E i \in Inst : \/ P_InstanceCreate(i)
                       \/ P_InstanceClosed(i)
                       \/ InstanceStep(i) \/ JoinTimeout(i) \/ DecidingTick(i)
    \/ \E c \in Conn : \/ Breaks(c) \/ C_InstLeave(c) \/ OnDisconnected(c)
                       \/ \E t \in Ticket : C_InstHello(c, t)

\* Jobs run (JobQueue.tla), timers fire (JobTimer.tla), and a game ends by
\* itself (Shooting.tla).  Players owe nothing.
Fairness ==
    \A i \in Inst : /\ WF_vars(InstanceStep(i))
                    /\ WF_vars(JoinTimeout(i))
                    /\ WF_vars(DecidingTick(i))

Spec == Init /\ [][Next]_vars /\ Fairness
-----------------------------------------------------------------------------
Has(i, report) == \E n \in DOMAIN reports[i] : reports[i][n] = report

Life(i) ==
    IF inst[i].state = "none" THEN "none"
    ELSE IF Has(i, "closed") THEN "over"
    ELSE IF Has(i, "ready") THEN "live" ELSE "awaiting"

Reports == INSTANCE MatchReports WITH life <- [i \in Inst |-> Life(i)]

\* Every instance reports as the match server expects, and is over in the end:
\* whoever comes, stays away, leaves or comes again, and whoever closes it first.
InstancesReport == Reports!Spec

Mode(i) == INSTANCE GameMode WITH play <- play[i], closes <- closes[i]

\* The game is started once, and never played again after its end, though a
\* player may connect or leave between its end and the job that closes.
GamesArePlayedOnce ==
    [][\A i \in Inst : UNCHANGED <<play[i], closes[i]>> \/ Mode(i)!Next]_<<play, closes>>
=============================================================================
