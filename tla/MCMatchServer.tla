--------------------------- MODULE MCMatchServer ---------------------------
EXTENDS MatchServer, TLC

CONSTANTS s1, s2, s3, p1, p2

Sessions == Permutations(Session)

\* The handoff is looked at from a room that s1 created, the others joined and
\* are ready in: the state the lobby packets lead to once every queue is drained.
Players == SetToSeq(Session \ {s1})
Full1 ==
    [state |-> "Waiting", host |-> s1, cooldown |-> {}, locked |-> FALSE,
     members |-> <<[sid |-> s1, slot |-> 0, ready |-> FALSE]>> \o
        [n \in DOMAIN Players |-> [sid |-> Players[n], slot |-> n, ready |-> TRUE]]]

SeatedInit ==
    /\ events = 0
    /\ conn = [s \in Session |-> "in"]
    /\ roomOf = [s \in Session |-> 1] /\ clearing = {}
    /\ created = 1
    /\ registered = {1}
    /\ rooms = [r \in RoomId |-> IF r = 1 THEN Full1 ELSE NewRoom(FALSE)]
    /\ summaries = [r \in RoomId |-> IF r = 1 THEN Summary(Full1) ELSE None]
    /\ roomJobs = [r \in RoomId |-> <<>>]
    /\ serverJobs = <<>>
    /\ memberships = Session \X {<<"room", 1>>}
    /\ handoffs = [i \in InstanceId |-> None]
    /\ started = 0
    /\ instances = [i \in InstanceId |-> "none"]
    /\ peers = [p \in Peer |-> "new"]
    /\ loads = [p \in Peer |-> 0]

SeatedSpec == SeatedInit /\ [][Next]_vars /\ Fairness
=============================================================================
