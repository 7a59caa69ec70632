---------------------------- MODULE MatchReports ----------------------------
(***************************************************************************)
(* What the match server relies on in the instances it asks for: it is     *)
(* told that a match is live at most once, that it is over exactly once    *)
(* and last, and it is told that in the end.                               *)
(***************************************************************************)
EXTENDS Sequences

CONSTANT Inst

VARIABLES
    life,       \* of each instance: "none", "awaiting", "live" or "over"
    reports     \* what was sent of each to the match server

vars == <<life, reports>>

Init == life = [i \in Inst |-> "none"] /\ reports = [i \in Inst |-> <<>>]

Becomes(i, l) == life' = [life EXCEPT ![i] = l]
Report(i, r) == reports' = [reports EXCEPT ![i] = Append(@, r)]

Open(i) == life[i] = "none" /\ Becomes(i, "awaiting") /\ UNCHANGED reports

GoLive(i) == life[i] = "awaiting" /\ Becomes(i, "live") /\ Report(i, "ready")

Close(i) == life[i] \in {"awaiting", "live"} /\ Becomes(i, "over") /\ Report(i, "closed")

Next == \E i \in Inst : Open(i) \/ GoLive(i) \/ Close(i)

Spec == Init /\ [][Next]_vars /\ \A i \in Inst : WF_vars(Close(i))
=============================================================================
