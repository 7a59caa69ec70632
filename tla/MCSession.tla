----------------------------- MODULE MCSession -----------------------------
EXTENDS Session

P(id, size) == <<"packet", id, size>>
B(id, size) == <<"body", id, size>>

\* Three packets of one, three and two units.
Small == <<P(1, 1)>>
Large == <<P(2, 3), B(2, 3), B(2, 3)>>
Mid   == <<P(3, 2), B(3, 2)>>

Upgrade == <<<<"request", 0, 0>>, <<"upgrade", 0, 0>>>>
Frame(opcode, body) == <<<<opcode, 0, Len(body)>>>> \o body

MCStreams == {
    \* a native client
    [web |-> FALSE, units |-> Small \o Large \o Mid, body |-> Small \o Large \o Mid,
     packets |-> <<Small, Large, Mid>>],
    \* one that loses its place after a packet
    [web |-> FALSE, units |-> Small \o <<P(4, 0)>> \o Mid,
     body |-> Small \o <<P(4, 0)>> \o Mid, packets |-> <<Small>>],
    \* a browser whose packets do not line up with its frames
    [web |-> TRUE,
     units |-> <<Last(Upgrade)>> \o Frame("Binary", Small \o <<Head(Mid)>>)
                   \o Frame("Continuation", Tail(Mid)),
     body |-> Small \o Mid, packets |-> <<Small, Mid>>],
    \* one that leaves
    [web |-> TRUE, units |-> Upgrade \o Frame("Binary", Small) \o Frame("Close", <<>>),
     body |-> Small, packets |-> <<Small>>],
    \* no browser
    [web |-> TRUE, units |-> Small \o <<<<"refused", 0, 0>>>>, body |-> <<>>, packets |-> <<>>]}
=============================================================================
