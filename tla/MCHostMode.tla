----------------------------- MODULE MCHostMode ----------------------------
\* HostMode on a small instance: one advisor has two clients, the other one.
EXTENDS HostMode

CONSTANTS c1, c2, c3, a1, a2
MCClients == {c1, c2, c3}
MCAdvisorOf == [c \in MCClients |-> IF c = c3 THEN a2 ELSE a1]
===========================================================================
