------------------------------- MODULE MCIpBan -------------------------------
(* Two processes, the first with two overlapping calls.                      *)
EXTENDS IpBan, TLC

CONSTANTS p1, p2, c1, c2, c3

MCProcOf == [c \in Calls |-> IF c = c3 THEN p2 ELSE p1]

Symmetry == Permutations(IPs) \cup Permutations(Calls \ {c3})
=============================================================================
