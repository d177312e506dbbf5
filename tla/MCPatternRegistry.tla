------------------------- MODULE MCPatternRegistry -------------------------
(* Two processes and a pattern with a comma in a character class, which Redis *)
(* gives back as two sources.                                                 *)
EXTENDS PatternRegistry, TLC

MCPieces == [s \in Sources |-> IF s = "[a,b]" THEN {"[a", "b]"} ELSE {s}]

=============================================================================
