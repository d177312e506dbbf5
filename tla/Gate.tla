-------------------------------- MODULE Gate --------------------------------
(***************************************************************************)
(* What the framework adapters promise their application, seen from        *)
(* outside: a caller waits until it is admitted or turned away, nobody is  *)
(* admitted before the engine is ready, the handler is called for admitted *)
(* callers only and once, and an answer is final.                          *)
(***************************************************************************)
CONSTANT Callers

VARIABLES
    ready,    \* the surfaces of the application whose engine is ready
    gate      \* of each caller: its surface and how far it came

gateVars == <<ready, gate>>

\* Callers that never come count as closed.
GateInit ==
    /\ ready = {}
    /\ \A c \in Callers : gate[c].at \in {"waiting", "closed"}

Advance(c, from, to) ==
    gate[c].at \in from /\ gate' = [gate EXCEPT ![c].at = to]

Ready == gate' = gate /\ \E s \in {gate[c].surface : c \in Callers} : ready' = ready \cup {s}

Admit(c) == gate[c].surface \in ready /\ Advance(c, {"waiting"}, "admitted") /\ ready' = ready

Serve(c) == Advance(c, {"admitted"}, "serving") /\ ready' = ready

\* A refusal, the answer of the handler, or an error on the way.
Close(c) == Advance(c, {"waiting", "admitted", "serving"}, "closed") /\ ready' = ready

GateNext == Ready \/ \E c \in Callers : Admit(c) \/ Serve(c) \/ Close(c)

GateSpec == GateInit /\ [][GateNext]_gateVars
=============================================================================
