--------------------------- MODULE EndpointPhases ---------------------------
(***************************************************************************)
(* The phases of one call of tsrunner.Run, as its caller can tell them     *)
(* apart.  PublicEndpoint states the promise of the call in these terms,   *)
(* FunnelRunner is shown to keep it, and BridgeProcess relies on it.       *)
(***************************************************************************)

(*   down      between attempts, with no node                              *)
(*   trying    in an attempt that has no node yet                          *)
(*   held      in an attempt that has a node                               *)
(*   open      the same, with an HTTP server that was not shut down        *)
(*   parked    between attempts, the node is kept for the next             *)
(*   stopped   returned nil            failed    returned an error         *)
Phases == {"down", "trying", "held", "open", "parked", "stopped", "failed"}

(* Where a call in phase `from' may go: an attempt begins; it gets a node; *)
(* the endpoint opens, and closes; the attempt ends; the call returns.     *)
MayMove(from, to, isCancelled) ==
    \/ ~isCancelled /\ from = "down" /\ to = "trying"
    \/ ~isCancelled /\ from = "parked" /\ to = "held"
    \/ from = "trying" /\ to = "held"
    \/ from = "held" /\ to = "open"
    \/ from = "open" /\ to = "held"
    \/ from \in {"trying", "held"} /\ to \in {"down", "failed"}
    \/ from = "held" /\ to = "parked"
    \/ isCancelled /\ from \in {"down", "parked"} /\ to = "stopped"
=============================================================================
