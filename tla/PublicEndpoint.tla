--------------------------- MODULE PublicEndpoint ---------------------------
(***************************************************************************)
(* What one call of tsrunner.Run promises the rest of the process about    *)
(* the public endpoint, with nothing of how.  It works in attempts, and    *)
(* starts none once it is cancelled; it holds at most one tsnet node,      *)
(* opens the endpoint only on a node it has checked, says ready only of an *)
(* open endpoint, and never lets go of a node whose endpoint is open; it   *)
(* returns nil only when cancelled, and holds nothing once it has          *)
(* returned.  It does return when it is cancelled, and does not rest       *)
(* before a node is there or an open endpoint is announced; but it does    *)
(* not promise that an attempt with a node ends, for startAndProbe waits   *)
(* for a node that has its key without a timeout.                          *)
(***************************************************************************)
EXTENDS EndpointPhases

VARIABLES
    phase,      \* how far the call has come
    trusted,    \* the node's cert domains hold the issuer host
    ready,      \* last argument of SetPublicReady
    cancelled   \* ctx is done

vars == <<phase, trusted, ready, cancelled>>

Init == phase = "down" /\ ~trusted /\ ~ready /\ cancelled \in BOOLEAN

(* ctx is cancelled; nothing else happens yet. *)
Cancel ==
    /\ ~cancelled
    /\ cancelled' = TRUE
    /\ UNCHANGED <<phase, trusted, ready>>

(* An endpoint opens on a trusted node; trust ends with the node, and      *)
(* readiness at the latest with the endpoint.                              *)
Move ==
    /\ MayMove(phase, phase', cancelled)
    /\ phase' = "open" => trusted
    /\ trusted' = (trusted /\ phase' \in {"held", "open", "parked"})
    /\ ready' = (ready /\ phase # "open")
    /\ UNCHANGED cancelled

(* verifyIssuerHost succeeds. *)
Trust ==
    /\ phase = "held"
    /\ trusted' = TRUE
    /\ UNCHANGED <<phase, ready, cancelled>>

Announce ==
    /\ phase = "open"
    /\ ready' = TRUE
    /\ UNCHANGED <<phase, trusted, cancelled>>

Withdraw ==
    /\ ready
    /\ ready' = FALSE
    /\ UNCHANGED <<phase, trusted, cancelled>>

Next == Cancel \/ Move \/ Trust \/ Announce \/ Withdraw

SafeSpec == Init /\ [][Next]_vars

(* What the caller may wait for; leaving "held" is not among it. *)
Progress ==
    /\ cancelled ~> phase \in {"stopped", "failed"}
    /\ \A p \in {"down", "trying", "parked"} : phase = p ~> phase # p
    /\ phase = "open" ~> (ready \/ phase # "open")

Spec == SafeSpec /\ Progress
=============================================================================
