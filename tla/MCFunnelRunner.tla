--------------------------- MODULE MCFunnelRunner ---------------------------
(* FunnelRunner for TLC, with what the comments of runner.go say of it.    *)
EXTENDS FunnelRunner

(* "Once an auth key has been applied, keep polling until Running or       *)
(* timeout" (startAndProbe, runner.go:388-391): a start attempt ends.      *)
StartAttemptEnds == pc \in {"poll", "wait"} ~> pc \notin {"poll", "wait"}

(* "blocks until ctx is cancelled or the watcher detects a flip out of     *)
(* Running" (serveOnce, runner.go:439-440): a node that has left Running   *)
(* does not stay the served one.                                           *)
FlipOutOfRunningNoticed ==
    (pc = "select" /\ backend[server] # "Running")
        ~> (pc # "select" \/ backend[server] = "Running")
=============================================================================
