------------------------------ MODULE BridgeHA ------------------------------
(***************************************************************************)
(* Two replicas with leader election (replicaCount=2, the chart's active   *)
(* and passive pod): two BridgeProcess instances that share the Lease.     *)
(***************************************************************************)

CONSTANTS PodA, PodB, NoPod

ASSUME ReplicasAssumption == PodA # PodB /\ PodA # NoPod /\ PodB # NoPod

VARIABLES
    lease,
    procA, ctxA, signalledA, healthA, exitErrA, returnedA,
    deferredA, electA, phaseA, leaderA, publicReadyA,
    procB, ctxB, signalledB, healthB, exitErrB, returnedB,
    deferredB, electB, phaseB, leaderB, publicReadyB

A == INSTANCE BridgeProcess WITH
    Self <- PodA, Others <- {PodB}, LeaderElection <- TRUE, HealthFaults <- FALSE,
    proc <- procA, ctx <- ctxA, signalled <- signalledA, health <- healthA,
    exitErr <- exitErrA, returned <- returnedA, deferred <- deferredA,
    elect <- electA, phase <- phaseA, leader <- leaderA, publicReady <- publicReadyA

B == INSTANCE BridgeProcess WITH
    Self <- PodB, Others <- {PodA}, LeaderElection <- TRUE, HealthFaults <- FALSE,
    proc <- procB, ctx <- ctxB, signalled <- signalledB, health <- healthB,
    exitErr <- exitErrB, returned <- returnedB, deferred <- deferredB,
    elect <- electB, phase <- phaseB, leader <- leaderB, publicReady <- publicReadyB

podA == <<procA, ctxA, signalledA, healthA, exitErrA, returnedA,
            deferredA, electA, phaseA, leaderA, publicReadyA>>
podB == <<procB, ctxB, signalledB, healthB, exitErrB, returnedB,
            deferredB, electB, phaseB, leaderB, publicReadyB>>
vars == <<lease, podA, podB>>

Init == A!Init /\ B!Init

Next ==
    \/ A!SelfStep /\ UNCHANGED podB
    \/ B!SelfStep /\ UNCHANGED podA

Spec == Init /\ [][Next]_vars /\ A!Fairness /\ B!Fairness

-----------------------------------------------------------------------------
(* Properties.                                                             *)

(* Past the point where the elector gives the Lease up. *)
Leaving == {"releasing", "released", "cancelled", "clearing", "stopped", "returned"}

(* Two pods hold a Funnel node, and with it the one Tailscale identity of  *)
(* the state Secret, only while one of them is on its way out: the runner  *)
(* runs under the Lease alone, and no crash, restart, lost answer or       *)
(* expiry makes two leaders that both mean to stay.                        *)
OverlapOnlyInHandover ==
    (A!HasNode /\ B!HasNode) => (electA \in Leaving \/ electB \in Leaving)

(* /leaderz "identifies the current public-serving pod"                    *)
(* (docs/how-to/helm.md:73-74): two pods answer it only from the moment    *)
(* one of them stops renewing until its OnStoppedLeading has cleared the   *)
(* flag, and not for as long as it still drains requests and holds a node. *)
OneLeaderzOutsideYielding ==
    (A!LeaderReady /\ B!LeaderReady) =>
        \/ electA \in {"releasing", "released", "cancelled"}
        \/ electB \in {"releasing", "released", "cancelled"}

(* What one pod does to the Lease is what the other pod's model expects of *)
(* its surroundings, so all that is shown of BridgeProcess holds of each   *)
(* of the two.                                                             *)
EachPodConforms == A!SafeSpec /\ B!SafeSpec

(* "only one pod owns Funnel at a time" (chart/README.md:127-128; also     *)
(* docs/how-to/helm.md:72, "one active Funnel owner").                     *)
OneFunnelOwner == ~(A!HasNode /\ B!HasNode)
=============================================================================
