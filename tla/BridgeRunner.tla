---------------------------- MODULE BridgeRunner ----------------------------
(***************************************************************************)
(* The process with the runner it really runs: BridgeProcess, whose phase  *)
(* is an abstraction, with FunnelRunner inside.  setupProcess of           *)
(* cmd/oidc-proxy/main.go puts the two together: publicRunner is           *)
(* tsrunner.Run on runCtx, its SetPublicReady callback writes              *)
(* runtimeState.publicReady, which OnStoppedLeading writes too.            *)
(*                                                                         *)
(* The variables of FunnelRunner are those of the call under way.  They    *)
(* die with the process; the identity in the state Secret does not.        *)
(***************************************************************************)
EXTENDS FunnelRunner

CONSTANTS Self, Others, NoPod, LeaderElection, HealthFaults

ASSUME BridgeAssumption ==
    /\ Self # NoPod /\ Self \notin Others /\ NoPod \notin Others
    /\ LeaderElection \in BOOLEAN /\ HealthFaults \in BOOLEAN

VARIABLES
    call,        \* of publicRunner: "none", "spawned" or "called"
    stateReady,  \* runtimeState.publicReady
    lease, proc, ctx, signalled, health, exitErr, returned, deferred, elect,
    leader       \* as in BridgeProcess

mainVars == <<proc, ctx, signalled, health, exitErr, returned>>
bridgeVars == <<vars, call, stateReady, lease, mainVars, deferred, elect, leader>>

(* What BridgeProcess calls the phase. *)
Phase == IF call = "called" THEN EndpointPhase ELSE call

P == INSTANCE BridgeProcess WITH phase <- Phase, publicReady <- stateReady

BridgeInit ==
    /\ Init /\ cancelled = FALSE
    /\ call = "none"
    /\ P!Init

-----------------------------------------------------------------------------
(* The goroutines of the runner and of its node.                           *)

(* The points of serveOnce at which Run calls SetPublicReady. *)
CallsSetPublicReady == pc' # pc /\ pc \in {"serve", "announce", "select", "await"}

(* The callback that setupProcess gives to the runner. *)
StateReady ==
    stateReady' = IF CallsSetPublicReady THEN publicReady' ELSE stateReady

(* publicRunner returns an error to OnStartedLeading, before runCtx is done. *)
ReturnsErr ==
    LeaderElection /\ ~cancelled /\ Phase # "failed" /\ Phase' = "failed"

Runs(A) ==
    /\ call = "called" /\ A
    /\ UNCHANGED <<call, lease, mainVars, elect, leader>>
    /\ StateReady
    /\ IF ReturnsErr THEN P!SendErr("runner") ELSE UNCHANGED deferred

(* The control plane forgets a node also while no process runs it. *)
NodeForgotten ==
    /\ call # "called" /\ IdentityRevoked
    /\ UNCHANGED <<call, stateReady, lease, mainVars, deferred, elect, leader>>

-----------------------------------------------------------------------------
(* The goroutines of the process.                                          *)

(* What a call begins with. *)
RunnerFresh ==
    /\ pc' = "top"
    /\ server' = NoNode /\ verified' = FALSE /\ state' = "" /\ startErr' = FALSE
    /\ backoff' = 0 /\ result' = "running"
    /\ up' = {} /\ keyed' = {} /\ spent' = {} /\ hostOK' = {}
    /\ backend' = [n \in Nodes |-> ""]
    /\ listener' = "off" /\ inflight' = FALSE /\ drain' = "no" /\ watcher' = "off"
    /\ restart' = "none" /\ publicReady' = FALSE

(* Fault variant: publicRunner does not pass runCtx on to Run. *)
BesideDetached(A) ==
    \E c \in {"none", "spawned", "called"} :
        /\ call' = c
        /\ IF c = "none" THEN RunnerFresh
                         ELSE UNCHANGED <<pc, loopVars, up, keyed, spent, hostOK,
                                          backend, serveVars>>
        /\ UNCHANGED identity
        /\ A
        /\ cancelled' = FALSE

(* A process that ends takes the runner along, as it is; nothing else that *)
(* the process does touches the runner but through runCtx.                 *)
Beside(A) ==
    \E c \in {"none", "spawned", "called"} :
        /\ call' = c
        /\ IF c = "none" THEN RunnerFresh
                         ELSE UNCHANGED <<pc, loopVars, up, keyed, spent, hostOK,
                                          backend, serveVars>>
        /\ UNCHANGED identity
        /\ A
        /\ cancelled' = P!RunCtxDone'

ProcessStep ==
    \/ P!OthersStep \/ P!PodStep \/ P!MainStep \/ P!ElectorStep
    \/ P!StartLeading \/ P!ClearLeader \/ P!ClearReady

BridgeNext ==
    \/ Runs(RunnerStep \/ SideStep \/ NodeStep) \/ NodeForgotten
    \/ Beside(ProcessStep)

(* The fairness of the two, of BridgeProcess without what it assumes of    *)
(* its runner.                                                             *)
BridgeFairness ==
    /\ WF_bridgeVars(Runs(RunnerStep))
    /\ SF_bridgeVars(Runs(PollCancelled)) /\ SF_bridgeVars(Runs(PollTimeout))
    /\ WF_bridgeVars(Runs(WatchSees))
    /\ \A n \in Nodes : /\ WF_bridgeVars(Runs(NodeRunning(n)))
                        /\ WF_bridgeVars(Runs(NodeLoginRequired(n)))
    /\ WF_bridgeVars(Beside(P!MainStep)) /\ WF_bridgeVars(Beside(P!Restart))
    /\ WF_bridgeVars(Beside(P!StartLeading))
    /\ WF_bridgeVars(Beside(P!ClearLeader \/ P!ClearReady))
    /\ WF_bridgeVars(Beside(\/ P!ElectorStarts \/ P!AcquireStops \/ P!RenewStops
                            \/ P!Release \/ P!CancelRun \/ P!ElectorReturns))
    /\ SF_bridgeVars(Beside(P!Acquire)) /\ WF_bridgeVars(Beside(P!LeaseExpires))

BridgeSpec == BridgeInit /\ [][BridgeNext]_bridgeVars /\ BridgeFairness

-----------------------------------------------------------------------------
(* Properties.                                                             *)

(* The process that really runs is one that BridgeProcess describes, so    *)
(* what is shown of that one, of its probes and of two of them on a Lease, *)
(* holds of it.                                                            *)
ImplementsProcess == P!SafeSpec

(* What the probes are told is true of the runner, not only of its last    *)
(* call of SetPublicReady: there is an HTTP server on a node that is up    *)
(* and whose host was checked, and it has not been shut down.              *)
ReadyStateIsTrue ==
    stateReady => /\ listener \in {"serving", "failed"}
                  /\ server \in up /\ server \in hostOK

(* Without leader election neither a signal, a failed health server nor a  *)
(* failed runner cuts a request short: until the process is killed, only   *)
(* the end of ShutdownTimeout or a listener that fails by itself does.     *)
NoRequestCut ==
    [][(inflight /\ up' # up /\ exitErr' # "killed") =>
           (drain = "timeout" \/ restart = "serve_failure")]_bridgeVars

(* Without it, a process that exits by itself has closed its node: main    *)
(* waits for the runner on every path, and Run closes on every path.       *)
ExitLeavesNoNode == [][(proc = "shutdown" /\ proc' = "exited") => up = {}]_bridgeVars

(* A signal ends the process, wherever the runner is: in a back-off, in    *)
(* the probing loop, while it drains or mints a key.                       *)
SignalEndsBridge == signalled ~> proc = "exited"
=============================================================================
