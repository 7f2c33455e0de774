--------------------------- MODULE BridgeProcess ---------------------------
(***************************************************************************)
(* One oidc-proxy process in its pod: cmd/oidc-proxy/main.go (run,         *)
(* setupProcess, runProcessWithHealthServer), ha.go                        *)
(* (runWithLeaderElection and its callbacks), state.go, and                *)
(* internal/leader/elector.go.                                             *)
(*                                                                         *)
(* Goroutines: main (proc), processRunner (returned), leader.Run with      *)
(* client-go's elector inside (elect), OnStartedLeading with tsrunner.Run  *)
(* inside (phase), the health server (health).  Nothing joins the last but *)
(* one: a process that exits takes it along, whatever it is doing.         *)
(*                                                                         *)
(* External are client-go's elector, whose order of calls is the library's *)
(* (the lease is released, then the leading context is cancelled, then     *)
(* OnStoppedLeading runs; OnStartedLeading is a goroutine of its own), the *)
(* Lease, and the pod's lifecycle.  The runner is used as PublicEndpoint   *)
(* promises it; JWKS readiness, a further conjunct of every probe's        *)
(* answer, is a choice of Probes and taken to hold here.                   *)
(***************************************************************************)
EXTENDS EndpointPhases

CONSTANTS
    Self,            \* LeaderElectionIdentity, the pod's name
    Others,          \* the other candidates of the Lease
    NoPod,           \* the empty HolderIdentity
    LeaderElection,  \* LEADER_ELECTION_ENABLED
    HealthFaults     \* may the health server fail, or time out in Shutdown?

ASSUME PodsAssumption == Self # NoPod /\ Self \notin Others /\ NoPod \notin Others
ASSUME ModeAssumption == LeaderElection \in BOOLEAN /\ HealthFaults \in BOOLEAN

VARIABLES
    lease,       \* HolderIdentity of the Lease
    proc,        \* where main is
    ctx,         \* run's context is done: a signal, or stop()
    signalled,   \* SIGTERM or SIGINT has arrived
    health,      \* the health server and the value in healthErrCh
    exitErr,     \* runErr of runProcessWithHealthServer
    returned,    \* the value in runErrCh
    deferred,    \* deferredErr, and from then on the value in errCh
    elect,       \* where leader.Run is
    phase,       \* OnStartedLeading, and tsrunner.Run inside it
    leader,      \* runtimeState.leader
    publicReady  \* runtimeState.publicReady

mainVars == <<proc, ctx, signalled, health, exitErr, returned>>
leadVars == <<deferred, elect, phase, leader, publicReady>>
podVars == <<mainVars, leadVars>>
vars == <<lease, podVars>>

Candidates == Others \cup {Self, NoPod}
Errors == {"setup", "health", "shutdown", "election", "lost", "runner", "killed"}

(* Every variable has its type. *)
TypeOK ==
    /\ lease \in Candidates
    /\ proc \in {"boot", "select", "waitRun", "shutdown", "exited"}
    /\ ctx \in BOOLEAN /\ signalled \in BOOLEAN
    /\ health \in {"off", "serving", "failed"}
    /\ exitErr \in Errors \cup {"nil"}
    /\ returned \in Errors \cup {"none", "nil"}
    /\ deferred \in {"none", "lost", "runner"}
    /\ elect \in {"off", "setup", "failed", "acquiring", "leading", "releasing",
                  "released", "cancelled", "clearing", "stopped", "returned"}
    /\ phase \in Phases \cup {"none", "spawned"}
    /\ leader \in BOOLEAN /\ publicReady \in BOOLEAN

PodInit ==
    /\ proc = "boot"
    /\ ctx = FALSE /\ signalled = FALSE
    /\ health = "off"
    /\ exitErr = "nil" /\ returned = "none" /\ deferred = "none"
    /\ elect = "off" /\ phase = "none"
    /\ leader = FALSE /\ publicReady = FALSE

Init == lease = NoPod /\ PodInit

-----------------------------------------------------------------------------
(* The process goes away with all its goroutines.  A restarted container   *)
(* has its pod's identity again.                                           *)
Dies(err) ==
    /\ proc' = "exited" /\ exitErr' = err
    /\ ctx' = FALSE /\ signalled' = FALSE /\ health' = "off"
    /\ returned' = "none" /\ deferred' = "none"
    /\ elect' = "off" /\ phase' = "none"
    /\ leader' = FALSE /\ publicReady' = FALSE
    /\ UNCHANGED lease

Kill == proc # "exited" /\ Dies("killed")

Restart ==
    /\ proc = "exited"
    /\ proc' = "boot" /\ exitErr' = "nil"
    /\ UNCHANGED <<lease, ctx, signalled, health, returned, leadVars>>

(* Any time after signal.NotifyContext. *)
Signal ==
    /\ proc # "exited" /\ ~signalled
    /\ signalled' = TRUE /\ ctx' = TRUE
    /\ UNCHANGED <<lease, proc, health, exitErr, returned, leadVars>>

-----------------------------------------------------------------------------
(* main.                                                                   *)

(* Fault variant: publicRunner is not wrapped in runWithLeaderElection. *)
BootUnwrapped ==
    /\ proc = "boot"
    /\ proc' = "select" /\ health' = "serving"
    /\ elect' = "off" /\ phase' = "down" /\ leader' = TRUE
    /\ UNCHANGED <<lease, ctx, signalled, exitErr, returned, deferred, publicReady>>

(* setupProcess and startHealthServer succeed, and processRunner starts:   *)
(* leader election, or the public runner as such.                          *)
Boot ==
    /\ proc = "boot"
    /\ proc' = "select" /\ health' = "serving"
    /\ IF LeaderElection
       THEN elect' = "setup" /\ UNCHANGED <<phase, leader>>
       ELSE phase' = "down" /\ leader' = TRUE /\ UNCHANGED elect
    /\ UNCHANGED <<lease, ctx, signalled, exitErr, returned, deferred, publicReady>>

(* Bad configuration, no first JWKS within the startup timeout, or no      *)
(* health listener.                                                        *)
BootFails == proc = "boot" /\ Dies("setup")

HealthFails ==
    /\ HealthFaults
    /\ health = "serving"
    /\ health' = "failed"
    /\ UNCHANGED <<lease, proc, ctx, signalled, exitErr, returned, leadVars>>

FirstErr(err, other) == IF err = "nil" THEN other ELSE err

(* Fault variant: main does not wait for runErrCh. *)
SelectRunEarly ==
    /\ proc = "select"
    /\ proc' = "shutdown" /\ exitErr' = returned /\ returned' = "none"
    /\ ctx' = TRUE
    /\ UNCHANGED <<lease, signalled, health, leadVars>>

(* The two cases of the select, each with its stop(). *)
SelectRun ==
    /\ proc = "select" /\ returned # "none"
    /\ proc' = "shutdown" /\ exitErr' = returned /\ returned' = "none"
    /\ ctx' = TRUE
    /\ UNCHANGED <<lease, signalled, health, leadVars>>

SelectHealth ==
    /\ proc = "select" /\ health = "failed"
    /\ proc' = "waitRun" /\ exitErr' = "health" /\ ctx' = TRUE
    /\ UNCHANGED <<lease, signalled, health, returned, leadVars>>

(* Fault variant: main does not wait for the runner it has stopped. *)
WaitRunSkipped ==
    /\ proc = "waitRun"
    /\ proc' = "shutdown"
    /\ UNCHANGED <<lease, ctx, signalled, health, exitErr, returned, leadVars>>

WaitRun ==
    /\ proc = "waitRun" /\ returned # "none"
    /\ proc' = "shutdown" /\ exitErr' = FirstErr(exitErr, returned)
    /\ returned' = "none"
    /\ UNCHANGED <<lease, ctx, signalled, health, leadVars>>

(* healthSrv.Shutdown, which may run into its timeout, then healthErrCh    *)
(* unless its value was consumed (and then exitErr is not nil).            *)
ShutdownHealth ==
    /\ proc = "shutdown"
    /\ \E shutdownErr \in {"nil"} \cup (IF HealthFaults THEN {"shutdown"} ELSE {}) :
           Dies(FirstErr(FirstErr(exitErr, shutdownErr),
                         IF health = "failed" THEN "health" ELSE "nil"))

-----------------------------------------------------------------------------
(* runWithLeaderElection.                                                  *)

(* runCtx: a child of ctx that the elector cancels. *)
RunCtxDone == ctx \/ elect \in {"cancelled", "clearing", "stopped", "returned"}

(* sendErr keeps the first error. *)
SendErr(err) == deferred' = IF deferred = "none" THEN err ELSE deferred

(* Fault variant: the case of electionErrCh does not look at deferredErr. *)
ElectionOutcomeIgnoresDeferred == "nil"

(* leader.Run has returned nil before ctx is done: why, deferredErr knows. *)
ElectionOutcome == IF ctx \/ deferred = "none" THEN "nil" ELSE deferred

(* Fault variant: runWithLeaderElection only waits for ctx. *)
RunnerOutcomesOnCtx ==
    IF LeaderElection
    THEN IF ctx THEN {"nil"} ELSE {}
    ELSE IF phase = "stopped" THEN {"nil"} ELSE IF phase = "failed" THEN {"runner"} ELSE {}

(* The cases of the select that are ready, or else the runner's return.    *)
RunnerOutcomes ==
    IF LeaderElection
    THEN UNION { IF ctx THEN {"nil"} ELSE {},
                 IF deferred # "none" THEN {deferred} ELSE {},
                 IF elect = "failed" THEN {"election"} ELSE {},
                 IF elect = "returned" THEN {ElectionOutcome} ELSE {} }
    ELSE UNION { IF phase = "stopped" THEN {"nil"} ELSE {},
                 IF phase = "failed" THEN {"runner"} ELSE {} }

RunnerReturns ==
    /\ proc \in {"select", "waitRun"} /\ returned = "none"
    /\ returned' \in RunnerOutcomes
    /\ UNCHANGED <<lease, proc, ctx, signalled, health, exitErr, leadVars>>

(* OnStartedLeading begins: SetLeader(true), perhaps long after the        *)
(* elector has spawned it.                                                 *)
StartLeading ==
    /\ phase = "spawned"
    /\ phase' = "down" /\ leader' = TRUE
    /\ UNCHANGED <<lease, mainVars, deferred, elect, publicReady>>

(* Fault variant: OnStartedLeading drops the runner's error. *)
RunnerMovesDropsErr(to) ==
    /\ MayMove(phase, to, RunCtxDone)
    /\ phase' = to
    /\ publicReady' = IF "open" \in {phase, to} THEN FALSE ELSE publicReady
    /\ UNCHANGED <<lease, mainVars, deferred, elect, leader>>

(* tsrunner.Run moves as PublicEndpoint has it.  serveOnce clears          *)
(* readiness when it begins and when it ends; an error of the runner is    *)
(* sent on unless runCtx is done.                                          *)
RunnerMoves(to) ==
    /\ MayMove(phase, to, RunCtxDone)
    /\ phase' = to
    /\ publicReady' = IF "open" \in {phase, to} THEN FALSE ELSE publicReady
    /\ IF to = "failed" /\ LeaderElection /\ ~RunCtxDone
       THEN SendErr("runner") ELSE UNCHANGED deferred
    /\ UNCHANGED <<lease, mainVars, elect, leader>>

Proceed == phase # "open" /\ \E to \in {"trying", "held", "open"} : RunnerMoves(to)
Close == phase = "open" /\ RunnerMoves("held")
Retreat == \E to \in {"down", "parked"} : RunnerMoves(to)
RunnerStops == RunnerMoves("stopped")
RunnerFails == RunnerMoves("failed")

Announce ==
    /\ phase = "open" /\ ~publicReady
    /\ publicReady' = TRUE
    /\ UNCHANGED <<lease, mainVars, deferred, elect, phase, leader>>

Withdraw ==
    /\ phase = "open" /\ publicReady
    /\ publicReady' = FALSE
    /\ UNCHANGED <<lease, mainVars, deferred, elect, phase, leader>>

(* Fault variant: SetLeader(false) is forgotten. *)
ClearLeaderSkipped ==
    /\ elect = "cancelled"
    /\ elect' = "clearing"
    /\ UNCHANGED <<lease, mainVars, deferred, phase, leader, publicReady>>

(* OnStoppedLeading, in two steps, runs after every acquisition attempt,   *)
(* the ones that failed included.  state.ShuttingDown() is only ever true  *)
(* when ctx is done, and adds nothing to the test of ctx.                  *)
ClearLeader ==
    /\ elect = "cancelled"
    /\ elect' = "clearing" /\ leader' = FALSE
    /\ UNCHANGED <<lease, mainVars, deferred, phase, publicReady>>

ClearReady ==
    /\ elect = "clearing"
    /\ elect' = "stopped" /\ publicReady' = FALSE
    /\ IF ctx THEN UNCHANGED deferred ELSE SendErr("lost")
    /\ UNCHANGED <<lease, mainVars, phase, leader>>

-----------------------------------------------------------------------------
(* leader.Run and, inside it, client-go's elector (external).              *)

Elector(from, to) ==
    /\ elect = from /\ elect' = to
    /\ UNCHANGED <<mainVars, deferred, leader, publicReady>>

(* defaults, validate, the in-cluster client and the lock; or an error. *)
ElectorStarts == Elector("setup", "acquiring") /\ UNCHANGED <<lease, phase>>
ElectorFails == Elector("setup", "failed") /\ UNCHANGED <<lease, phase>>

(* The Lease is free, or still in the name of this pod. *)
Acquire ==
    /\ Elector("acquiring", "leading")
    /\ lease \in {NoPod, Self} /\ lease' = Self
    /\ phase' = "spawned"

(* The update is applied but its answer is lost. *)
AcquireUnseen ==
    /\ Elector("acquiring", "acquiring")
    /\ lease = NoPod /\ lease' = Self
    /\ UNCHANGED phase

AcquireStops == ctx /\ Elector("acquiring", "cancelled") /\ UNCHANGED <<lease, phase>>

(* The renewal loop ends with ctx, or when no renewal has succeeded for    *)
(* RenewDeadline.                                                          *)
RenewStops == ctx /\ Elector("leading", "releasing") /\ UNCHANGED <<lease, phase>>
RenewFails == ~ctx /\ Elector("leading", "releasing") /\ UNCHANGED <<lease, phase>>

(* Fault variant: the Lease is cleared whoever holds it. *)
ReleaseBlindly ==
    /\ Elector("releasing", "released")
    /\ lease' \in {lease, NoPod}
    /\ UNCHANGED phase

(* ReleaseOnCancel: the update may fail. *)
Release ==
    /\ Elector("releasing", "released")
    /\ lease' \in {lease, IF lease = Self THEN NoPod ELSE lease}
    /\ UNCHANGED phase

CancelRun == Elector("released", "cancelled") /\ UNCHANGED <<lease, phase>>
ElectorReturns == Elector("stopped", "returned") /\ UNCHANGED <<lease, phase>>

(* Others see the Lease expire: LeaseDuration > RenewDeadline (validate),  *)
(* so not while this pod is renewing it.                                   *)
LeaseExpires ==
    /\ lease = Self /\ elect # "leading"
    /\ lease' = NoPod
    /\ UNCHANGED podVars

(* What the other candidates do to the Lease. *)
OthersStep ==
    /\ lease # Self
    /\ lease' \in Others \cup {NoPod}
    /\ UNCHANGED podVars

-----------------------------------------------------------------------------
MainStep == Boot \/ SelectRun \/ SelectHealth \/ WaitRun \/ ShutdownHealth \/ RunnerReturns

LeadStep ==
    \/ StartLeading \/ Proceed \/ Close \/ Retreat \/ RunnerStops \/ RunnerFails
    \/ Announce \/ Withdraw \/ ClearLeader \/ ClearReady

ElectorStep ==
    \/ ElectorStarts \/ ElectorFails \/ Acquire \/ AcquireUnseen \/ AcquireStops
    \/ RenewStops \/ RenewFails \/ Release \/ CancelRun \/ ElectorReturns
    \/ LeaseExpires

PodStep == Kill \/ Restart \/ Signal \/ BootFails \/ HealthFails

SelfStep == PodStep \/ MainStep \/ ElectorStep \/ LeadStep

Next == OthersStep \/ SelfStep

SafeSpec == Init /\ [][Next]_vars

(* Steps in which something fails, or the pod is told to go.               *)
Fault ==
    \/ Kill \/ Signal \/ BootFails \/ HealthFails \/ ElectorFails \/ RenewFails
    \/ RunnerFails \/ (~RunCtxDone /\ (Close \/ Retreat \/ Withdraw))

(* Goroutines run, timers fire, calls return, kubelet restarts containers, *)
(* a Lease that nobody renews expires.  Of the runner, what                *)
(* PublicEndpoint!Progress promises: it does not rest in "down", "trying"  *)
(* or "parked", nor in "open" without announcing it, but it may rest in    *)
(* "held".  Cancelled, it stops: it closes the endpoint in the end, ends   *)
(* the attempt, and does not for ever open the endpoint again.             *)
Fairness ==
    /\ WF_vars(MainStep) /\ WF_vars(Restart)
    /\ WF_vars(StartLeading) /\ WF_vars(phase # "held" /\ Proceed)
    /\ WF_vars(Announce)
    /\ WF_vars(RunCtxDone /\ Close) /\ SF_vars(RunCtxDone /\ Retreat)
    /\ SF_vars(RunnerStops)
    /\ WF_vars(ClearLeader \/ ClearReady)
    /\ WF_vars(ElectorStarts \/ AcquireStops \/ RenewStops \/ Release
                 \/ CancelRun \/ ElectorReturns)
    /\ SF_vars(Acquire) /\ WF_vars(LeaseExpires)

Spec == SafeSpec /\ Fairness

-----------------------------------------------------------------------------
(* What the probes read.                                                   *)
LeaderReady == publicReady /\ (LeaderElection => leader)

(* The runner holds a node, does not serve on it and is not told to stop.  *)
StuckInAttempt == phase = "held" /\ ~RunCtxDone

HasNode == phase \in {"held", "open", "parked"}

-----------------------------------------------------------------------------
(* Properties.                                                             *)

(* A pod that answers /leaderz has the endpoint open, and its elector has  *)
(* not run OnStoppedLeading: neither a runner that announces itself late   *)
(* nor an OnStartedLeading scheduled after OnStoppedLeading brings the     *)
(* answer back.                                                            *)
LeaderzTruthful ==
    LeaderReady => /\ phase = "open"
                   /\ elect \notin {"clearing", "stopped", "returned"}

(* The process reports success only if it was told to stop: a lost lease,  *)
(* an elector that gave up, a failed runner or health server is an error   *)
(* exit, whichever select case is taken first.                             *)
NilExitMeansSignal ==
    [][(proc # "exited" /\ proc' = "exited" /\ exitErr' = "nil") => signalled]_vars

(* Without leader election a process that exits by itself has closed its   *)
(* node: processRunner is the runner, and main waits for it on every path. *)
GracefulExit ==
    [][(proc = "shutdown" /\ proc' = "exited") => ~HasNode]_vars

(* Leadership is never regained inside a process, so a process whose       *)
(* elector has returned ends, and is restarted as a candidate.             *)
LossEndsProcess == elect = "returned" ~> proc = "exited"

(* Once faults stop and the other candidates leave the Lease alone, this   *)
(* pod answers /leaderz again and again: whatever state the failures left  *)
(* it in, it neither waits for the Lease for ever nor keeps it without     *)
(* serving.  The one exception is a leader whose runner stays in an        *)
(* attempt that has a node (FunnelRunner!RegistrationStuck): nothing times *)
(* that attempt out, and the elector goes on renewing the Lease.           *)
SurvivorServes ==
    (<>[][~Fault]_vars /\ <>[](lease \notin Others) /\ ~<>[]StuckInAttempt)
        => []<>LeaderReady
=============================================================================
