------------------------- MODULE BridgeRunnerProofs -------------------------
(***************************************************************************)
(* The process with its real runner inside is a BridgeProcess.             *)
(*                                                                         *)
(* Two things tie them: runCtx is what Run takes for its context, and what *)
(* the probes read is never more than what Run has said last.  The steps   *)
(* of Run then map to BridgeProcess by way of PublicEndpoint: of the       *)
(* runner nothing is used but its invariant and EndpointStep.              *)
(***************************************************************************)
EXTENDS BridgeRunner, FunnelRunnerProofs

PP == INSTANCE BridgeProcessProofs WITH phase <- Phase, publicReady <- stateReady

RunnerActs == RunnerStep \/ SideStep \/ NodeStep

(* No step of the runner cancels it. *)
LEMMA ActsKeepContext == RunnerActs => UNCHANGED cancelled
<1>1. RunnerStep => UNCHANGED cancelled
  BY DEF RunnerStep, LoopExit, EnsureServer, StartOk, StartFail,
     ProbeAfterStartErr, Poll, PollError, PollTick, PollCancelled, PollTimeout,
     PollGivesUp, ProbedCancelled, DecideReauth, DecideRetry, DecideServe,
     MintOk, MintFail, Wake, VerifyOk, VerifyErr, ServeStepFails,
     VerifyMismatch, BeginServe, ListenOk, ListenFail, Announce,
     SelectCancelled, SelectFlipped, SelectServeErr, Shutdown, ShutdownEnds,
     AwaitServe, CloseServer, Exit, Goto, Step
<1>2. SideStep \/ NodeStep => UNCHANGED cancelled
  BY DEF SideStep, ServeFails, Request, WatchSees, WatchCancelled, NodeStep,
     NodeRunning, NodeLoginRequired, NodeStopped, NodeResumed, KeyRejected,
     NodeMoves, IdentityRevoked
<1> QED
  BY <1>1, <1>2 DEF RunnerActs

(* While serveOnce stays in its select, nobody calls SetPublicReady. *)
LEMMA SelectKeepsReady ==
    ASSUME RunnerActs, pc = "select", pc' = pc PROVE UNCHANGED publicReady
<1>1. ~RunnerStep
  BY DEF RunnerStep, LoopExit, EnsureServer, StartOk, StartFail,
     ProbeAfterStartErr, Poll, PollError, PollTick, PollCancelled, PollTimeout,
     PollGivesUp, ProbedCancelled, DecideReauth, DecideRetry, DecideServe,
     MintOk, MintFail, Wake, VerifyOk, VerifyErr, ServeStepFails,
     VerifyMismatch, BeginServe, ListenOk, ListenFail, Announce,
     SelectCancelled, SelectFlipped, SelectServeErr, Shutdown, ShutdownEnds,
     AwaitServe, CloseServer, Exit, Goto, Step
<1>2. SideStep \/ NodeStep => UNCHANGED publicReady
  BY DEF SideStep, ServeFails, Request, WatchSees, WatchCancelled, NodeStep,
     NodeRunning, NodeLoginRequired, NodeStopped, NodeResumed, KeyRejected,
     NodeMoves, IdentityRevoked, serveVars
<1> QED
  BY <1>1, <1>2 DEF RunnerActs

-----------------------------------------------------------------------------
(* The invariant.                                                          *)

(* Run's context is runCtx. *)
SameContext == cancelled = P!RunCtxDone

(* The state is ready only if the runner says so. *)
ReadyBySay == stateReady => publicReady

(* A runner that was not called has nothing. *)
AtRest ==
    /\ call \in {"none", "spawned", "called"}
    /\ call # "called" => pc = "top" /\ up = {}

BInv == IInv /\ SameContext /\ ReadyBySay /\ AtRest

(* A call has a phase of its own. *)
LEMMA PhaseOfCall ==
    /\ EndpointPhase \notin {"none", "spawned"}
    /\ AtRest => (call = "called" <=> Phase \notin {"none", "spawned"})
<1>1. EndpointPhase \notin {"none", "spawned"}
  BY DEF EndpointPhase
<1> QED
  BY <1>1 DEF AtRest, Phase

LEMMA RunsStep ==
    ASSUME BInv, Runs(RunnerActs) PROVE BInv'
<1>1. Next
  BY DEF Runs, RunnerActs, Next
<1>2. IInv'
  BY <1>1, InvariantStep DEF BInv
<1>3. SameContext'
  BY ActsKeepContext DEF Runs, BInv, SameContext, P!RunCtxDone, mainVars
<1>4. ReadyBySay'
  <2> SUFFICES ASSUME stateReady' PROVE publicReady'
    BY DEF ReadyBySay
  <2>1. CASE CallsSetPublicReady
    BY <2>1 DEF Runs, StateReady
  <2>2. CASE ~CallsSetPublicReady
    <3>1. stateReady /\ publicReady
      BY <2>2 DEF Runs, StateReady, BInv, ReadyBySay
    <3>2. pc = "select"
      BY <3>1 DEF BInv, IInv, ServerAlive
    <3> QED
      BY <2>2, <3>1, <3>2, SelectKeepsReady DEF CallsSetPublicReady, Runs
  <2> QED
    BY <2>1, <2>2
<1>5. AtRest'
  BY DEF Runs, BInv, AtRest
<1> QED
  BY <1>2, <1>3, <1>4, <1>5 DEF BInv

(* A new call is a good one, as for RunnerInvariant. *)
LEMMA FreshIsGood ==
    ASSUME RunnerFresh, IInv, UNCHANGED identity, cancelled' \in BOOLEAN PROVE IInv'
<1>1. LoopTypeOK'
  BY StateNames, BackoffZero DEF RunnerFresh, LoopTypeOK, PCs
<1>2. NodeTypeOK'
  BY StateNames DEF RunnerFresh, NodeTypeOK, IInv, TypeOK
<1>3. ServeTypeOK'
  BY DEF RunnerFresh, ServeTypeOK
<1>4. HeldServer' /\ NodeAnswers'
  BY DEF RunnerFresh, HeldServer, NodeAnswers, Serving
<1>5. CheckedServer' /\ ServerAlive' /\ RequestAlive' /\ ExitCancelled'
  BY DEF RunnerFresh, CheckedServer, ServerAlive, RequestAlive, ExitCancelled, Serving
<1> QED
  BY <1>1, <1>2, <1>3, <1>4, <1>5 DEF IInv, TypeOK

-----------------------------------------------------------------------------
(* BridgeProcess, and what is proved of it.                                *)

(* The two instances of BridgeProcess are the same. *)
LEMMA SameNext == [P!Next]_(P!vars) => [PP!Next]_(PP!vars)
<1>1. P!SelfStep => PP!SelfStep
  BY DEF P!SelfStep, PP!SelfStep,
     P!MainStep, P!LeadStep, P!ElectorStep, P!PodStep, P!Boot, P!SelectRun,
     P!SelectHealth, P!WaitRun, P!ShutdownHealth, P!RunnerReturns,
     P!StartLeading, P!Proceed, P!Close, P!Retreat, P!RunnerStops,
     P!RunnerFails, P!RunnerMoves, P!Announce, P!Withdraw, P!ClearLeader,
     P!ClearReady, P!ElectorStarts, P!ElectorFails, P!Acquire,
     P!AcquireUnseen, P!AcquireStops, P!RenewStops, P!RenewFails, P!Release,
     P!CancelRun, P!ElectorReturns, P!LeaseExpires, P!Elector, P!Kill,
     P!Restart, P!Signal, P!BootFails, P!HealthFails, P!Dies, P!SendErr,
     P!FirstErr, P!RunCtxDone, P!RunnerOutcomes, P!ElectionOutcome,
     P!MayMove, P!mainVars, P!leadVars, P!podVars, PP!MainStep, PP!LeadStep,
     PP!ElectorStep, PP!PodStep, PP!Boot, PP!SelectRun, PP!SelectHealth,
     PP!WaitRun, PP!ShutdownHealth, PP!RunnerReturns, PP!StartLeading,
     PP!Proceed, PP!Close, PP!Retreat, PP!RunnerStops, PP!RunnerFails,
     PP!RunnerMoves, PP!Announce, PP!Withdraw, PP!ClearLeader,
     PP!ClearReady, PP!ElectorStarts, PP!ElectorFails, PP!Acquire,
     PP!AcquireUnseen, PP!AcquireStops, PP!RenewStops, PP!RenewFails,
     PP!Release, PP!CancelRun, PP!ElectorReturns, PP!LeaseExpires,
     PP!Elector, PP!Kill, PP!Restart, PP!Signal, PP!BootFails,
     PP!HealthFails, PP!Dies, PP!SendErr, PP!FirstErr, PP!RunCtxDone,
     PP!RunnerOutcomes, PP!ElectionOutcome, PP!MayMove, PP!mainVars,
     PP!leadVars, PP!podVars
<1> QED
  BY <1>1 DEF P!Next, P!OthersStep, P!vars, P!podVars, P!mainVars, P!leadVars,
     PP!Next, PP!OthersStep, PP!vars, PP!podVars, PP!mainVars, PP!leadVars

(* The invariant of BridgeProcess is kept, *)
LEMMA ProcessInvStep ==
    ASSUME PP!IInv, [P!Next]_(P!vars) PROVE PP!IInv'
<1>1. [PP!Next]_(PP!vars)
  BY SameNext
<1>2. PP!TypeOK'
  BY <1>1, PP!TypeStep, BridgeAssumption DEF PP!PodsAssumption, PP!ModeAssumption
<1>3. PP!Fresh' /\ PP!RunnerPlace' /\ PP!Mode' /\ PP!Reasons' /\ PP!LeaseKept'
  BY <1>1, PP!RestStep, BridgeAssumption DEF PP!PodsAssumption, PP!ModeAssumption
<1> QED
  BY <1>2, <1>3 DEF PP!IInv

(* and holds at first. *)
LEMMA ProcessInvInit == P!Init => PP!IInv
  BY BridgeAssumption DEF P!Init, P!PodInit, PP!IInv, PP!TypeOK, PP!Candidates,
     PP!Errors, PP!Fresh, PP!RunnerPlace, PP!Mode, PP!Reasons, PP!LeaseKept,
     PP!RunCtxDone, PP!Deposed

(* What the goroutines of the process do to a runner that they leave: they *)
(* do not take back a cancellation, nor say ready, nor begin another call. *)
LEMMA ProcessTouches ==
    ASSUME PP!IInv, ProcessStep
    PROVE  /\ (Phase # "none" /\ Phase' # "none" /\ P!RunCtxDone) => P!RunCtxDone'
           /\ stateReady' => stateReady
           /\ Phase' = "spawned" => Phase \in {"none", "spawned"}
  BY DEF PP!IInv, PP!Fresh, PP!RunnerPlace, ProcessStep, P!RunCtxDone,
     P!MainStep, P!ElectorStep, P!PodStep, P!Boot, P!SelectRun, P!SelectHealth,
     P!WaitRun, P!ShutdownHealth, P!RunnerReturns, P!StartLeading,
     P!ClearLeader, P!ClearReady, P!ElectorStarts, P!ElectorFails,
     P!Acquire, P!AcquireUnseen, P!AcquireStops, P!RenewStops, P!RenewFails,
     P!Release, P!CancelRun, P!ElectorReturns, P!LeaseExpires, P!Elector,
     P!Kill, P!Restart, P!Signal, P!BootFails, P!HealthFails, P!Dies,
     P!OthersStep, P!mainVars, P!leadVars, P!podVars

(* Only a death makes a runner go away. *)
LEMMA OnlyDeathEnds ==
    ASSUME ProcessStep, Phase # "none", Phase' = "none"
    PROVE  P!Kill \/ P!BootFails \/ P!ShutdownHealth
  BY DEF ProcessStep,
     P!MainStep, P!ElectorStep, P!PodStep, P!Boot, P!SelectRun, P!SelectHealth,
     P!WaitRun, P!RunnerReturns, P!StartLeading, P!ClearLeader,
     P!ClearReady, P!ElectorStarts, P!ElectorFails, P!Acquire,
     P!AcquireUnseen, P!AcquireStops, P!RenewStops, P!RenewFails, P!Release,
     P!CancelRun, P!ElectorReturns, P!LeaseExpires, P!Elector, P!Restart,
     P!Signal, P!HealthFails, P!OthersStep, P!mainVars, P!leadVars,
     P!podVars

-----------------------------------------------------------------------------
(* The composition keeps its invariant.                                    *)

LEMMA BesideIsProcess == Beside(ProcessStep) => P!Next
<1>1. ProcessStep => P!Next
  BY DEF ProcessStep, P!Next, P!SelfStep, P!LeadStep
<1> QED
  BY <1>1 DEF Beside

LEMMA BesideStep ==
    ASSUME BInv, PP!IInv, PP!IInv', Beside(ProcessStep) PROVE BInv'
<1>1. PICK c \in {"none", "spawned", "called"} :
        /\ call' = c
        /\ IF c = "none" THEN RunnerFresh
                         ELSE UNCHANGED <<pc, loopVars, up, keyed, spent, hostOK,
                                          backend, serveVars>>
        /\ UNCHANGED identity
        /\ ProcessStep
        /\ cancelled' = P!RunCtxDone'
  BY DEF Beside
<1>2. SameContext' /\ cancelled' \in BOOLEAN
  BY <1>1 DEF SameContext, P!RunCtxDone
<1>3. CASE c = "none"
  <2>1. IInv'
    BY <1>1, <1>2, <1>3, FreshIsGood DEF BInv
  <2>2. Phase' = "none"
    BY <1>1, <1>3 DEF Phase
  <2>3. ReadyBySay' /\ AtRest'
    BY <1>1, <1>3, <2>2 DEF ReadyBySay, AtRest, RunnerFresh, PP!IInv, PP!RunnerPlace
  <2> QED
    BY <1>2, <2>1, <2>3 DEF BInv
<1>4. CASE c # "none"
  <2>1. UNCHANGED <<pc, loopVars, nodeVars, serveVars>>
    BY <1>1, <1>4 DEF nodeVars
  <2>2. c = "spawned" => call # "called"
    BY <1>1, ProcessTouches, PhaseOfCall DEF BInv, Phase
  <2>3. AtRest'
    BY <1>1, <1>4, <2>1, <2>2 DEF BInv, AtRest, nodeVars
  <2>4. ExitCancelled'
    <3> SUFFICES ASSUME pc = "exit" PROVE cancelled'
      BY <2>1 DEF ExitCancelled
    <3>1. cancelled /\ call = "called"
      BY DEF BInv, IInv, ExitCancelled, AtRest
    <3>2. Phase # "none" /\ Phase' # "none"
      BY <1>1, <1>4, <2>2, <3>1 DEF Phase, EndpointPhase
    <3> QED
      BY <1>1, <3>1, <3>2, ProcessTouches DEF BInv, SameContext
  <2>5. LoopTypeOK' /\ NodeTypeOK' /\ ServeTypeOK'
    BY <1>2, <2>1 DEF BInv, IInv, TypeOK, LoopTypeOK, NodeTypeOK, ServeTypeOK,
       loopVars, nodeVars, serveVars
  <2>6. HeldServer' /\ NodeAnswers' /\ CheckedServer' /\ ServerAlive' /\ RequestAlive'
    BY <2>1 DEF BInv, IInv, HeldServer, NodeAnswers, CheckedServer, ServerAlive,
       RequestAlive, loopVars, nodeVars, serveVars
  <2>7. ReadyBySay'
    BY <1>1, <2>1, ProcessTouches DEF BInv, ReadyBySay, serveVars
  <2> QED
    BY <1>2, <2>3, <2>4, <2>5, <2>6, <2>7 DEF BInv, IInv, TypeOK
<1> QED
  BY <1>1, <1>3, <1>4

LEMMA ForgottenStep ==
    ASSUME BInv, NodeForgotten \/ UNCHANGED bridgeVars PROVE BInv' /\ UNCHANGED P!vars
<1>1. [Next]_vars
  BY DEF NodeForgotten, Next, NodeStep, bridgeVars
<1>2. IInv'
  BY <1>1, InvariantStep DEF BInv
<1>3. /\ UNCHANGED <<call, stateReady, ctx, elect, lease, mainVars, deferred, leader>>
      /\ UNCHANGED <<pc, cancelled, up, publicReady, result, listener>>
  BY DEF NodeForgotten, IdentityRevoked, bridgeVars, mainVars, vars, loopVars,
     nodeVars, serveVars
<1>4. SameContext' /\ ReadyBySay' /\ AtRest'
  BY <1>3 DEF BInv, SameContext, ReadyBySay, AtRest, P!RunCtxDone
<1>5. UNCHANGED P!vars
  BY <1>3 DEF P!vars, P!podVars, P!mainVars, P!leadVars, mainVars, Phase,
     EndpointPhase, InAttempt
<1> QED
  BY <1>2, <1>4, <1>5 DEF BInv

(* A step of Run is one that BridgeProcess expects of its runner. *)
LEMMA RunsRefines ==
    ASSUME BInv, BInv', PP!IInv, Runs(RunnerActs) PROVE [P!Next]_(P!vars)
<1>1. /\ Phase = EndpointPhase /\ Phase' = EndpointPhase'
      /\ UNCHANGED <<cancelled, lease, mainVars, elect, leader>>
      /\ cancelled = P!RunCtxDone
      /\ IF ReturnsErr THEN P!SendErr("runner") ELSE UNCHANGED deferred
  BY ActsKeepContext DEF Runs, Phase, BInv, SameContext
<1>2. stateReady \in BOOLEAN /\ stateReady' \in BOOLEAN
  BY DEF PP!IInv, PP!TypeOK, Runs, StateReady, BInv, IInv, TypeOK, ServeTypeOK
<1>3. stateReady => Phase = "open" /\ publicReady
  BY <1>1 DEF BInv, ReadyBySay, IInv, ServerAlive, EndpointPhase
<1>4. stateReady' => Phase' = "open" /\ publicReady'
  BY <1>1 DEF BInv, ReadyBySay, IInv, ServerAlive, EndpointPhase
<1>5. [Endpoint!Next]_(Endpoint!vars)
  BY EndpointStep DEF BInv, Runs, RunnerActs, Next
<1>6. CASE Phase' = Phase
  <2>1. UNCHANGED deferred
    BY <1>1, <1>6 DEF ReturnsErr
  <2>2. CASE stateReady' = stateReady
    BY <1>1, <1>6, <2>1, <2>2 DEF P!vars, P!podVars, P!mainVars, P!leadVars, mainVars
  <2>3. CASE stateReady' /\ ~stateReady
    <3>1. P!Announce
      BY <1>1, <1>2, <1>4, <1>6, <2>1, <2>3 DEF P!Announce, P!mainVars, mainVars
    <3> QED
      BY <3>1 DEF P!Next, P!SelfStep, P!LeadStep
  <2>4. CASE ~stateReady' /\ stateReady
    <3>1. P!Withdraw
      BY <1>1, <1>2, <1>3, <1>6, <2>1, <2>4 DEF P!Withdraw, P!mainVars, mainVars
    <3> QED
      BY <3>1 DEF P!Next, P!SelfStep, P!LeadStep
  <2> QED
    BY <1>2, <2>2, <2>3, <2>4
<1>7. CASE Phase' # Phase
  <2>1. Endpoint!Move
    BY <1>1, <1>5, <1>7 DEF Endpoint!Next, Endpoint!vars, Endpoint!Cancel,
       Endpoint!Trust, Endpoint!Announce, Endpoint!Withdraw
  <2>2. P!MayMove(Phase, Phase', P!RunCtxDone)
    BY <1>1, <2>1 DEF Endpoint!Move, Endpoint!MayMove, P!MayMove
  <2>3. ~stateReady'
    BY <1>1, <1>3, <1>4, <2>1 DEF Endpoint!Move, BInv, IInv, ServerAlive, EndpointPhase
  <2>4. stateReady' = IF "open" \in {Phase, Phase'} THEN FALSE ELSE stateReady
    BY <1>2, <1>3, <2>3
  <2>5. P!RunnerMoves(Phase')
    BY <1>1, <1>7, <2>2, <2>4 DEF P!RunnerMoves, ReturnsErr, P!mainVars, mainVars
  <2>6. \/ Phase # "open" /\ Phase' \in {"trying", "held", "open"}
        \/ Phase = "open" /\ Phase' = "held"
        \/ Phase' \in {"down", "parked", "stopped", "failed"}
    BY <2>2 DEF P!MayMove
  <2>7. P!LeadStep
    BY <2>5, <2>6 DEF P!LeadStep, P!Proceed, P!Close, P!Retreat, P!RunnerStops,
       P!RunnerFails
  <2> QED
    BY <2>7 DEF P!Next, P!SelfStep
<1> QED
  BY <1>6, <1>7

-----------------------------------------------------------------------------
(* The theorems.                                                           *)

LEMMA BridgeStep ==
    BInv /\ PP!IInv /\ [BridgeNext]_bridgeVars
        => BInv' /\ PP!IInv' /\ [P!Next]_(P!vars)
<1> SUFFICES ASSUME BInv, PP!IInv, [BridgeNext]_bridgeVars
             PROVE  BInv' /\ PP!IInv' /\ [P!Next]_(P!vars)
  OBVIOUS
<1>1. CASE Runs(RunnerActs)
  BY <1>1, RunsStep, RunsRefines, ProcessInvStep
<1>2. CASE NodeForgotten \/ UNCHANGED bridgeVars
  BY <1>2, ForgottenStep, ProcessInvStep
<1>3. CASE Beside(ProcessStep)
  BY <1>3, BesideIsProcess, ProcessInvStep, BesideStep
<1>4. Runs(RunnerStep \/ SideStep \/ NodeStep) => Runs(RunnerActs)
  BY DEF RunnerActs
<1> QED
  BY <1>1, <1>2, <1>3, <1>4 DEF BridgeNext

(* The two invariants and the tie between them hold in every reachable     *)
(* state: whatever the runner and the process do to each other, Run's      *)
(* context is runCtx, and nobody but Run has made the state ready.         *)
THEOREM BridgeInvariant == BridgeSpec => [](BInv /\ PP!IInv)
<1>1. BridgeInit => BInv
  BY StateNames, BackoffZero
  DEF BridgeInit, Init, P!Init, P!PodInit, BInv, SameContext, P!RunCtxDone,
     ReadyBySay, AtRest, IInv, TypeOK, LoopTypeOK, PCs, NodeTypeOK, ServeTypeOK,
     HeldServer, NodeAnswers, CheckedServer, ServerAlive, RequestAlive,
     ExitCancelled, Serving
<1>2. BridgeInit => PP!IInv
  BY ProcessInvInit DEF BridgeInit
<1> QED
  BY <1>1, <1>2, BridgeStep, PTL DEF BridgeSpec

(* The process with tsrunner.Run inside, with or without leader election,  *)
(* behaves as BridgeProcess says: what that module assumes of its runner   *)
(* is what the runner does.                                                *)
THEOREM BridgeImplementsProcess == BridgeSpec => ImplementsProcess
<1>1. BridgeInit => P!Init
  BY DEF BridgeInit
<1> QED
  BY <1>1, BridgeStep, BridgeInvariant, PTL
  DEF BridgeSpec, ImplementsProcess, P!SafeSpec

(* A probe is never told ready of an endpoint that is not served by a      *)
(* checked node, whoever wrote runtimeState last.                          *)
THEOREM ReadyStateStaysTrue == BridgeSpec => []ReadyStateIsTrue
<1>1. BInv => ReadyStateIsTrue
  BY DEF BInv, ReadyBySay, IInv, HeldServer, CheckedServer, ServerAlive, Serving,
     ReadyStateIsTrue
<1> QED
  BY <1>1, BridgeInvariant, PTL

(* The pod that answers /leaderz has its endpoint open and has not been    *)
(* deposed, with the runner as it really is.                               *)
THEOREM BridgeLeaderzIsTruthful == BridgeSpec => []P!LeaderzTruthful
<1>1. PP!IInv => P!LeaderzTruthful
  BY BridgeAssumption DEF PP!IInv, PP!TypeOK, PP!RunnerPlace, PP!Mode, PP!Deposed,
     P!LeaderzTruthful, P!LeaderReady
<1> QED
  BY <1>1, BridgeInvariant, PTL

(* The process with its real runner reports success only after a signal. *)
THEOREM BridgeSuccessMeansSignal == BridgeSpec => P!NilExitMeansSignal
<1> DEFINE Told == (proc # "exited" /\ proc' = "exited" /\ exitErr' = "nil") => signalled
<1>1. P!Init => PP!Init
  BY DEF P!Init, P!PodInit, PP!Init, PP!PodInit
<1>2. PP!SafeSpec => PP!NilExitMeansSignal
  BY PP!SuccessMeansSignal, BridgeAssumption DEF PP!PodsAssumption, PP!ModeAssumption
<1>3. [Told]_(PP!vars) => [Told]_(P!vars)
  BY DEF PP!vars, PP!podVars, PP!mainVars, PP!leadVars, P!vars, P!podVars,
     P!mainVars, P!leadVars
<1> QED
  BY <1>1, <1>2, <1>3, SameNext, BridgeImplementsProcess, PTL
  DEF ImplementsProcess, P!SafeSpec, PP!SafeSpec, P!NilExitMeansSignal,
      PP!NilExitMeansSignal

(* A call that has returned has closed its node. *)
LEMMA ReturnedHasNoNode ==
    ASSUME BInv, Phase \in {"none", "spawned", "stopped", "failed"} PROVE up = {}
  BY NodesAssumption DEF BInv, IInv, TypeOK, NodeTypeOK, HeldServer, AtRest, Phase,
     EndpointPhase

(* Without leader election no request is cut short but by the end of       *)
(* ShutdownTimeout, a listener that failed, or a kill.                     *)
THEOREM SingleCutsNoRequest ==
    ASSUME ~LeaderElection PROVE BridgeSpec => NoRequestCut
<1> DEFINE Cut == (inflight /\ up' # up /\ exitErr' # "killed")
                     => (drain = "timeout" \/ restart = "serve_failure")
<1>1. BInv /\ PP!IInv /\ [BridgeNext]_bridgeVars => [Cut]_bridgeVars
  <2> SUFFICES ASSUME BInv, PP!IInv, BridgeNext, inflight, up' # up,
                      exitErr' # "killed"
               PROVE  drain = "timeout" \/ restart = "serve_failure"
    OBVIOUS
  <2>1. CASE Runs(RunnerActs)
    BY <2>1, DrainedStep DEF Runs, RunnerActs, Next, BInv
  <2>2. CASE NodeForgotten
    BY <2>2 DEF NodeForgotten, IdentityRevoked
  <2>3. CASE Beside(ProcessStep)
    <3>1. up' = {} /\ Phase' = "none" /\ ProcessStep
      BY <2>3 DEF Beside, RunnerFresh, Phase
    <3>2. Phase \notin {"none", "spawned", "stopped", "failed"}
      BY <3>1, ReturnedHasNoNode
    <3>3. P!BootFails \/ P!ShutdownHealth
      BY <3>1, <3>2, OnlyDeathEnds DEF P!Kill, P!Dies
    <3> QED
      BY <3>2, <3>3 DEF P!BootFails, P!ShutdownHealth, PP!IInv, PP!Fresh, PP!Mode
  <2> QED
    BY <2>1, <2>2, <2>3 DEF BridgeNext, RunnerActs
<1> QED
  BY <1>1, BridgeInvariant, PTL DEF BridgeSpec, NoRequestCut

(* Without it, no process that exits by itself leaves a tsnet node up. *)
THEOREM SingleExitClosesNode ==
    ASSUME ~LeaderElection PROVE BridgeSpec => ExitLeavesNoNode
<1> DEFINE Closed == (proc = "shutdown" /\ proc' = "exited") => up = {}
<1>1. BInv /\ PP!IInv => [Closed]_bridgeVars
  <2> SUFFICES ASSUME BInv, PP!IInv, proc = "shutdown" PROVE up = {}
    OBVIOUS
  <2>1. Phase \in {"stopped", "failed"}
    BY DEF PP!IInv, PP!Mode
  <2> QED
    BY <2>1, ReturnedHasNoNode
<1> QED
  BY <1>1, BridgeInvariant, PTL DEF BridgeSpec, ExitLeavesNoNode
=============================================================================
