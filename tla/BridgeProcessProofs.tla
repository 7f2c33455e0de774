------------------------ MODULE BridgeProcessProofs ------------------------
(***************************************************************************)
(* Proofs of the safety properties of BridgeProcess, for any set of other  *)
(* candidates and with or without leader election.                         *)
(*                                                                         *)
(* LeaderzTruthful is not inductive: what keeps an OnStartedLeading that   *)
(* runs after OnStoppedLeading harmless is that its context is done before *)
(* it begins, so that the runner never leaves phase "down" but to stop.    *)
(* NilExitMeansSignal rests on who can have cancelled ctx while main is    *)
(* still in its select, and on the elector never returning without either  *)
(* a done ctx or a deferred error.                                         *)
(***************************************************************************)
EXTENDS BridgeProcess, TLAPS

Deposed == {"clearing", "stopped", "returned"}

(* Before it is booted, and after its death, a process has nothing. *)
Fresh ==
    /\ proc \in {"boot", "exited"} =>
          /\ phase = "none" /\ elect = "off" /\ deferred = "none"
          /\ returned = "none"
    /\ proc = "exited" => ~ctx

(* Where the runner can be. *)
RunnerPlace ==
    /\ publicReady => phase = "open"
    /\ elect \in {"setup", "failed", "acquiring"} => phase = "none"
    /\ (leader /\ elect \in Deposed) => phase \in {"down", "stopped"}
    /\ phase = "stopped" => RunCtxDone

(* Which goroutines the mode of operation has. *)
Mode ==
    /\ ~LeaderElection => elect = "off" /\ phase # "spawned"
    /\ (LeaderElection /\ elect = "off") => phase = "none"
    /\ (~LeaderElection /\ (returned # "none" \/ proc = "shutdown"))
          => phase \in {"stopped", "failed"}

(* Why ctx is done, and why an outcome is nil. *)
Reasons ==
    /\ (proc \in {"boot", "select"} /\ ctx) => signalled
    /\ (proc = "select" /\ returned = "nil") => signalled
    /\ (proc = "shutdown" /\ exitErr = "nil") => signalled
    /\ proc = "waitRun" => exitErr # "nil"
    /\ (elect \in {"stopped", "returned"} /\ deferred = "none") => ctx

(* The Lease is this pod's while it is being renewed. *)
LeaseKept == elect = "leading" => lease = Self

IInv == TypeOK /\ Fresh /\ RunnerPlace /\ Mode /\ Reasons /\ LeaseKept

(* Moves of the runner stay among its phases. *)
LEMMA MoveType ==
    ASSUME NEW from, NEW to, NEW c, MayMove(from, to, c)
    PROVE  to \in Phases \ {"stopped"} \/ (to = "stopped" /\ c)
  BY DEF MayMove, Phases

LEMMA TypeStep == IInv /\ [Next]_vars => TypeOK'
<1> SUFFICES ASSUME IInv, [Next]_vars PROVE TypeOK'
  OBVIOUS
<1> USE DEF IInv, TypeOK, mainVars, leadVars, podVars
<1>1. CASE MainStep
  <2>1. CASE Boot
    <3>1. elect' \in {elect, "setup"} /\ phase' \in {phase, "down"}
      BY <2>1 DEF Boot
    <3>2. leader' \in BOOLEAN
      BY <2>1 DEF Boot
    <3>3. /\ proc' = "select" /\ health' = "serving"
          /\ UNCHANGED <<lease, ctx, signalled, exitErr, returned, deferred, publicReady>>
      BY <2>1 DEF Boot
    <3> QED
      BY <3>1, <3>2, <3>3 DEF Phases
  <2>2. CASE SelectRun \/ SelectHealth \/ WaitRun
    BY <2>2 DEF SelectRun, SelectHealth, WaitRun, FirstErr, Errors
  <2>3. CASE ShutdownHealth
    BY <2>3 DEF ShutdownHealth, Dies, FirstErr, Errors
  <2>4. CASE RunnerReturns
    <3>1. returned' \in Errors \cup {"none", "nil"}
      BY <2>4 DEF RunnerReturns, RunnerOutcomes, ElectionOutcome, Errors
    <3> QED
      BY <2>4, <3>1 DEF RunnerReturns
  <2> QED
    BY <1>1, <2>1, <2>2, <2>3, <2>4 DEF MainStep
<1>2. CASE StartLeading \/ Announce \/ Withdraw \/ ClearLeader \/ ClearReady
  BY <1>2 DEF StartLeading, Announce, Withdraw, ClearLeader, ClearReady, SendErr, Phases
<1>3. ASSUME NEW to, RunnerMoves(to) PROVE TypeOK'
  <2>1. to \in Phases
    BY <1>3, MoveType DEF RunnerMoves, Phases
  <2>2. deferred' \in {"none", "lost", "runner"}
    BY <1>3 DEF RunnerMoves, SendErr
  <2>3. publicReady' \in BOOLEAN
    BY <1>3 DEF RunnerMoves
  <2>4. phase' = to /\ UNCHANGED <<lease, mainVars, elect, leader>>
    BY <1>3 DEF RunnerMoves
  <2> QED
    BY <2>1, <2>2, <2>3, <2>4
<1>4. CASE ElectorStep
  BY <1>4, PodsAssumption DEF ElectorStep, ElectorStarts, ElectorFails, Acquire,
     AcquireUnseen, AcquireStops, RenewStops, RenewFails, Release, CancelRun,
     ElectorReturns, LeaseExpires, Elector, Candidates
<1>5. CASE PodStep
  BY <1>5 DEF PodStep, Kill, Restart, Signal, BootFails, HealthFails, Dies, Errors
<1>6. CASE OthersStep \/ UNCHANGED vars
  BY <1>6 DEF OthersStep, vars, Candidates
<1> QED
  BY <1>1, <1>2, <1>3, <1>4, <1>5, <1>6 DEF Next, SelfStep, LeadStep, Proceed,
     Close, Retreat, RunnerStops, RunnerFails

(* A step that resets the process, or one outside it, keeps the rest. *)
LEMMA RestStep ==
    IInv /\ [Next]_vars => Fresh' /\ RunnerPlace' /\ Mode' /\ Reasons' /\ LeaseKept'
<1> SUFFICES ASSUME IInv, [Next]_vars
             PROVE  Fresh' /\ RunnerPlace' /\ Mode' /\ Reasons' /\ LeaseKept'
  OBVIOUS
<1> USE ModeAssumption DEF IInv, TypeOK, Fresh, RunnerPlace, Mode, Reasons,
        LeaseKept, RunCtxDone, Deposed, mainVars, leadVars, podVars
<1>1. CASE MainStep
  <2>1. CASE Boot
    BY <2>1 DEF Boot
  <2>2. CASE SelectRun \/ SelectHealth \/ WaitRun
    BY <2>2 DEF SelectRun, SelectHealth, WaitRun, FirstErr
  <2>3. CASE ShutdownHealth
    BY <2>3 DEF ShutdownHealth, Dies
  <2>4. CASE RunnerReturns
    <3>1. /\ (proc = "select" /\ returned' = "nil") => signalled
          /\ ~LeaderElection /\ returned' # "none" => phase \in {"stopped", "failed"}
      BY <2>4 DEF RunnerReturns, RunnerOutcomes, ElectionOutcome
    <3> QED
      BY <2>4, <3>1 DEF RunnerReturns
  <2> QED
    BY <1>1, <2>1, <2>2, <2>3, <2>4 DEF MainStep
<1>2. CASE StartLeading \/ Announce \/ Withdraw \/ ClearLeader \/ ClearReady
  BY <1>2 DEF StartLeading, Announce, Withdraw, ClearLeader, ClearReady, SendErr
<1>3. ASSUME NEW to, RunnerMoves(to)
      PROVE  Fresh' /\ RunnerPlace' /\ Mode' /\ Reasons' /\ LeaseKept'
  <2>1. /\ phase \in {"down", "trying", "held", "open", "parked"}
        /\ phase = "down" /\ RunCtxDone => to = "stopped"
        /\ to = "stopped" => RunCtxDone
        /\ to \notin {"none", "spawned"}
    BY <1>3 DEF RunnerMoves, MayMove
  <2>2. /\ phase' = to
        /\ publicReady' = IF "open" \in {phase, to} THEN FALSE ELSE publicReady
        /\ deferred' = deferred \/ deferred' # "none"
        /\ UNCHANGED <<lease, mainVars, elect, leader>>
    BY <1>3 DEF RunnerMoves, SendErr
  <2> QED
    BY <2>1, <2>2
<1>4. CASE ElectorStep
  <2>1. CASE ElectorStarts \/ ElectorFails \/ AcquireStops
    BY <2>1 DEF ElectorStarts, ElectorFails, AcquireStops, Elector
  <2>2. CASE Acquire \/ AcquireUnseen
    BY <2>2 DEF Acquire, AcquireUnseen, Elector
  <2>3. CASE RenewStops \/ RenewFails \/ Release \/ CancelRun \/ ElectorReturns
    BY <2>3 DEF RenewStops, RenewFails, Release, CancelRun, ElectorReturns, Elector
  <2>4. CASE LeaseExpires
    BY <2>4 DEF LeaseExpires
  <2> QED
    BY <1>4, <2>1, <2>2, <2>3, <2>4 DEF ElectorStep
<1>5. CASE PodStep
  BY <1>5 DEF PodStep, Kill, Restart, Signal, BootFails, HealthFails, Dies
<1>6. CASE OthersStep \/ UNCHANGED vars
  BY <1>6 DEF OthersStep, vars
<1> QED
  BY <1>1, <1>2, <1>3, <1>4, <1>5, <1>6 DEF Next, SelfStep, LeadStep, Proceed,
     Close, Retreat, RunnerStops, RunnerFails

(* The inductive invariant holds in every reachable state of a process. *)
THEOREM ProcessInvariant == SafeSpec => []IInv
<1>1. Init => IInv
  BY PodsAssumption, ModeAssumption DEF Init, PodInit, IInv, TypeOK, Candidates,
     Errors, Fresh, RunnerPlace, Mode, Reasons, LeaseKept, RunCtxDone, Deposed
<1>2. IInv /\ [Next]_vars => IInv'
  BY TypeStep, RestStep DEF IInv
<1> QED
  BY <1>1, <1>2, PTL DEF SafeSpec

(* Every variable keeps its type; runErrCh is not read before it is        *)
(* written.                                                                *)
THEOREM ProcessTypeCorrect == SafeSpec => []TypeOK
<1>1. IInv => TypeOK
  BY DEF IInv
<1> QED
  BY <1>1, ProcessInvariant, PTL

(* However the callbacks of the elector and the runner interleave, a pod   *)
(* that answers /leaderz serves and has not been deposed.                  *)
THEOREM LeaderzIsTruthful == SafeSpec => []LeaderzTruthful
<1>1. IInv => LeaderzTruthful
  BY ModeAssumption DEF IInv, TypeOK, RunnerPlace, Mode, Deposed, LeaderzTruthful, LeaderReady
<1> QED
  BY <1>1, ProcessInvariant, PTL

(* Success is reported only by a process that got a signal. *)
THEOREM SuccessMeansSignal == SafeSpec => NilExitMeansSignal
<1> DEFINE Told ==
             (proc # "exited" /\ proc' = "exited" /\ exitErr' = "nil") => signalled
<1>1. IInv /\ [Next]_vars => [Told]_vars
  <2> SUFFICES ASSUME IInv, Next, proc # "exited", proc' = "exited", exitErr' = "nil"
               PROVE  signalled
    OBVIOUS
  <2>1. ShutdownHealth
    <3>1. ~(Kill \/ BootFails)
      BY DEF Kill, BootFails, Dies
    <3>2. ~LeadStep /\ ~ElectorStep
      BY DEF LeadStep, ElectorStep, StartLeading, Proceed, Close, Retreat,
         RunnerStops, RunnerFails, RunnerMoves, Announce, Withdraw, ClearLeader,
         ClearReady, ElectorStarts, ElectorFails, Acquire, AcquireUnseen,
         AcquireStops, RenewStops, RenewFails, Release, CancelRun,
         ElectorReturns, LeaseExpires, Elector, mainVars, podVars
    <3>3. ~OthersStep
      BY DEF OthersStep, podVars, mainVars
    <3> QED
      BY <3>1, <3>2, <3>3 DEF Next, SelfStep, MainStep, PodStep, Boot, SelectRun,
         SelectHealth, WaitRun, RunnerReturns, Restart, Signal, HealthFails
  <2>2. proc = "shutdown" /\ exitErr = "nil"
    BY <2>1 DEF ShutdownHealth, Dies, FirstErr
  <2> QED
    BY <2>2 DEF IInv, Reasons
<1> QED
  BY <1>1, ProcessInvariant, PTL DEF SafeSpec, NilExitMeansSignal

(* Without leader election no process that exits by itself leaves a node   *)
(* behind.                                                                 *)
THEOREM SingleExitIsGraceful ==
    ASSUME ~LeaderElection PROVE SafeSpec => GracefulExit
<1> DEFINE Graceful == (proc = "shutdown" /\ proc' = "exited") => ~HasNode
<1>1. IInv => [Graceful]_vars
  BY DEF IInv, Mode, HasNode
<1> QED
  BY <1>1, ProcessInvariant, PTL DEF SafeSpec, GracefulExit
=============================================================================
