--------------------------- MODULE BridgeHAProofs ---------------------------
(***************************************************************************)
(* The composition of two replicas is a BridgeProcess to each of them, so  *)
(* what is proved of one process holds of both; and with it the exclusion  *)
(* the Lease gives.                                                        *)
(***************************************************************************)
EXTENDS BridgeHA, TLAPS

AP == INSTANCE BridgeProcessProofs WITH
    Self <- PodA, Others <- {PodB}, LeaderElection <- TRUE, HealthFaults <- FALSE,
    proc <- procA, ctx <- ctxA, signalled <- signalledA, health <- healthA,
    exitErr <- exitErrA, returned <- returnedA, deferred <- deferredA,
    elect <- electA, phase <- phaseA, leader <- leaderA, publicReady <- publicReadyA

BP == INSTANCE BridgeProcessProofs WITH
    Self <- PodB, Others <- {PodA}, LeaderElection <- TRUE, HealthFaults <- FALSE,
    proc <- procB, ctx <- ctxB, signalled <- signalledB, health <- healthB,
    exitErr <- exitErrB, returned <- returnedB, deferred <- deferredB,
    elect <- electB, phase <- phaseB, leader <- leaderB, publicReady <- publicReadyB

(* What pod b does to the Lease is what pod a reckons with. *)
LEMMA LeaseB ==
    B!SelfStep => \/ UNCHANGED lease
                  \/ lease # PodA /\ lease' \in {PodB, NoPod}
<1>1. B!MainStep \/ B!LeadStep \/ B!PodStep => UNCHANGED lease
  BY DEF B!MainStep, B!LeadStep, B!PodStep, B!Boot, B!SelectRun,
     B!SelectHealth, B!WaitRun, B!ShutdownHealth, B!RunnerReturns,
     B!StartLeading, B!Proceed, B!Close, B!Retreat, B!RunnerStops,
     B!RunnerFails, B!RunnerMoves, B!Announce, B!Withdraw,
     B!ClearLeader, B!ClearReady, B!Kill, B!Restart, B!Signal,
     B!BootFails, B!HealthFails, B!Dies
<1>2. B!ElectorStep => \/ UNCHANGED lease
                       \/ lease # PodA /\ lease' \in {PodB, NoPod}
  BY ReplicasAssumption
  DEF B!ElectorStep, B!ElectorStarts, B!ElectorFails, B!Acquire,
     B!AcquireUnseen, B!AcquireStops, B!RenewStops, B!RenewFails,
     B!Release, B!CancelRun, B!ElectorReturns, B!LeaseExpires,
     B!Elector
<1> QED
  BY <1>1, <1>2 DEF B!SelfStep

(* What pod a does to the Lease is what pod b reckons with. *)
LEMMA LeaseA ==
    A!SelfStep => \/ UNCHANGED lease
                  \/ lease # PodB /\ lease' \in {PodA, NoPod}
<1>1. A!MainStep \/ A!LeadStep \/ A!PodStep => UNCHANGED lease
  BY DEF A!MainStep, A!LeadStep, A!PodStep, A!Boot, A!SelectRun,
     A!SelectHealth, A!WaitRun, A!ShutdownHealth, A!RunnerReturns,
     A!StartLeading, A!Proceed, A!Close, A!Retreat, A!RunnerStops,
     A!RunnerFails, A!RunnerMoves, A!Announce, A!Withdraw,
     A!ClearLeader, A!ClearReady, A!Kill, A!Restart, A!Signal,
     A!BootFails, A!HealthFails, A!Dies
<1>2. A!ElectorStep => \/ UNCHANGED lease
                       \/ lease # PodB /\ lease' \in {PodA, NoPod}
  BY ReplicasAssumption
  DEF A!ElectorStep, A!ElectorStarts, A!ElectorFails, A!Acquire,
     A!AcquireUnseen, A!AcquireStops, A!RenewStops, A!RenewFails,
     A!Release, A!CancelRun, A!ElectorReturns, A!LeaseExpires,
     A!Elector
<1> QED
  BY <1>1, <1>2 DEF A!SelfStep

(* Every step of the two is a step of the first one's model, *)
LEMMA StepA == [Next]_vars => [A!Next]_(A!vars)
<1> USE DEF A!Next, A!vars, A!podVars, A!mainVars, A!leadVars
<1>1. CASE A!SelfStep
  BY <1>1
<1>2. CASE B!SelfStep /\ UNCHANGED podA
  BY <1>2, LeaseB DEF A!OthersStep, podA
<1>3. CASE UNCHANGED vars
  BY <1>3 DEF vars, podA
<1> QED
  BY <1>1, <1>2, <1>3 DEF Next

(* and of the second one's. *)
LEMMA StepB == [Next]_vars => [B!Next]_(B!vars)
<1> USE DEF B!Next, B!vars, B!podVars, B!mainVars, B!leadVars
<1>1. CASE B!SelfStep
  BY <1>1
<1>2. CASE A!SelfStep /\ UNCHANGED podB
  BY <1>2, LeaseA DEF B!OthersStep, podB
<1>3. CASE UNCHANGED vars
  BY <1>3 DEF vars, podB
<1> QED
  BY <1>1, <1>2, <1>3 DEF Next

(* Each replica behaves as BridgeProcess says a process does among other   *)
(* candidates, so the theorems of BridgeProcessProofs hold of each.        *)
THEOREM ReplicasConform == Spec => EachPodConforms
<1>1. Init => A!Init /\ B!Init
  BY DEF Init
<1>2. [Next]_vars => [A!Next]_(A!vars) /\ [B!Next]_(B!vars)
  BY StepA, StepB
<1> QED
  BY <1>1, <1>2, PTL DEF Spec, EachPodConforms, A!SafeSpec, B!SafeSpec

(* The invariant of BridgeProcessProofs, for pod a. *)
LEMMA InvariantA == Spec => []AP!IInv
<1>1. A!Init => AP!Init
  BY DEF A!Init, A!PodInit, AP!Init, AP!PodInit
<1>2. A!SelfStep => AP!SelfStep
  BY DEF A!SelfStep, A!MainStep, A!LeadStep, A!ElectorStep, A!PodStep,
     A!Boot, A!SelectRun, A!SelectHealth, A!WaitRun, A!ShutdownHealth,
     A!RunnerReturns, A!StartLeading, A!Proceed, A!Close, A!Retreat,
     A!RunnerStops, A!RunnerFails, A!RunnerMoves, A!Announce,
     A!Withdraw, A!ClearLeader, A!ClearReady, A!ElectorStarts,
     A!ElectorFails, A!Acquire, A!AcquireUnseen, A!AcquireStops,
     A!RenewStops, A!RenewFails, A!Release, A!CancelRun,
     A!ElectorReturns, A!LeaseExpires, A!Elector, A!Kill, A!Restart,
     A!Signal, A!BootFails, A!HealthFails, A!Dies, A!SendErr,
     A!FirstErr, A!RunCtxDone, A!RunnerOutcomes, A!ElectionOutcome,
     A!MayMove, A!mainVars, A!leadVars, A!podVars, AP!SelfStep,
     AP!MainStep, AP!LeadStep, AP!ElectorStep, AP!PodStep, AP!Boot,
     AP!SelectRun, AP!SelectHealth, AP!WaitRun, AP!ShutdownHealth,
     AP!RunnerReturns, AP!StartLeading, AP!Proceed, AP!Close,
     AP!Retreat, AP!RunnerStops, AP!RunnerFails, AP!RunnerMoves,
     AP!Announce, AP!Withdraw, AP!ClearLeader, AP!ClearReady,
     AP!ElectorStarts, AP!ElectorFails, AP!Acquire, AP!AcquireUnseen,
     AP!AcquireStops, AP!RenewStops, AP!RenewFails, AP!Release,
     AP!CancelRun, AP!ElectorReturns, AP!LeaseExpires, AP!Elector,
     AP!Kill, AP!Restart, AP!Signal, AP!BootFails, AP!HealthFails,
     AP!Dies, AP!SendErr, AP!FirstErr, AP!RunCtxDone,
     AP!RunnerOutcomes, AP!ElectionOutcome, AP!MayMove, AP!mainVars,
     AP!leadVars, AP!podVars
<1>3. [A!Next]_(A!vars) => [AP!Next]_(AP!vars)
  BY <1>2 DEF A!Next, A!OthersStep, A!vars, A!podVars, A!mainVars, A!leadVars,
     AP!Next, AP!OthersStep, AP!vars, AP!podVars, AP!mainVars,
     AP!leadVars
<1>4. AP!SafeSpec => []AP!IInv
  BY AP!ProcessInvariant, ReplicasAssumption
  DEF AP!PodsAssumption, AP!ModeAssumption
<1> QED
  BY <1>1, <1>3, <1>4, ReplicasConform, PTL
  DEF EachPodConforms, A!SafeSpec, B!SafeSpec, AP!SafeSpec

(* The invariant of BridgeProcessProofs, for pod b. *)
LEMMA InvariantB == Spec => []BP!IInv
<1>1. B!Init => BP!Init
  BY DEF B!Init, B!PodInit, BP!Init, BP!PodInit
<1>2. B!SelfStep => BP!SelfStep
  BY DEF B!SelfStep, B!MainStep, B!LeadStep, B!ElectorStep, B!PodStep,
     B!Boot, B!SelectRun, B!SelectHealth, B!WaitRun, B!ShutdownHealth,
     B!RunnerReturns, B!StartLeading, B!Proceed, B!Close, B!Retreat,
     B!RunnerStops, B!RunnerFails, B!RunnerMoves, B!Announce,
     B!Withdraw, B!ClearLeader, B!ClearReady, B!ElectorStarts,
     B!ElectorFails, B!Acquire, B!AcquireUnseen, B!AcquireStops,
     B!RenewStops, B!RenewFails, B!Release, B!CancelRun,
     B!ElectorReturns, B!LeaseExpires, B!Elector, B!Kill, B!Restart,
     B!Signal, B!BootFails, B!HealthFails, B!Dies, B!SendErr,
     B!FirstErr, B!RunCtxDone, B!RunnerOutcomes, B!ElectionOutcome,
     B!MayMove, B!mainVars, B!leadVars, B!podVars, BP!SelfStep,
     BP!MainStep, BP!LeadStep, BP!ElectorStep, BP!PodStep, BP!Boot,
     BP!SelectRun, BP!SelectHealth, BP!WaitRun, BP!ShutdownHealth,
     BP!RunnerReturns, BP!StartLeading, BP!Proceed, BP!Close,
     BP!Retreat, BP!RunnerStops, BP!RunnerFails, BP!RunnerMoves,
     BP!Announce, BP!Withdraw, BP!ClearLeader, BP!ClearReady,
     BP!ElectorStarts, BP!ElectorFails, BP!Acquire, BP!AcquireUnseen,
     BP!AcquireStops, BP!RenewStops, BP!RenewFails, BP!Release,
     BP!CancelRun, BP!ElectorReturns, BP!LeaseExpires, BP!Elector,
     BP!Kill, BP!Restart, BP!Signal, BP!BootFails, BP!HealthFails,
     BP!Dies, BP!SendErr, BP!FirstErr, BP!RunCtxDone,
     BP!RunnerOutcomes, BP!ElectionOutcome, BP!MayMove, BP!mainVars,
     BP!leadVars, BP!podVars
<1>3. [B!Next]_(B!vars) => [BP!Next]_(BP!vars)
  BY <1>2 DEF B!Next, B!OthersStep, B!vars, B!podVars, B!mainVars, B!leadVars,
     BP!Next, BP!OthersStep, BP!vars, BP!podVars, BP!mainVars,
     BP!leadVars
<1>4. BP!SafeSpec => []BP!IInv
  BY BP!ProcessInvariant, ReplicasAssumption
  DEF BP!PodsAssumption, BP!ModeAssumption
<1> QED
  BY <1>1, <1>3, <1>4, ReplicasConform, PTL
  DEF EachPodConforms, A!SafeSpec, B!SafeSpec, BP!SafeSpec

(* No crash, restart, lost answer, release or expiry makes two pods hold a *)
(* node unless one of them is leaving.                                     *)
THEOREM ExclusionOutsideHandover == Spec => []OverlapOnlyInHandover
<1>1. AP!IInv /\ BP!IInv => OverlapOnlyInHandover
  <2> SUFFICES ASSUME AP!IInv, BP!IInv, A!HasNode, B!HasNode,
                      electA \notin Leaving, electB \notin Leaving
               PROVE  FALSE
    BY DEF OverlapOnlyInHandover
  <2>1. electA = "leading"
    BY DEF AP!IInv, AP!TypeOK, AP!RunnerPlace, AP!Mode, A!HasNode, Leaving
  <2>2. electB = "leading"
    BY DEF BP!IInv, BP!TypeOK, BP!RunnerPlace, BP!Mode, B!HasNode, Leaving
  <2> QED
    BY <2>1, <2>2, ReplicasAssumption DEF AP!IInv, AP!LeaseKept, BP!IInv, BP!LeaseKept
<1> QED
  BY <1>1, InvariantA, InvariantB, PTL

(* Neither an OnStartedLeading that runs late nor a runner that announces  *)
(* itself late makes two pods answer /leaderz: they do only between the    *)
(* end of the renewals of one of them and its OnStoppedLeading.            *)
THEOREM LeaderzIsExclusive == Spec => []OneLeaderzOutsideYielding
<1>1. AP!IInv /\ BP!IInv => OneLeaderzOutsideYielding
  <2> SUFFICES ASSUME AP!IInv, BP!IInv, A!LeaderReady, B!LeaderReady,
                      electA \notin {"releasing", "released", "cancelled"},
                      electB \notin {"releasing", "released", "cancelled"}
               PROVE  FALSE
    BY DEF OneLeaderzOutsideYielding
  <2>1. electA = "leading"
    BY DEF AP!IInv, AP!TypeOK, AP!RunnerPlace, AP!Mode, AP!Deposed, A!LeaderReady
  <2>2. electB = "leading"
    BY DEF BP!IInv, BP!TypeOK, BP!RunnerPlace, BP!Mode, BP!Deposed, B!LeaderReady
  <2> QED
    BY <2>1, <2>2, ReplicasAssumption DEF AP!IInv, AP!LeaseKept, BP!IInv, BP!LeaseKept
<1> QED
  BY <1>1, InvariantA, InvariantB, PTL
=============================================================================
