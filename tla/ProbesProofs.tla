---------------------------- MODULE ProbesProofs ----------------------------
(***************************************************************************)
(* Theorems about Probes.  Probes and gauges only watch: every behaviour   *)
(* of Probes is one of BridgeProcess, so the invariant of the process      *)
(* holds here.  LeaderzAnswersTrue needs to know besides what a            *)
(* probe has in its hands between its two reads: a pod that was public and *)
(* not leader has lost its leadership for good.                            *)
(***************************************************************************)
EXTENDS Probes, BridgeProcessProofs

(* held has missed no instant of a /leaderz. *)
Watched == (probe.path = "leaderz" /\ LeaderReady) => held

(* publicReady was read, and was true. *)
BetweenReads ==
    (probe.path = "leaderz" /\ probe.pc = "leader" /\ ~held) =>
        LeaderElection /\ ~leader /\ phase \notin {"none", "spawned"}

ProbesInv == IInv /\ ProbesTypeOK /\ Watched /\ BetweenReads /\ LeaderzAnswersTrue

(* A step of Probes is a step of the process, or none of it. *)
LEMMA ProcessStep == ProbesNext => [Next]_vars
  BY DEF ProbesNext, RunnerSteps, RunnerStep, StopSteps, PodSteps, ElectorSteps,
         SetGauge, ClearGauges, ProbeBegins, ProbeReads, LeaderzFirst, LeaderzSecond,
         ReadyzLeader, ReadyzPublic, ProbeTo, ProbeEnds, Next, SelfStep, LeadStep

(* The process beside its probes and gauges is the process. *)
THEOREM ProbesOnlyWatch == ProbesSpec => SafeSpec
<1>1. ProbesInit => Init
  BY DEF ProbesInit
<1>2. [ProbesNext]_probesVars => [Next]_vars
  BY ProcessStep DEF probesVars
<1> QED
  BY <1>1, <1>2, PTL DEF ProbesSpec, SafeSpec

-----------------------------------------------------------------------------
(* A pod that runs the public runner without being leader does not become  *)
(* leader again: OnStartedLeading is not spawned twice in a process.       *)
LEMMA LostForGood ==
    ASSUME IInv, [Next]_vars, LeaderElection, ~leader, phase \notin {"none", "spawned"},
           proc' # "exited"
    PROVE  ~leader' /\ phase' \notin {"none", "spawned"}
<1> USE DEF IInv, TypeOK, Fresh, RunnerPlace, mainVars, leadVars, podVars
<1>1. CASE MainStep
  BY <1>1 DEF MainStep, Boot, SelectRun, SelectHealth, WaitRun, ShutdownHealth, Dies,
     RunnerReturns
<1>2. CASE StartLeading \/ Announce \/ Withdraw \/ ClearLeader \/ ClearReady
  BY <1>2 DEF StartLeading, Announce, Withdraw, ClearLeader, ClearReady
<1>3. ASSUME NEW to, RunnerMoves(to) PROVE ~leader' /\ phase' \notin {"none", "spawned"}
  <2>1. to \in Phases
    BY <1>3, MoveType DEF RunnerMoves, Phases
  <2> QED
    BY <1>3, <2>1 DEF RunnerMoves, Phases
<1>4. CASE ElectorStep
  BY <1>4 DEF ElectorStep, ElectorStarts, ElectorFails, Acquire, AcquireUnseen,
     AcquireStops, RenewStops, RenewFails, Release, CancelRun, ElectorReturns,
     LeaseExpires, Elector
<1>5. CASE PodStep
  BY <1>5 DEF PodStep, Kill, Restart, Signal, BootFails, HealthFails, Dies
<1>6. CASE OthersStep \/ UNCHANGED vars
  BY <1>6 DEF OthersStep, vars
<1> QED
  BY <1>1, <1>2, <1>3, <1>4, <1>5, <1>6 DEF Next, SelfStep, LeadStep, Proceed,
     Close, Retreat, RunnerStops, RunnerFails

(* The watchers keep their types. *)
LEMMA ProbesTypeStep ==
    ASSUME ProbesInv, TypeOK', [ProbesNext]_probesVars
    PROVE  ProbesTypeOK'
<1> USE DEF ProbesInv, ProbesTypeOK
<1>0. /\ leader' \in BOOLEAN /\ publicReady' \in BOOLEAN /\ publicReady \in BOOLEAN
      /\ leader \in BOOLEAN
  BY DEF TypeOK, IInv
<1>1. CASE RunnerSteps
  <2>1. Owes \in [gauge : {"none", "leader", "ready"}, value : BOOLEAN]
    BY <1>0 DEF Owes, Nothing
  <2> QED
    BY <1>1, <2>1 DEF RunnerSteps, Observe
<1>2. CASE StopSteps \/ ElectorSteps
  <2>1. owedOnStop' \in 0..2
    BY <1>2 DEF StopSteps, ElectorSteps, gaugeVars
  <2>2. held' \in BOOLEAN /\ UNCHANGED <<probe, leaderGauge, readyGauge, owed>>
    BY <1>2 DEF StopSteps, ElectorSteps, Observe, gaugeVars
  <2> QED
    BY <2>1, <2>2
<1>3. CASE PodSteps
  <2>1. CASE proc' = "exited"
    <3>1. /\ probe' = NoProbe /\ held' = FALSE /\ leaderGauge' = FALSE
          /\ readyGauge' = FALSE /\ owed' = Nothing /\ owedOnStop' = 0
      BY <1>3, <2>1 DEF PodSteps
    <3>2. owedOnStop' \in 0..2
      BY <3>1
    <3> QED
      BY <3>1, <3>2 DEF NoProbe, Nothing
  <2>2. CASE proc' # "exited"
    BY <1>0, <1>3, <2>2 DEF PodSteps, Observe
  <2> QED
    BY <2>1, <2>2
<1>4. CASE SetGauge
  BY <1>4 DEF SetGauge, Nothing, probeVars
<1>5. CASE ClearGauges
  <2>1. owedOnStop' \in 0..2
    BY <1>5 DEF ClearGauges
  <2>2. leaderGauge' \in BOOLEAN /\ readyGauge' \in BOOLEAN
    BY <1>5 DEF ClearGauges
  <2>3. UNCHANGED <<probe, held, owed>>
    BY <1>5 DEF ClearGauges, probeVars
  <2> QED
    BY <2>1, <2>2, <2>3
<1>6. CASE \E path \in {"readyz", "leaderz"}, jwksReady \in BOOLEAN :
               ProbeBegins(path, jwksReady)
  <2>1. PICK path \in {"readyz", "leaderz"}, jwksReady \in BOOLEAN :
            ProbeBegins(path, jwksReady)
    BY <1>6
  <2>2. LeaderzOrder[1] \in {"leader", "public"} /\ ReadyzOrder[1] \in {"leader", "public"}
    BY ModeAssumption DEF LeaderzOrder, ReadyzOrder
  <2>3. probe' \in [path : {"none", "readyz", "leaderz"},
                    pc : {"off", "leader", "public", "answered"}, ok : BOOLEAN]
    BY <2>1, <2>2 DEF ProbeBegins
  <2>4. held' \in BOOLEAN /\ UNCHANGED gaugeVars
    BY <2>1 DEF ProbeBegins
  <2> QED
    BY <2>3, <2>4 DEF gaugeVars
<1>7. CASE ProbeReads
  <2>1. LeaderzOrder[2] \in {"leader", "public"}
    BY DEF LeaderzOrder
  <2>2. \A name \in {"leader", "public"} : Flag(name) \in BOOLEAN
    BY <1>0, ModeAssumption DEF Flag
  <2>3. LeaderzOrder[1] = "public" /\ LeaderzOrder[2] = "leader"
    BY DEF LeaderzOrder
  <2>4. PICK to \in {"public", "leader", "answered"}, ok \in BOOLEAN :
            probe' = [probe EXCEPT !.pc = to, !.ok = ok]
    <3>1. CASE LeaderzFirst
      BY <2>3, <3>1 DEF LeaderzFirst, ProbeTo
    <3>2. CASE LeaderzSecond
      BY <2>2, <2>3, <3>2 DEF LeaderzSecond, ProbeTo
    <3>3. CASE ReadyzLeader
      BY <1>0, <3>3 DEF ReadyzLeader, ProbeTo
    <3>4. CASE ReadyzPublic
      BY <1>0, <3>4 DEF ReadyzPublic, ProbeTo
    <3> QED
      BY <1>7, <3>1, <3>2, <3>3, <3>4 DEF ProbeReads
  <2>5. UNCHANGED <<held, gaugeVars>>
    BY <1>7 DEF ProbeReads, LeaderzFirst, LeaderzSecond, ReadyzLeader, ReadyzPublic, ProbeTo
  <2> QED
    BY <2>4, <2>5 DEF gaugeVars
<1>8. CASE ProbeEnds
  BY <1>8 DEF ProbeEnds, NoProbe, gaugeVars
<1>9. CASE UNCHANGED probesVars
  BY <1>9 DEF probesVars, probeVars, gaugeVars
<1> QED
  BY <1>1, <1>2, <1>3, <1>4, <1>5, <1>6, <1>7, <1>8, <1>9 DEF ProbesNext

(* What a /leaderz knows stays true while the process goes on under it. *)
LEMMA ProcessMovesOn ==
    ASSUME ProbesInv, [Next]_vars, probe' = probe, Observe, proc' # "exited"
    PROVE  Watched' /\ BetweenReads' /\ LeaderzAnswersTrue'
<1>1. held => (probe.path = "leaderz" => held')
  BY DEF Observe
<1>2. Watched'
  BY DEF Observe, Watched
<1>3. BetweenReads'
  <2> SUFFICES ASSUME probe.path = "leaderz", probe.pc = "leader", ~held'
               PROVE  LeaderElection /\ ~leader' /\ phase' \notin {"none", "spawned"}
    BY DEF BetweenReads
  <2>1. LeaderElection /\ ~leader /\ phase \notin {"none", "spawned"}
    BY <1>1 DEF ProbesInv, BetweenReads
  <2> QED
    BY <2>1, LostForGood DEF ProbesInv
<1>4. LeaderzAnswersTrue'
  BY <1>1 DEF ProbesInv, LeaderzAnswersTrue
<1> QED
  BY <1>2, <1>3, <1>4

(* A step that leaves process and probe alone. *)
LEMMA GaugesMove ==
    ASSUME ProbesInv, UNCHANGED <<vars, probeVars>>
    PROVE  Watched' /\ BetweenReads' /\ LeaderzAnswersTrue'
  BY DEF ProbesInv, Watched, BetweenReads, LeaderzAnswersTrue, LeaderReady, vars,
         probeVars, podVars, mainVars, leadVars

(* A probe reads a flag. *)
LEMMA ReadStep ==
    ASSUME ProbesInv, ProbeReads
    PROVE  Watched' /\ BetweenReads' /\ LeaderzAnswersTrue'
<1>0. /\ probe \in [path : {"none", "readyz", "leaderz"},
                    pc : {"off", "leader", "public", "answered"}, ok : BOOLEAN]
      /\ LeaderzOrder[1] = "public" /\ LeaderzOrder[2] = "leader"
      /\ publicReady \in BOOLEAN /\ leader \in BOOLEAN
  BY DEF ProbesInv, ProbesTypeOK, LeaderzOrder, IInv, TypeOK
<1>1. UNCHANGED <<vars, held>> /\ probe'.path = probe.path
  BY <1>0 DEF ProbeReads, LeaderzFirst, LeaderzSecond, ReadyzLeader, ReadyzPublic, ProbeTo
<1>2. UNCHANGED <<leader, publicReady, phase, held>> /\ (LeaderReady <=> LeaderReady')
  BY <1>1 DEF vars, podVars, mainVars, leadVars, LeaderReady
<1>3. Watched'
  BY <1>1, <1>2 DEF ProbesInv, Watched
<1>4. CASE LeaderzFirst
  <2>1. /\ probe.path = "leaderz"
        /\ probe'.pc = IF publicReady THEN "leader" ELSE "answered"
        /\ probe'.ok = FALSE
    BY <1>0, <1>4 DEF LeaderzFirst, ProbeTo, Flag
  <2>2. ASSUME publicReady, ~held
        PROVE  LeaderElection /\ ~leader /\ phase \notin {"none", "spawned"}
    <3>1. ~LeaderReady
      BY <2>1, <2>2 DEF ProbesInv, Watched
    <3>2. LeaderElection /\ ~leader
      BY <2>2, <3>1, ModeAssumption DEF LeaderReady
    <3>3. phase = "open"
      BY <2>2 DEF ProbesInv, IInv, RunnerPlace
    <3> QED
      BY <3>2, <3>3
  <2>3. BetweenReads'
    BY <1>2, <2>1, <2>2 DEF BetweenReads
  <2>4. LeaderzAnswersTrue'
    BY <2>1 DEF LeaderzAnswersTrue
  <2> QED
    BY <1>3, <2>3, <2>4
<1>5. CASE LeaderzSecond
  <2>1. /\ probe.path = "leaderz" /\ probe.pc = "leader" /\ probe'.pc = "answered"
        /\ probe'.ok = (LeaderElection => leader)
    BY <1>0, <1>5 DEF LeaderzSecond, ProbeTo, Flag
  <2>2. BetweenReads'
    BY <2>1 DEF BetweenReads
  <2>3. LeaderzAnswersTrue'
    BY <1>2, <2>1 DEF ProbesInv, BetweenReads, LeaderzAnswersTrue
  <2> QED
    BY <1>3, <2>2, <2>3
<1>6. CASE ReadyzLeader \/ ReadyzPublic
  <2>1. probe'.path = "readyz"
    BY <1>0, <1>6 DEF ReadyzLeader, ReadyzPublic, ProbeTo
  <2> QED
    BY <1>3, <2>1 DEF BetweenReads, LeaderzAnswersTrue
<1> QED
  BY <1>4, <1>5, <1>6 DEF ProbeReads

(* The invariant of the process and of what its probes have read. *)
THEOREM ProbesInvariant == ProbesSpec => []ProbesInv
<1>1. ProbesInit /\ IInv => ProbesInv
  <2> SUFFICES ASSUME ProbesInit, IInv PROVE ProbesInv
    OBVIOUS
  <2>1. 0 \in 0..2
    OBVIOUS
  <2>2. ProbesTypeOK
    BY <2>1 DEF ProbesInit, NoProbe, Nothing, ProbesTypeOK
  <2>3. Watched /\ BetweenReads /\ LeaderzAnswersTrue
    BY DEF ProbesInit, NoProbe, Watched, BetweenReads, LeaderzAnswersTrue
  <2> QED
    BY <2>2, <2>3 DEF ProbesInv
<1>2. ProbesInv /\ IInv' /\ [ProbesNext]_probesVars => ProbesInv'
  <2> SUFFICES ASSUME ProbesInv, IInv', [ProbesNext]_probesVars PROVE ProbesInv'
    OBVIOUS
  <2>0. [Next]_vars /\ TypeOK' /\ IInv
    BY ProcessStep DEF probesVars, IInv, ProbesInv
  <2>1. ProbesTypeOK'
    BY <2>0, ProbesTypeStep
  <2>2. Watched' /\ BetweenReads' /\ LeaderzAnswersTrue'
    <3>1. CASE RunnerSteps \/ StopSteps \/ ElectorSteps
      <4>1. probe' = probe /\ Observe /\ proc' = proc
        BY <3>1 DEF RunnerSteps, RunnerStep, StopSteps, ElectorSteps, StartLeading,
           Proceed, Close, Retreat, RunnerStops, RunnerFails, RunnerMoves, Announce,
           Withdraw, ClearLeader, ClearReady, ElectorStep, ElectorStarts, ElectorFails,
           Acquire, AcquireUnseen, AcquireStops, RenewStops, RenewFails, Release,
           CancelRun, ElectorReturns, LeaseExpires, Elector, mainVars, podVars
      <4>2. CASE proc = "exited"
        <5>1. phase = "none" /\ elect = "off"
          BY <2>0, <4>2 DEF IInv, Fresh
        <5>2. ~(RunnerSteps \/ StopSteps)
          BY <5>1 DEF RunnerSteps, RunnerStep, StopSteps, StartLeading, Proceed, Close,
             Retreat, RunnerStops, RunnerFails, RunnerMoves, MayMove, Announce, Withdraw,
             ClearLeader, ClearReady
        <5>3. LeaseExpires
          BY <3>1, <5>1, <5>2 DEF ElectorSteps, ElectorStep, ElectorStarts, ElectorFails,
             Acquire, AcquireUnseen, AcquireStops, RenewStops, RenewFails, Release,
             CancelRun, ElectorReturns, Elector
        <5>4. UNCHANGED podVars
          BY <5>3 DEF LeaseExpires
        <5> QED
          BY <4>1, <5>4 DEF Observe, ProbesInv, Watched, BetweenReads,
             LeaderzAnswersTrue, LeaderReady, podVars, leadVars
      <4> QED
        BY <2>0, <4>1, <4>2, ProcessMovesOn
    <3>2. CASE PodSteps
      <4>1. CASE proc' = "exited"
        <5>1. probe' = NoProbe
          BY <3>2, <4>1 DEF PodSteps
        <5> QED
          BY <5>1 DEF NoProbe, Watched, BetweenReads, LeaderzAnswersTrue
      <4>2. CASE proc' # "exited"
        <5>1. probe' = probe /\ Observe
          BY <3>2, <4>2 DEF PodSteps
        <5> QED
          BY <2>0, <4>2, <5>1, ProcessMovesOn
      <4> QED
        BY <4>1, <4>2
    <3>3. CASE SetGauge \/ ClearGauges \/ UNCHANGED probesVars
      BY <3>3, GaugesMove DEF SetGauge, ClearGauges, probesVars
    <3>4. ASSUME NEW path \in {"readyz", "leaderz"}, NEW jwksReady \in BOOLEAN,
                 ProbeBegins(path, jwksReady)
          PROVE  Watched' /\ BetweenReads' /\ LeaderzAnswersTrue'
      <4>1. /\ held' = (path = "leaderz" /\ LeaderReady) /\ UNCHANGED vars
            /\ probe'.path = path /\ probe'.ok = FALSE
            /\ path = "leaderz" => probe'.pc \in {"public", "answered"}
        BY <3>4 DEF ProbeBegins, LeaderzOrder
      <4>2. LeaderReady <=> LeaderReady'
        BY <4>1 DEF LeaderReady, vars, podVars, leadVars
      <4> QED
        BY <4>1, <4>2 DEF Watched, BetweenReads, LeaderzAnswersTrue
    <3>5. CASE ProbeReads
      BY <3>5, ReadStep
    <3>6. CASE ProbeEnds
      BY <3>6 DEF ProbeEnds, NoProbe, Watched, BetweenReads, LeaderzAnswersTrue
    <3> QED
      BY <3>1, <3>2, <3>3, <3>4, <3>5, <3>6 DEF ProbesNext
  <2> QED
    BY <2>0, <2>1, <2>2 DEF ProbesInv
<1>3. ProbesSpec => []IInv
  BY ProbesOnlyWatch, ProcessInvariant, PTL
<1> QED
  BY <1>1, <1>2, <1>3, PTL DEF ProbesSpec

(* Probe and gauges keep their types. *)
THEOREM ProbesTypeCorrect == ProbesSpec => []ProbesTypeOK
<1>1. ProbesInv => ProbesTypeOK
  BY DEF ProbesInv
<1> QED
  BY <1>1, ProbesInvariant, PTL

(* A /leaderz that is answered with 200 was true at one instant, although  *)
(* it reads its two flags apart.                                           *)
THEOREM LeaderzAnswersAreTrue == ProbesSpec => []LeaderzAnswersTrue
<1>1. ProbesInv => LeaderzAnswersTrue
  BY DEF ProbesInv
<1> QED
  BY <1>1, ProbesInvariant, PTL
=============================================================================
