------------------------------- MODULE Probes -------------------------------
(***************************************************************************)
(* What a process tells its surroundings: the probes of the health server  *)
(* (handleReady, handleLeader and handleHealth of oidc/handler.go over the *)
(* flags of state.go) and the gauges leader and public_ready of            *)
(* metrics.go.                                                             *)
(*                                                                         *)
(* The process is BridgeProcess.  A probe reads its flags one at a time,   *)
(* while their writers go on; a writer sets the flag of runtimeState first *)
(* and the gauge afterwards.  OnStoppedLeading sets its gauges before      *)
(* sendErr, here after it: they touch nothing in common.                   *)
(***************************************************************************)
EXTENDS BridgeProcess, Naturals

VARIABLES
    probe,         \* a request of the health server
    held,          \* did LeaderReady hold at some instant of a /leaderz?
    leaderGauge,   \* Metrics.leader
    readyGauge,    \* Metrics.publicReady
    owed,          \* the gauge OnStartedLeading's goroutine sets next
    owedOnStop     \* how many OnStoppedLeading has still to set

gaugeVars == <<leaderGauge, readyGauge, owed, owedOnStop>>
probeVars == <<probe, held>>
probesVars == <<vars, probeVars, gaugeVars>>

NoProbe == [path |-> "none", pc |-> "off", ok |-> FALSE]
Nothing == [gauge |-> "none", value |-> FALSE]

(* Every variable has its type. *)
ProbesTypeOK ==
    /\ held \in BOOLEAN
    /\ probe \in [path : {"none", "readyz", "leaderz"},
                  pc : {"off", "leader", "public", "answered"}, ok : BOOLEAN]
    /\ leaderGauge \in BOOLEAN /\ readyGauge \in BOOLEAN
    /\ owed \in [gauge : {"none", "leader", "ready"}, value : BOOLEAN]
    /\ owedOnStop \in 0..2

ProbesInit ==
    /\ Init
    /\ probe = NoProbe /\ held = FALSE
    /\ leaderGauge = FALSE /\ readyGauge = FALSE
    /\ owed = Nothing /\ owedOnStop = 0

-----------------------------------------------------------------------------
(* A step of the process, as the probe and the gauges see it.              *)

(* Fault variant: the callback clears the flag only. *)
OwesTrueOnly ==
    CASE phase = "spawned" -> [gauge |-> "leader", value |-> TRUE]
      [] "open" \in {phase, phase'} /\ publicReady' -> [gauge |-> "ready", value |-> TRUE]
      [] OTHER -> Nothing

(* After SetLeader(true), and after SetPublicReady(v) by the callback that *)
(* setupProcess gives to the runner.                                       *)
Owes ==
    CASE phase = "spawned" -> [gauge |-> "leader", value |-> TRUE]
      [] "open" \in {phase, phase'} -> [gauge |-> "ready", value |-> publicReady']
      [] OTHER -> Nothing

(* OnStartedLeading and the runner inside it, or the runner alone. *)
RunnerStep ==
    \/ StartLeading \/ Proceed \/ Close \/ Retreat \/ RunnerStops \/ RunnerFails
    \/ Announce \/ Withdraw

Observe == held' = (probe.path = "leaderz" /\ (held \/ LeaderReady'))

RunnerSteps ==
    /\ RunnerStep
    /\ owed = Nothing /\ owed' = Owes
    /\ Observe
    /\ UNCHANGED <<probe, leaderGauge, readyGauge, owedOnStop>>

StopSteps ==
    /\ ClearLeader \/ ClearReady
    /\ owedOnStop' = IF elect = "clearing" THEN 2 ELSE owedOnStop
    /\ Observe
    /\ UNCHANGED <<probe, leaderGauge, readyGauge, owed>>

(* A process without leader election sets its gauge before it serves; one  *)
(* that has ended answers nobody.                                          *)
PodSteps ==
    /\ OthersStep \/ PodStep \/ MainStep
    /\ IF proc' = "exited"
       THEN /\ probe' = NoProbe /\ held' = FALSE
            /\ leaderGauge' = FALSE /\ readyGauge' = FALSE
            /\ owed' = Nothing /\ owedOnStop' = 0
       ELSE /\ leaderGauge' = IF proc = "boot" /\ proc' = "select"
                              THEN leader' ELSE leaderGauge
            /\ Observe
            /\ UNCHANGED <<probe, readyGauge, owed, owedOnStop>>

ElectorSteps ==
    /\ ElectorStep
    /\ ElectorReturns => owedOnStop = 0
    /\ Observe
    /\ UNCHANGED <<probe, gaugeVars>>

-----------------------------------------------------------------------------
(* Metrics.SetLeader and SetPublicReady.                                   *)

SetGauge ==
    /\ owed # Nothing
    /\ owed' = Nothing
    /\ IF owed.gauge = "leader"
       THEN leaderGauge' = owed.value /\ UNCHANGED readyGauge
       ELSE readyGauge' = owed.value /\ UNCHANGED leaderGauge
    /\ UNCHANGED <<vars, probeVars, owedOnStop>>

ClearGauges ==
    /\ owedOnStop > 0
    /\ owedOnStop' = owedOnStop - 1
    /\ IF owedOnStop = 2
       THEN leaderGauge' = FALSE /\ UNCHANGED readyGauge
       ELSE readyGauge' = FALSE /\ UNCHANGED leaderGauge
    /\ UNCHANGED <<vars, probeVars, owed>>

-----------------------------------------------------------------------------
(* /healthz is /readyz; /livez is always answered, and left out.           *)

ProbeTo(from, path, to, ok) ==
    /\ probe.pc = from /\ probe.path = path
    /\ probe' = [probe EXCEPT !.pc = to, !.ok = ok]
    /\ UNCHANGED <<vars, held, gaugeVars>>

(* Fault variant: LeaderReady asks for leadership first. *)
LeaderzOrderSwapped == <<"leader", "public">>

(* The order in which runtimeState.LeaderReady reads the flags. *)
LeaderzOrder == <<"public", "leader">>

(* Fault variant: Ready asks the cache once more instead of the leader. *)
ReadyzOrderNoLeader == <<"jwks", "public">>

(* runtimeState.Ready reads publicReady only where it matters. *)
ReadyzOrder == IF LeaderElection THEN <<"leader", "public">> ELSE <<"public">>

(* Cache.Ready() is the argument of both, and read first; it may be either *)
(* at any time (JWKSCache).                                                *)
ProbeBegins(path, jwksReady) ==
    /\ health = "serving" /\ probe = NoProbe
    /\ LET order == IF path = "leaderz" THEN LeaderzOrder ELSE ReadyzOrder
       IN  probe' = [path |-> path, ok |-> FALSE,
                     pc |-> IF jwksReady THEN order[1] ELSE "answered"]
    /\ held' = (path = "leaderz" /\ LeaderReady)
    /\ UNCHANGED <<vars, gaugeVars>>

Flag(name) == IF name = "leader" THEN (LeaderElection => leader) ELSE publicReady

LeaderzFirst ==
    ProbeTo(LeaderzOrder[1], "leaderz",
            IF Flag(LeaderzOrder[1]) THEN LeaderzOrder[2] ELSE "answered", FALSE)

LeaderzSecond ==
    ProbeTo(LeaderzOrder[2], "leaderz", "answered", Flag(LeaderzOrder[2]))

ReadyzLeader ==
    ProbeTo("leader", "readyz", IF leader THEN "public" ELSE "answered", ~leader)

ReadyzPublic == ProbeTo("public", "readyz", "answered", publicReady)

ProbeReads == LeaderzFirst \/ LeaderzSecond \/ ReadyzLeader \/ ReadyzPublic

ProbeEnds ==
    /\ probe.pc = "answered"
    /\ probe' = NoProbe /\ held' = FALSE
    /\ UNCHANGED <<vars, gaugeVars>>

-----------------------------------------------------------------------------
ProbesNext ==
    \/ RunnerSteps \/ StopSteps \/ PodSteps \/ ElectorSteps
    \/ SetGauge \/ ClearGauges
    \/ (\E path \in {"readyz", "leaderz"}, jwksReady \in BOOLEAN :
            ProbeBegins(path, jwksReady))
    \/ ProbeReads \/ ProbeEnds

(* The goroutines of BridgeProcess, and the rest of their callbacks. *)
ProbesSpec ==
    /\ ProbesInit /\ [][ProbesNext]_probesVars
    /\ Fairness
    /\ WF_probesVars(SetGauge) /\ WF_probesVars(ClearGauges)

-----------------------------------------------------------------------------
(* Properties.                                                             *)

(* A probe that /leaderz answers with 200 was true: there was one instant  *)
(* of it at which the pod was both leader and serving, although the two    *)
(* flags were read apart, and a runner that has lost its leadership may    *)
(* announce itself once more.                                              *)
LeaderzAnswersTrue ==
    (probe.path = "leaderz" /\ probe.pc = "answered" /\ probe.ok) => held

(* A gauge that a lost race between the runner's callback and              *)
(* OnStoppedLeading has left wrong is put right, by the runner's next      *)
(* announcement or by the end of the process.                              *)
GaugesConverge == []<>(leaderGauge = leader /\ readyGauge = publicReady)
=============================================================================
