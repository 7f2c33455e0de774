------------------------- MODULE FunnelRunnerProofs -------------------------
(***************************************************************************)
(* Proofs, for every set of instances and every backoff, of the safety     *)
(* properties of FunnelRunner and of its refinement of PublicEndpoint.     *)
(*                                                                         *)
(* None of the properties is inductive as it stands: that a node serves    *)
(* only when verified depends on what `verified` says of the server Run    *)
(* holds at that moment, and that depends on which points of Run hold a    *)
(* server, and a node, at all.  IInv says so.                              *)
(***************************************************************************)
EXTENDS FunnelRunner, TLAPS

(* Points of Run at which the HTTP server exists. *)
Serving == {"announce", "select", "shutdown", "drain", "await"}

(* Which points of Run hold a server, and which a node. *)
HeldServer ==
    /\ up \subseteq {server}
    /\ pc \notin {"top", "exit", "done"} => server \in Nodes
    /\ pc = "done" => server = NoNode
    /\ pc \in {"poll", "wait", "verify", "serve", "listen"} \cup Serving
          => server \in up

(* Only a node that exists has a backend state. *)
NodeAnswers ==
    /\ \A n \in Nodes : backend[n] # "" => n \in up
    /\ (pc = "probed" /\ state = "Running") => server \in up

(* What has been checked of it. *)
CheckedServer ==
    /\ server \in hostOK => server \in up
    /\ (verified /\ server # NoNode) => server \in hostOK
    /\ pc \in {"serve", "listen"} \cup Serving => server \in hostOK

(* Where the HTTP server, readiness and requests can be alive. *)
ServerAlive ==
    /\ listener # "off" => pc \in Serving
    /\ pc \in {"announce", "select", "shutdown"} => listener \in {"serving", "failed"}
    /\ pc \in {"drain", "await"} => listener \in {"failed", "closed"}
    /\ publicReady => pc = "select"

(* Why a request may still be alive after serveOnce. *)
RequestAlive ==
    /\ inflight => pc \in Serving \cup {"backoff", "close"}
    /\ (inflight /\ pc = "backoff") => restart = "serve_failure"
    /\ (inflight /\ pc = "await") => drain = "timeout"
    /\ (inflight /\ pc = "close") => (drain = "timeout" \/ restart = "serve_failure")

(* Run sets out to return nil only when it is cancelled. *)
ExitCancelled == pc = "exit" => cancelled

IInv ==
    /\ TypeOK /\ HeldServer /\ NodeAnswers /\ CheckedServer
    /\ ServerAlive /\ RequestAlive /\ ExitCancelled

(* The names of the backend states, so that States stays folded. *)
LEMMA StateNames ==
    /\ "" \in States /\ "Starting" \in States /\ "NeedsLogin" \in States
    /\ "Running" \in States /\ "Stopped" \in States
  BY DEF States

(* backoffState.sleep never stores a delay above the cap. *)
LEMMA BackoffNext == \A b \in 0..BackoffMax : NextBackoff(b) \in 0..BackoffMax
  BY BackoffAssumption DEF NextBackoff

(* reset stores a delay in range. *)
LEMMA BackoffZero == 0 \in 0..BackoffMax
  BY BackoffAssumption


-----------------------------------------------------------------------------
(* Each part of IInv is preserved; one step per action or kind of action.  *)

(* The loop variables keep their types: a sleep never passes the cap. *)
LEMMA LoopTypeStep == IInv /\ [Next]_vars => LoopTypeOK'
<1> SUFFICES ASSUME IInv, [Next]_vars PROVE LoopTypeOK'
  OBVIOUS
<1> USE BackoffNext, StateNames DEF IInv, TypeOK, LoopTypeOK, HeldServer, PCs,
        Serving, loopVars, nodeVars, serveVars
<1>1. CASE Cancel
  BY <1>1 DEF Cancel
<1>2. CASE LoopExit \/ PollError \/ PollTick \/ ProbedCancelled \/
            DecideReauth \/ Wake
  BY <1>2 DEF LoopExit, Goto, Step, PollError, PollTick, ProbedCancelled,
         DecideReauth, Wake
<1>3. CASE EnsureServer
  BY <1>3 DEF EnsureServer, Step, Factory
<1>4. CASE StartOk \/ StartFail
  BY <1>4 DEF StartOk, Step, BuildNode, StartFail
<1>5. CASE Poll
  <2>1. backend[server] \in States
    BY <1>5 DEF NodeTypeOK, Poll, Step, PollSettles
  <2> QED
    BY <1>5, <2>1 DEF Poll, Step, PollSettles
<1>6. CASE ProbeAfterStartErr
  <2>1. backend[server] \in States
    BY <1>6 DEF NodeTypeOK, ProbeAfterStartErr, Step
  <2> QED
    BY <1>6, <2>1 DEF ProbeAfterStartErr, Step
<1>7. CASE PollCancelled \/ PollTimeout
  BY <1>7 DEF PollCancelled, PollGivesUp, Step, PollTimeout
<1>8. CASE DecideRetry \/ DecideServe \/ MintFail
  <2>1. NextBackoff(backoff) \in 0..BackoffMax
    BY BackoffNext
  <2> QED
    BY <1>8, <2>1, BackoffZero DEF DecideRetry, DecideServe, MintFail, Step
<1>9. CASE MintOk
  <2>1. server' \in Nodes /\ verified' = FALSE
    BY <1>9 DEF MintOk, Factory
  <2> QED
    BY <1>9, <2>1, BackoffZero DEF MintOk, Step
<1>10. CASE VerifyOk \/ VerifyErr \/ VerifyMismatch
  BY <1>10 DEF VerifyOk, Step, VerifyErr, ServeStepFails, VerifyMismatch
<1>11. CASE BeginServe \/ ListenOk \/ ListenFail \/ Announce
  BY <1>11 DEF BeginServe, Step, ListenOk, ListenFail, ServeStepFails,
         Announce
<1>12. CASE SelectCancelled \/ SelectFlipped \/ SelectServeErr
  BY <1>12 DEF SelectCancelled, Step, SelectFlipped, SelectServeErr,
         ServeStepFails
<1>13. CASE Shutdown \/ ShutdownEnds \/ AwaitServe
  BY <1>13 DEF Shutdown, Step, ShutdownEnds, AwaitServe
<1>14. CASE CloseServer
  BY <1>14 DEF CloseServer, Step, CloseNode
<1>15. CASE Exit
  BY <1>15 DEF Exit, Step, CloseNode
<1>16. CASE ServeFails \/ Request \/ WatchSees \/ WatchCancelled
  BY <1>16 DEF ServeFails, Request, WatchSees, WatchCancelled
<1>17. ASSUME NEW n \in Nodes,
             \/ NodeRunning(n) \/ NodeLoginRequired(n) \/ NodeStopped(n)
             \/ NodeResumed(n) \/ KeyRejected(n)
      PROVE  LoopTypeOK'
  <2>1. UNCHANGED <<pc, cancelled, loopVars>>
    BY <1>17 DEF NodeRunning, NodeLoginRequired, NodeStopped, NodeResumed, KeyRejected,
              NodeMoves
  <2> QED
    BY <2>1
<1>18. CASE IdentityRevoked \/ UNCHANGED vars
  BY <1>18 DEF IdentityRevoked, vars
<1> QED
  BY <1>1, <1>2, <1>3, <1>4, <1>5, <1>6, <1>7, <1>8, <1>9, <1>10, <1>11,
     <1>12, <1>13, <1>14, <1>15, <1>16, <1>17, <1>18 DEF Next, RunnerStep,
     SideStep, NodeStep, Terminated

(* The node variables keep their types: only a held server is built. *)
LEMMA NodeTypeStep == IInv /\ [Next]_vars => NodeTypeOK'
<1> SUFFICES ASSUME IInv, [Next]_vars PROVE NodeTypeOK'
  OBVIOUS
<1> USE StateNames DEF IInv, TypeOK, NodeTypeOK, HeldServer, Serving,
        loopVars, nodeVars, serveVars
<1>1. CASE Cancel
  BY <1>1 DEF Cancel
<1>2. CASE LoopExit \/ PollError \/ PollTick \/ ProbedCancelled \/
            DecideReauth \/ Wake
  BY <1>2 DEF LoopExit, Goto, Step, PollError, PollTick, ProbedCancelled,
         DecideReauth, Wake
<1>3. CASE EnsureServer
  BY <1>3 DEF EnsureServer, Step, Factory
<1>4. CASE StartOk \/ StartFail
  BY <1>4 DEF StartOk, Step, BuildNode, StartFail
<1>5. CASE Poll
  BY <1>5 DEF Poll, Step, PollSettles
<1>6. CASE ProbeAfterStartErr
  BY <1>6 DEF ProbeAfterStartErr, Step
<1>7. CASE PollCancelled \/ PollTimeout
  BY <1>7 DEF PollCancelled, PollGivesUp, Step, PollTimeout
<1>8. CASE DecideRetry \/ DecideServe \/ MintFail
  BY <1>8 DEF DecideRetry, Step, ActionReauth, ActionRetry, DecideServe,
         ActionServe, MintFail
<1>9. CASE MintOk
  BY <1>9 DEF MintOk, Step, CloseNode, Factory
<1>10. CASE VerifyOk \/ VerifyErr \/ VerifyMismatch
  BY <1>10 DEF VerifyOk, Step, VerifyErr, ServeStepFails, VerifyMismatch
<1>11. CASE BeginServe \/ ListenOk \/ ListenFail \/ Announce
  BY <1>11 DEF BeginServe, Step, ListenOk, ListenFail, ServeStepFails,
         Announce
<1>12. CASE SelectCancelled \/ SelectFlipped \/ SelectServeErr
  BY <1>12 DEF SelectCancelled, Step, SelectFlipped, SelectServeErr,
         ServeStepFails
<1>13. CASE Shutdown \/ ShutdownEnds \/ AwaitServe
  BY <1>13 DEF Shutdown, Step, ShutdownEnds, AwaitServe
<1>14. CASE CloseServer
  BY <1>14 DEF CloseServer, Step, CloseNode
<1>15. CASE Exit
  BY <1>15 DEF Exit, Step, CloseNode
<1>16. CASE ServeFails \/ Request \/ WatchSees \/ WatchCancelled
  BY <1>16 DEF ServeFails, Request, WatchSees, WatchCancelled
<1>17. ASSUME NEW n \in Nodes,
             \/ NodeRunning(n) \/ NodeLoginRequired(n) \/ NodeStopped(n)
             \/ NodeResumed(n) \/ KeyRejected(n)
      PROVE  NodeTypeOK'
  BY <1>17 DEF NodeRunning, NodeLoginRequired, NodeStopped, NodeResumed, KeyRejected,
         NodeMoves
<1>18. CASE IdentityRevoked \/ UNCHANGED vars
  BY <1>18 DEF IdentityRevoked, vars
<1> QED
  BY <1>1, <1>2, <1>3, <1>4, <1>5, <1>6, <1>7, <1>8, <1>9, <1>10, <1>11,
     <1>12, <1>13, <1>14, <1>15, <1>16, <1>17, <1>18 DEF Next, RunnerStep,
     SideStep, NodeStep, Terminated

(* The variables of the serve cycle keep their types. *)
LEMMA ServeTypeStep == IInv /\ [Next]_vars => ServeTypeOK'
<1> SUFFICES ASSUME IInv, [Next]_vars PROVE ServeTypeOK'
  OBVIOUS
<1> USE DEF IInv, TypeOK, ServeTypeOK, Serving, loopVars, nodeVars, serveVars
<1>1. CASE Cancel
  BY <1>1 DEF Cancel
<1>2. CASE LoopExit \/ PollError \/ PollTick \/ ProbedCancelled \/
            DecideReauth \/ Wake
  BY <1>2 DEF LoopExit, Goto, Step, PollError, PollTick, ProbedCancelled,
         DecideReauth, Wake
<1>3. CASE EnsureServer
  BY <1>3 DEF EnsureServer, Step, Factory
<1>4. CASE StartOk \/ StartFail
  BY <1>4 DEF StartOk, Step, BuildNode, StartFail
<1>5. CASE Poll
  BY <1>5 DEF Poll, Step, PollSettles
<1>6. CASE ProbeAfterStartErr
  BY <1>6 DEF ProbeAfterStartErr, Step
<1>7. CASE PollCancelled \/ PollTimeout
  BY <1>7 DEF PollCancelled, PollGivesUp, Step, PollTimeout
<1>8. CASE DecideRetry \/ DecideServe \/ MintFail
  BY <1>8 DEF DecideRetry, Step, ActionReauth, ActionRetry, DecideServe,
         ActionServe, MintFail
<1>9. CASE MintOk
  BY <1>9 DEF MintOk, Step, CloseNode, Factory
<1>10. CASE VerifyOk \/ VerifyErr \/ VerifyMismatch
  BY <1>10 DEF VerifyOk, Step, VerifyErr, ServeStepFails, VerifyMismatch
<1>11. CASE BeginServe \/ ListenOk \/ ListenFail \/ Announce
  BY <1>11 DEF BeginServe, Step, ListenOk, ListenFail, ServeStepFails,
         Announce
<1>12. CASE SelectCancelled \/ SelectFlipped \/ SelectServeErr
  BY <1>12 DEF SelectCancelled, Step, SelectFlipped, SelectServeErr,
         ServeStepFails
<1>13. CASE Shutdown \/ ShutdownEnds \/ AwaitServe
  BY <1>13 DEF Shutdown, Step, ShutdownEnds, AwaitServe
<1>14. CASE CloseServer
  BY <1>14 DEF CloseServer, Step, CloseNode
<1>15. CASE Exit
  BY <1>15 DEF Exit, Step, CloseNode
<1>16. CASE ServeFails \/ Request \/ WatchSees \/ WatchCancelled
  BY <1>16 DEF ServeFails, Request, WatchSees, WatchCancelled
<1>17. ASSUME NEW n \in Nodes,
             \/ NodeRunning(n) \/ NodeLoginRequired(n) \/ NodeStopped(n)
             \/ NodeResumed(n) \/ KeyRejected(n)
      PROVE  ServeTypeOK'
  BY <1>17 DEF NodeRunning, NodeLoginRequired, NodeStopped, NodeResumed, KeyRejected,
         NodeMoves
<1>18. CASE IdentityRevoked \/ UNCHANGED vars
  BY <1>18 DEF IdentityRevoked, vars
<1> QED
  BY <1>1, <1>2, <1>3, <1>4, <1>5, <1>6, <1>7, <1>8, <1>9, <1>10, <1>11,
     <1>12, <1>13, <1>14, <1>15, <1>16, <1>17, <1>18 DEF Next, RunnerStep,
     SideStep, NodeStep, Terminated

(* Run replaces its server only after closing it. *)
LEMMA HeldStep == IInv /\ [Next]_vars => HeldServer'
<1> SUFFICES ASSUME IInv, [Next]_vars PROVE HeldServer'
  OBVIOUS
<1> USE NodesAssumption DEF IInv, HeldServer, TypeOK, NodeTypeOK, NodeAnswers,
        Serving, loopVars, nodeVars, serveVars
<1>1. CASE Cancel
  BY <1>1 DEF Cancel
<1>2. CASE LoopExit \/ PollError \/ PollTick \/ ProbedCancelled \/
            DecideReauth \/ Wake
  BY <1>2 DEF LoopExit, Goto, Step, PollError, PollTick, ProbedCancelled,
         DecideReauth, Wake
<1>3. CASE EnsureServer
  <2>1. CASE server # NoNode
    <3>1. UNCHANGED <<server, verified, hostOK>>
      BY <1>3, <2>1 DEF EnsureServer
    <3>2. pc' = "start" /\ up' = up
      BY <1>3 DEF EnsureServer, Step
    <3>3. server \in Nodes
      BY <2>1 DEF LoopTypeOK
    <3> QED
      BY <3>1, <3>2, <3>3
  <2>2. CASE server = NoNode
    <3>1. up = {}
      BY <2>2
    <3>2. PICK n \in Nodes : server' = n
      BY <1>3, <2>2 DEF EnsureServer, Factory
    <3> QED
      BY <1>3, <3>1, <3>2 DEF EnsureServer, Step
  <2> QED
    BY <2>1, <2>2
<1>4. CASE StartOk \/ StartFail
  BY <1>4 DEF StartOk, Step, BuildNode, StartFail
<1>5. CASE Poll
  BY <1>5 DEF Poll, Step, PollSettles
<1>6. CASE ProbeAfterStartErr
  BY <1>6 DEF ProbeAfterStartErr, Step
<1>7. CASE PollCancelled \/ PollTimeout
  BY <1>7 DEF PollCancelled, PollGivesUp, Step, PollTimeout
<1>8. CASE DecideRetry \/ DecideServe \/ MintFail
  BY <1>8 DEF DecideRetry, Step, ActionReauth, ActionRetry, DecideServe,
         ActionServe, MintFail
<1>9. CASE MintOk
  BY <1>9 DEF MintOk, Step, CloseNode, Factory
<1>10. CASE VerifyOk \/ VerifyErr \/ VerifyMismatch
  BY <1>10 DEF VerifyOk, Step, VerifyErr, ServeStepFails, VerifyMismatch
<1>11. CASE BeginServe \/ ListenOk \/ ListenFail \/ Announce
  BY <1>11 DEF BeginServe, Step, ListenOk, ListenFail, ServeStepFails,
         Announce
<1>12. CASE SelectCancelled \/ SelectFlipped \/ SelectServeErr
  BY <1>12 DEF SelectCancelled, Step, SelectFlipped, SelectServeErr,
         ServeStepFails
<1>13. CASE Shutdown \/ ShutdownEnds \/ AwaitServe
  BY <1>13 DEF Shutdown, Step, ShutdownEnds, AwaitServe
<1>14. CASE CloseServer
  BY <1>14 DEF CloseServer, Step, CloseNode
<1>15. CASE Exit
  BY <1>15 DEF Exit, Step, CloseNode
<1>16. CASE ServeFails \/ Request \/ WatchSees \/ WatchCancelled
  BY <1>16 DEF ServeFails, Request, WatchSees, WatchCancelled
<1>17. ASSUME NEW n \in Nodes,
             \/ NodeRunning(n) \/ NodeLoginRequired(n) \/ NodeStopped(n)
             \/ NodeResumed(n) \/ KeyRejected(n)
      PROVE  HeldServer'
  BY <1>17 DEF NodeRunning, NodeLoginRequired, NodeStopped, NodeResumed, KeyRejected,
         NodeMoves
<1>18. CASE IdentityRevoked \/ UNCHANGED vars
  BY <1>18 DEF IdentityRevoked, vars
<1> QED
  BY <1>1, <1>2, <1>3, <1>4, <1>5, <1>6, <1>7, <1>8, <1>9, <1>10, <1>11,
     <1>12, <1>13, <1>14, <1>15, <1>16, <1>17, <1>18 DEF Next, RunnerStep,
     SideStep, NodeStep, Terminated

(* A node is Running only if it exists. *)
LEMMA AnswersStep == IInv /\ [Next]_vars => NodeAnswers'
<1> SUFFICES ASSUME IInv, [Next]_vars PROVE NodeAnswers'
  OBVIOUS
<1> USE NodesAssumption DEF IInv, TypeOK, NodeTypeOK, HeldServer, NodeAnswers,
        Serving, loopVars, nodeVars, serveVars
<1>1. CASE Cancel
  BY <1>1 DEF Cancel
<1>2. CASE LoopExit \/ PollError \/ PollTick \/ ProbedCancelled \/
            DecideReauth \/ Wake
  BY <1>2 DEF LoopExit, Goto, Step, PollError, PollTick, ProbedCancelled,
         DecideReauth, Wake
<1>3. CASE EnsureServer
  BY <1>3 DEF EnsureServer, Step, Factory
<1>4. CASE StartOk \/ StartFail
  BY <1>4 DEF StartOk, Step, BuildNode, StartFail
<1>5. CASE Poll
  BY <1>5 DEF Poll, Step, PollSettles
<1>6. CASE ProbeAfterStartErr
  BY <1>6 DEF ProbeAfterStartErr, Step
<1>7. CASE PollCancelled \/ PollTimeout
  BY <1>7 DEF PollCancelled, PollGivesUp, Step, PollTimeout
<1>8. CASE DecideRetry \/ DecideServe \/ MintFail
  BY <1>8 DEF DecideRetry, Step, ActionReauth, ActionRetry, DecideServe,
         ActionServe, MintFail
<1>9. CASE MintOk
  BY <1>9 DEF MintOk, Step, CloseNode, Factory
<1>10. CASE VerifyOk \/ VerifyErr \/ VerifyMismatch
  BY <1>10 DEF VerifyOk, Step, VerifyErr, ServeStepFails, VerifyMismatch
<1>11. CASE BeginServe \/ ListenOk \/ ListenFail \/ Announce
  BY <1>11 DEF BeginServe, Step, ListenOk, ListenFail, ServeStepFails,
         Announce
<1>12. CASE SelectCancelled \/ SelectFlipped \/ SelectServeErr
  BY <1>12 DEF SelectCancelled, Step, SelectFlipped, SelectServeErr,
         ServeStepFails
<1>13. CASE Shutdown \/ ShutdownEnds \/ AwaitServe
  BY <1>13 DEF Shutdown, Step, ShutdownEnds, AwaitServe
<1>14. CASE CloseServer
  BY <1>14 DEF CloseServer, Step, CloseNode
<1>15. CASE Exit
  BY <1>15 DEF Exit, Step, CloseNode
<1>16. CASE ServeFails \/ Request \/ WatchSees \/ WatchCancelled
  BY <1>16 DEF ServeFails, Request, WatchSees, WatchCancelled
<1>17. ASSUME NEW n \in Nodes,
             \/ NodeRunning(n) \/ NodeLoginRequired(n) \/ NodeStopped(n)
             \/ NodeResumed(n) \/ KeyRejected(n)
      PROVE  NodeAnswers'
  BY <1>17 DEF NodeRunning, NodeLoginRequired, NodeStopped, NodeResumed, KeyRejected,
         NodeMoves
<1>18. CASE IdentityRevoked \/ UNCHANGED vars
  BY <1>18 DEF IdentityRevoked, vars
<1> QED
  BY <1>1, <1>2, <1>3, <1>4, <1>5, <1>6, <1>7, <1>8, <1>9, <1>10, <1>11,
     <1>12, <1>13, <1>14, <1>15, <1>16, <1>17, <1>18 DEF Next, RunnerStep,
     SideStep, NodeStep, Terminated

(* A fresh server is unchecked, and verified says nothing of another. *)
LEMMA CheckedStep == IInv /\ [Next]_vars => CheckedServer'
<1> SUFFICES ASSUME IInv, [Next]_vars PROVE CheckedServer'
  OBVIOUS
<1> USE NodesAssumption DEF IInv, TypeOK, LoopTypeOK, NodeTypeOK, HeldServer,
        CheckedServer, Serving, loopVars, nodeVars, serveVars
<1>1. CASE Cancel
  BY <1>1 DEF Cancel
<1>2. CASE LoopExit \/ PollError \/ PollTick \/ ProbedCancelled \/
            DecideReauth \/ Wake
  BY <1>2 DEF LoopExit, Goto, Step, PollError, PollTick, ProbedCancelled,
         DecideReauth, Wake
<1>3. CASE EnsureServer
  <2>1. CASE server # NoNode
    <3>1. UNCHANGED <<server, verified, hostOK>>
      BY <1>3, <2>1 DEF EnsureServer
    <3>2. pc' = "start" /\ up' = up
      BY <1>3 DEF EnsureServer, Step
    <3>3. server \in Nodes
      BY <2>1 DEF LoopTypeOK
    <3> QED
      BY <3>1, <3>2, <3>3
  <2>2. CASE server = NoNode
    <3>1. up = {}
      BY <2>2
    <3>2. PICK n \in Nodes : server' = n /\ verified' = FALSE /\ hostOK' = hostOK \ {n}
      BY <1>3, <2>2 DEF EnsureServer, Factory
    <3> QED
      BY <1>3, <3>1, <3>2 DEF EnsureServer, Step
  <2> QED
    BY <2>1, <2>2
<1>4. CASE StartOk \/ StartFail
  BY <1>4 DEF StartOk, Step, BuildNode, StartFail
<1>5. CASE Poll
  BY <1>5 DEF Poll, Step, PollSettles
<1>6. CASE ProbeAfterStartErr
  BY <1>6 DEF ProbeAfterStartErr, Step
<1>7. CASE PollCancelled \/ PollTimeout
  BY <1>7 DEF PollCancelled, PollGivesUp, Step, PollTimeout
<1>8. CASE DecideRetry \/ DecideServe \/ MintFail
  BY <1>8 DEF DecideRetry, Step, ActionReauth, ActionRetry, DecideServe,
         ActionServe, MintFail
<1>9. CASE MintOk
  BY <1>9 DEF MintOk, Step, CloseNode, Factory
<1>10. CASE VerifyOk \/ VerifyErr \/ VerifyMismatch
  BY <1>10 DEF VerifyOk, Step, VerifyErr, ServeStepFails, VerifyMismatch
<1>11. CASE BeginServe \/ ListenOk \/ ListenFail \/ Announce
  BY <1>11 DEF BeginServe, Step, ListenOk, ListenFail, ServeStepFails,
         Announce
<1>12. CASE SelectCancelled \/ SelectFlipped \/ SelectServeErr
  BY <1>12 DEF SelectCancelled, Step, SelectFlipped, SelectServeErr,
         ServeStepFails
<1>13. CASE Shutdown \/ ShutdownEnds \/ AwaitServe
  BY <1>13 DEF Shutdown, Step, ShutdownEnds, AwaitServe
<1>14. CASE CloseServer
  BY <1>14 DEF CloseServer, Step, CloseNode
<1>15. CASE Exit
  BY <1>15 DEF Exit, Step, CloseNode
<1>16. CASE ServeFails \/ Request \/ WatchSees \/ WatchCancelled
  BY <1>16 DEF ServeFails, Request, WatchSees, WatchCancelled
<1>17. ASSUME NEW n \in Nodes,
             \/ NodeRunning(n) \/ NodeLoginRequired(n) \/ NodeStopped(n)
             \/ NodeResumed(n) \/ KeyRejected(n)
      PROVE  CheckedServer'
  BY <1>17 DEF NodeRunning, NodeLoginRequired, NodeStopped, NodeResumed, KeyRejected,
         NodeMoves
<1>18. CASE IdentityRevoked \/ UNCHANGED vars
  BY <1>18 DEF IdentityRevoked, vars
<1> QED
  BY <1>1, <1>2, <1>3, <1>4, <1>5, <1>6, <1>7, <1>8, <1>9, <1>10, <1>11,
     <1>12, <1>13, <1>14, <1>15, <1>16, <1>17, <1>18 DEF Next, RunnerStep,
     SideStep, NodeStep, Terminated

(* Readiness is withdrawn on the step that leaves the select. *)
LEMMA AliveStep == IInv /\ [Next]_vars => ServerAlive'
<1> SUFFICES ASSUME IInv, [Next]_vars PROVE ServerAlive'
  OBVIOUS
<1> USE DEF IInv, ServerAlive, Serving, loopVars, nodeVars, serveVars
<1>1. CASE Cancel
  BY <1>1 DEF Cancel
<1>2. CASE LoopExit \/ PollError \/ PollTick \/ ProbedCancelled \/
            DecideReauth \/ Wake
  BY <1>2 DEF LoopExit, Goto, Step, PollError, PollTick, ProbedCancelled,
         DecideReauth, Wake
<1>3. CASE EnsureServer
  BY <1>3 DEF EnsureServer, Step, Factory
<1>4. CASE StartOk \/ StartFail
  BY <1>4 DEF StartOk, Step, BuildNode, StartFail
<1>5. CASE Poll
  BY <1>5 DEF Poll, Step, PollSettles
<1>6. CASE ProbeAfterStartErr
  BY <1>6 DEF ProbeAfterStartErr, Step
<1>7. CASE PollCancelled \/ PollTimeout
  BY <1>7 DEF PollCancelled, PollGivesUp, Step, PollTimeout
<1>8. CASE DecideRetry \/ DecideServe \/ MintFail
  BY <1>8 DEF DecideRetry, Step, ActionReauth, ActionRetry, DecideServe,
         ActionServe, MintFail
<1>9. CASE MintOk
  BY <1>9 DEF MintOk, Step, CloseNode, Factory
<1>10. CASE VerifyOk \/ VerifyErr \/ VerifyMismatch
  BY <1>10 DEF VerifyOk, Step, VerifyErr, ServeStepFails, VerifyMismatch
<1>11. CASE BeginServe \/ ListenOk \/ ListenFail \/ Announce
  BY <1>11 DEF BeginServe, Step, ListenOk, ListenFail, ServeStepFails,
         Announce
<1>12. CASE SelectCancelled \/ SelectFlipped \/ SelectServeErr
  BY <1>12 DEF SelectCancelled, Step, SelectFlipped, SelectServeErr,
         ServeStepFails
<1>13. CASE Shutdown \/ ShutdownEnds \/ AwaitServe
  BY <1>13 DEF Shutdown, Step, ShutdownEnds, AwaitServe
<1>14. CASE CloseServer
  BY <1>14 DEF CloseServer, Step, CloseNode
<1>15. CASE Exit
  BY <1>15 DEF Exit, Step, CloseNode
<1>16. CASE ServeFails \/ Request \/ WatchSees \/ WatchCancelled
  BY <1>16 DEF ServeFails, Request, WatchSees, WatchCancelled
<1>17. ASSUME NEW n \in Nodes,
             \/ NodeRunning(n) \/ NodeLoginRequired(n) \/ NodeStopped(n)
             \/ NodeResumed(n) \/ KeyRejected(n)
      PROVE  ServerAlive'
  BY <1>17 DEF NodeRunning, NodeLoginRequired, NodeStopped, NodeResumed, KeyRejected,
         NodeMoves
<1>18. CASE IdentityRevoked \/ UNCHANGED vars
  BY <1>18 DEF IdentityRevoked, vars
<1> QED
  BY <1>1, <1>2, <1>3, <1>4, <1>5, <1>6, <1>7, <1>8, <1>9, <1>10, <1>11,
     <1>12, <1>13, <1>14, <1>15, <1>16, <1>17, <1>18 DEF Next, RunnerStep,
     SideStep, NodeStep, Terminated

(* A request survives serveOnce only past a timeout or a failure. *)
LEMMA RequestStep == IInv /\ [Next]_vars => RequestAlive'
<1> SUFFICES ASSUME IInv, [Next]_vars PROVE RequestAlive'
  OBVIOUS
<1> USE DEF IInv, ServerAlive, RequestAlive, Serving, loopVars, nodeVars,
        serveVars
<1>1. CASE Cancel
  BY <1>1 DEF Cancel
<1>2. CASE LoopExit \/ PollError \/ PollTick \/ ProbedCancelled \/
            DecideReauth \/ Wake
  BY <1>2 DEF LoopExit, Goto, Step, PollError, PollTick, ProbedCancelled,
         DecideReauth, Wake
<1>3. CASE EnsureServer
  BY <1>3 DEF EnsureServer, Step, Factory
<1>4. CASE StartOk \/ StartFail
  BY <1>4 DEF StartOk, Step, BuildNode, StartFail
<1>5. CASE Poll
  BY <1>5 DEF Poll, Step, PollSettles
<1>6. CASE ProbeAfterStartErr
  BY <1>6 DEF ProbeAfterStartErr, Step
<1>7. CASE PollCancelled \/ PollTimeout
  BY <1>7 DEF PollCancelled, PollGivesUp, Step, PollTimeout
<1>8. CASE DecideRetry \/ DecideServe \/ MintFail
  BY <1>8 DEF DecideRetry, Step, ActionReauth, ActionRetry, DecideServe,
         ActionServe, MintFail
<1>9. CASE MintOk
  BY <1>9 DEF MintOk, Step, CloseNode, Factory
<1>10. CASE VerifyOk \/ VerifyErr \/ VerifyMismatch
  BY <1>10 DEF VerifyOk, Step, VerifyErr, ServeStepFails, VerifyMismatch
<1>11. CASE BeginServe \/ ListenOk \/ ListenFail \/ Announce
  BY <1>11 DEF BeginServe, Step, ListenOk, ListenFail, ServeStepFails,
         Announce
<1>12. CASE SelectCancelled \/ SelectFlipped \/ SelectServeErr
  BY <1>12 DEF SelectCancelled, Step, SelectFlipped, SelectServeErr,
         ServeStepFails
<1>13. CASE Shutdown \/ ShutdownEnds \/ AwaitServe
  BY <1>13 DEF Shutdown, Step, ShutdownEnds, AwaitServe
<1>14. CASE CloseServer
  BY <1>14 DEF CloseServer, Step, CloseNode
<1>15. CASE Exit
  BY <1>15 DEF Exit, Step, CloseNode
<1>16. CASE ServeFails \/ Request \/ WatchSees \/ WatchCancelled
  BY <1>16 DEF ServeFails, Request, WatchSees, WatchCancelled
<1>17. ASSUME NEW n \in Nodes,
             \/ NodeRunning(n) \/ NodeLoginRequired(n) \/ NodeStopped(n)
             \/ NodeResumed(n) \/ KeyRejected(n)
      PROVE  RequestAlive'
  BY <1>17 DEF NodeRunning, NodeLoginRequired, NodeStopped, NodeResumed, KeyRejected,
         NodeMoves
<1>18. CASE IdentityRevoked \/ UNCHANGED vars
  BY <1>18 DEF IdentityRevoked, vars
<1> QED
  BY <1>1, <1>2, <1>3, <1>4, <1>5, <1>6, <1>7, <1>8, <1>9, <1>10, <1>11,
     <1>12, <1>13, <1>14, <1>15, <1>16, <1>17, <1>18 DEF Next, RunnerStep,
     SideStep, NodeStep, Terminated

(* The two ways to pc "exit" have seen ctx done, and it stays done. *)
LEMMA ExitStep == IInv /\ [Next]_vars => ExitCancelled'
<1> SUFFICES ASSUME IInv, [Next]_vars, pc' = "exit" PROVE cancelled'
  BY DEF ExitCancelled
<1>1. CASE pc = "exit"
  <2>1. cancelled
    BY <1>1 DEF IInv, ExitCancelled
  <2>2. ~RunnerStep
    BY <1>1 DEF RunnerStep, LoopExit, Goto, Step, EnsureServer, StartOk,
           StartFail, ProbeAfterStartErr, Poll, PollError, PollTick,
           PollCancelled, PollTimeout, PollGivesUp, ProbedCancelled,
           DecideReauth, DecideRetry, DecideServe, MintOk, MintFail, Wake,
           VerifyOk, VerifyErr, ServeStepFails, VerifyMismatch, BeginServe,
           ListenOk, ListenFail, Announce, SelectCancelled, SelectFlipped,
           SelectServeErr, Shutdown, ShutdownEnds, AwaitServe, CloseServer, Exit
  <2> QED
    BY <2>1, <2>2 DEF Next, Cancel, SideStep, NodeStep, Terminated, vars,
           ServeFails, Request, WatchSees, WatchCancelled, NodeMoves,
           NodeRunning, NodeLoginRequired, NodeStopped, NodeResumed,
           IdentityRevoked, KeyRejected
<1>2. CASE pc # "exit"
  <2>1. LoopExit \/ ProbedCancelled
    BY <1>2 DEF Next, Cancel, SideStep, NodeStep, Terminated, vars,
           ServeFails, Request, WatchSees, WatchCancelled, NodeMoves,
           NodeRunning, NodeLoginRequired, NodeStopped, NodeResumed,
           IdentityRevoked, KeyRejected,
           RunnerStep, Goto, Step, EnsureServer, StartOk,
           StartFail, ProbeAfterStartErr, Poll, PollError, PollTick,
           PollCancelled, PollTimeout, PollGivesUp,
           DecideReauth, DecideRetry, DecideServe, MintOk, MintFail, Wake,
           VerifyOk, VerifyErr, ServeStepFails, VerifyMismatch, BeginServe,
           ListenOk, ListenFail, Announce, SelectCancelled, SelectFlipped,
           SelectServeErr, Shutdown, ShutdownEnds, AwaitServe, CloseServer, Exit
  <2> QED
    BY <2>1 DEF LoopExit, ProbedCancelled, Goto, Step
<1> QED
  BY <1>1, <1>2

(* The parts together. *)
LEMMA InvariantStep == IInv /\ [Next]_vars => IInv'
  BY LoopTypeStep, NodeTypeStep, ServeTypeStep, HeldStep, AnswersStep,
     CheckedStep, AliveStep, RequestStep, ExitStep DEF IInv, TypeOK

-----------------------------------------------------------------------------
(* The inductive invariant holds in every reachable state of Run. *)
THEOREM RunnerInvariant == Spec => []IInv
<1>1. Init => IInv
  <2> SUFFICES ASSUME Init PROVE IInv
    OBVIOUS
  <2> USE DEF Init
  <2>1. LoopTypeOK
    BY StateNames, BackoffZero DEF LoopTypeOK, PCs
  <2>2. NodeTypeOK
    BY StateNames DEF NodeTypeOK
  <2>3. ServeTypeOK
    BY DEF ServeTypeOK
  <2>4. HeldServer /\ NodeAnswers
    BY DEF HeldServer, NodeAnswers, Serving
  <2>5. CheckedServer /\ ServerAlive /\ RequestAlive /\ ExitCancelled
    BY DEF CheckedServer, ServerAlive, RequestAlive, ExitCancelled, Serving
  <2> QED
    BY <2>1, <2>2, <2>3, <2>4, <2>5 DEF IInv, TypeOK
<1>2. IInv /\ [Next]_vars => IInv'
  BY InvariantStep
<1> QED
  BY <1>1, <1>2, PTL DEF Spec

(* Every variable keeps its type; in particular the backoff stays under    *)
(* its cap whatever sequence of sleeps and resets happens.                 *)
THEOREM TypeCorrect == Spec => []TypeOK
<1>1. IInv => TypeOK
  BY DEF IInv
<1> QED
  BY <1>1, RunnerInvariant, PTL

(* However the loop goes round, the process never holds two tsnet nodes,   *)
(* and none after Run has returned.                                        *)
THEOREM NodesNeverLeak == Spec => []NoNodeLeaks
<1>1. IInv => NoNodeLeaks
  BY NodesAssumption DEF IInv, HeldServer, TypeOK, NodeTypeOK, NoNodeLeaks
<1> QED
  BY <1>1, RunnerInvariant, PTL

(* Connections are accepted only on a node that passed verifyIssuerHost    *)
(* itself.                                                                 *)
THEOREM ServesOnlyVerified == Spec => []VerifiedBeforeServing
<1>1. IInv => VerifiedBeforeServing
  BY DEF IInv, HeldServer, CheckedServer, ServerAlive, Serving, VerifiedBeforeServing
<1> QED
  BY <1>1, RunnerInvariant, PTL

(* Readiness is announced only while serveOnce holds a node that passed    *)
(* verifyIssuerHost and still exists.                                      *)
THEOREM ReadinessIsTrue == Spec => []ReadyMeansServing
<1>1. IInv => ReadyMeansServing
  BY DEF IInv, HeldServer, CheckedServer, ServerAlive, Serving, ReadyMeansServing
<1> QED
  BY <1>1, RunnerInvariant, PTL

(* What closes a node under a request. *)
LEMMA DrainedStep ==
    ASSUME IInv, Next, inflight, up' # up
    PROVE  drain = "timeout" \/ restart = "serve_failure"
<1>1. StartOk \/ StartFail \/ MintOk \/ CloseServer \/ Exit
  BY DEF Next, Terminated, RunnerStep, SideStep, NodeStep, vars, loopVars,
         nodeVars, serveVars, Cancel, LoopExit, Goto, EnsureServer,
         ProbeAfterStartErr, Poll, PollError, PollTick, PollCancelled,
         PollTimeout, PollGivesUp, ProbedCancelled, DecideReauth,
         DecideRetry, DecideServe, MintFail, Wake, VerifyOk, VerifyErr,
         ServeStepFails, VerifyMismatch, BeginServe, ListenOk, ListenFail,
         Announce, SelectCancelled, SelectFlipped, SelectServeErr, Shutdown,
         ShutdownEnds, AwaitServe, ServeFails, Request, WatchSees,
         WatchCancelled, NodeMoves, NodeRunning, NodeLoginRequired,
         NodeStopped, NodeResumed, IdentityRevoked, KeyRejected
<1>2. pc \in Serving \cup {"backoff", "close"}
  BY DEF IInv, RequestAlive
<1>3. pc = "close"
  BY <1>1, <1>2 DEF StartOk, StartFail, MintOk, CloseServer, Exit, Step, Serving
<1> QED
  BY <1>3 DEF IInv, RequestAlive

(* A node is closed under a request only after a timed-out Shutdown or a   *)
(* failed listener.                                                        *)
THEOREM NoRequestCutShort == Spec => RequestsDrained
<1>1. IInv /\ [Next]_vars
        => [(inflight /\ up' # up) => (drain = "timeout" \/ restart = "serve_failure")]_vars
  BY DrainedStep
<1> QED
  BY <1>1, RunnerInvariant, PTL DEF Spec, RequestsDrained

-----------------------------------------------------------------------------
(* Refinement.                                                             *)

(* Each step of the runner maps to a step of PublicEndpoint or to none. *)
LEMMA EndpointStep ==
    IInv /\ IInv' /\ [Next]_vars => [Endpoint!Next]_(Endpoint!vars)
<1> SUFFICES ASSUME IInv, IInv', [Next]_vars
             PROVE  [Endpoint!Next]_(Endpoint!vars)
  OBVIOUS
<1> USE NodesAssumption DEF IInv, TypeOK, LoopTypeOK, NodeTypeOK, ServeTypeOK,
        HeldServer, CheckedServer, ServerAlive, Serving, loopVars, nodeVars,
        serveVars, EndpointPhase, InAttempt, Endpoint!Next, Endpoint!vars
<1>1. CASE Cancel
  BY <1>1 DEF Cancel, Endpoint!Cancel
<1>2. CASE PollError \/ PollTick \/ DecideReauth \/ LoopExit
  BY <1>2 DEF Goto, Step, PollError, PollTick, DecideReauth, LoopExit
<1>3. CASE EnsureServer
  <2>1. server \in hostOK <=> server' \in hostOK'
    <3>1. CASE server # NoNode
      BY <1>3, <3>1 DEF EnsureServer
    <3>2. CASE server = NoNode
      <4>1. PICK n \in Nodes : server' = n /\ hostOK' = hostOK \ {n}
        BY <1>3, <3>2 DEF EnsureServer, Factory
      <4> QED
        BY <3>2, <4>1
    <3> QED
      BY <3>1, <3>2
  <2>2. /\ pc = "top" /\ pc' = "start" /\ ~cancelled
        /\ UNCHANGED <<cancelled, up, listener, publicReady>>
    BY <1>3 DEF EnsureServer, Step
  <2>3. listener = "off" /\ ~publicReady
    BY <2>2
  <2>4. server \in hostOK => up # {}
    OBVIOUS
  <2> QED
    BY <2>1, <2>2, <2>3, <2>4 DEF Endpoint!Move, Endpoint!MayMove
<1>4. CASE StartOk \/ StartFail
  <2>1. /\ pc = "start" /\ pc' \in {"poll", "startErr"} /\ up \subseteq up'
        /\ UNCHANGED <<cancelled, listener, publicReady, server, hostOK>>
    BY <1>4 DEF StartOk, Step, BuildNode, StartFail
  <2>2. listener = "off" /\ ~publicReady
    BY <2>1
  <2> QED
    BY <2>1, <2>2 DEF Endpoint!Move, Endpoint!MayMove
<1>5. CASE Poll
  BY <1>5 DEF Poll, Step, PollSettles
<1>6. CASE ProbeAfterStartErr
  BY <1>6 DEF ProbeAfterStartErr, Step
<1>7. CASE PollCancelled \/ PollTimeout
  BY <1>7 DEF PollCancelled, PollGivesUp, Step, PollTimeout
<1>8. CASE DecideRetry \/ DecideServe \/ MintFail
  BY <1>8 DEF DecideRetry, Step, ActionReauth, ActionRetry, DecideServe,
         ActionServe, MintFail
<1>9. CASE MintOk
  <2>1. up' = {}
    BY <1>9 DEF MintOk, CloseNode
  <2>2. server' \notin hostOK'
    BY <1>9 DEF MintOk, Factory
  <2>3. /\ pc = "mint" /\ pc' = "top"
        /\ UNCHANGED <<cancelled, listener, publicReady>>
    BY <1>9 DEF MintOk, Step
  <2>4. listener = "off" /\ ~publicReady
    BY <2>3
  <2> QED
    BY <2>1, <2>2, <2>3, <2>4 DEF Endpoint!Move, Endpoint!MayMove
<1>10. CASE VerifyOk \/ VerifyErr \/ VerifyMismatch
  BY <1>10 DEF VerifyOk, Step, VerifyErr, ServeStepFails, VerifyMismatch,
         Endpoint!Trust
<1>11. CASE BeginServe \/ ListenFail \/ Announce
  BY <1>11 DEF BeginServe, Step, ListenFail, ServeStepFails,
         Announce, Endpoint!Announce
<1>12. CASE ListenOk
  BY <1>12 DEF ListenOk, Step, Endpoint!Move, Endpoint!MayMove
<1>13. CASE SelectCancelled \/ SelectFlipped
  BY <1>13 DEF SelectCancelled, Step, SelectFlipped, Endpoint!Withdraw
<1>14. CASE SelectServeErr
  BY <1>14 DEF SelectServeErr, Step, ServeStepFails, Endpoint!Move, Endpoint!MayMove
<1>15. CASE Shutdown \/ ShutdownEnds \/ AwaitServe
  BY <1>15 DEF Shutdown, Step, ShutdownEnds, AwaitServe, Endpoint!Move, Endpoint!MayMove
<1>16. CASE CloseServer
  <2>1. up' = {}
    BY <1>16 DEF CloseServer, CloseNode
  <2>2. server' \notin hostOK'
    BY <1>16 DEF CloseServer
  <2>3. /\ pc = "close" /\ pc' = (IF result = "mismatch" THEN "done" ELSE "top")
        /\ UNCHANGED <<cancelled, listener, publicReady, result>>
    BY <1>16 DEF CloseServer, Step
  <2>4. listener = "off" /\ ~publicReady
    BY <2>3
  <2> QED
    BY <2>1, <2>2, <2>3, <2>4 DEF Endpoint!Move, Endpoint!MayMove
<1>17. CASE Exit
  <2>1. up' = {}
    BY <1>17 DEF Exit, CloseNode
  <2>2. server' \notin hostOK'
    BY <1>17 DEF Exit
  <2>3. /\ pc = "exit" /\ pc' = "done" /\ result' = "nil"
        /\ UNCHANGED <<cancelled, listener, publicReady>>
    BY <1>17 DEF Exit, Step
  <2>4. listener = "off" /\ ~publicReady /\ cancelled
    BY <2>3 DEF ExitCancelled
  <2> QED
    BY <2>1, <2>2, <2>3, <2>4 DEF Endpoint!Move, Endpoint!MayMove
<1>18. CASE Wake \/ ProbedCancelled
  <2>1. /\ pc \in {"mintBackoff", "backoff", "probed"}
        /\ pc' \in {"top", "close", "exit"}
        /\ UNCHANGED <<cancelled, loopVars, nodeVars, serveVars>>
    BY <1>18 DEF Wake, ProbedCancelled, Goto, Step
  <2>2. listener = "off" /\ ~publicReady
    BY <2>1
  <2> QED
    BY <2>1, <2>2 DEF Endpoint!Move, Endpoint!MayMove
<1>19. CASE ServeFails \/ Request \/ WatchSees \/ WatchCancelled
  BY <1>19 DEF ServeFails, Request, WatchSees, WatchCancelled
<1>20. ASSUME NEW n \in Nodes,
             \/ NodeRunning(n) \/ NodeLoginRequired(n) \/ NodeStopped(n)
             \/ NodeResumed(n) \/ KeyRejected(n)
      PROVE  [Endpoint!Next]_(Endpoint!vars)
  BY <1>20 DEF NodeRunning, NodeLoginRequired, NodeStopped, NodeResumed, KeyRejected,
         NodeMoves
<1>21. CASE IdentityRevoked \/ UNCHANGED vars
  BY <1>21 DEF IdentityRevoked, vars
<1> QED
  BY <1>1, <1>2, <1>3, <1>4, <1>5, <1>6, <1>7, <1>8, <1>9, <1>10, <1>11,
     <1>12, <1>13, <1>14, <1>15, <1>16, <1>17, <1>18, <1>19, <1>20, <1>21
     DEF Next, RunnerStep, SideStep, NodeStep, Terminated

(* Run keeps the safety part of its promise to the process: every behaviour *)
(* of the runner, seen through its phase, trust and readiness, is one of    *)
(* PublicEndpoint's.                                                        *)
THEOREM RunnerImplementsEndpoint == Spec => Endpoint!SafeSpec
<1>1. Init => Endpoint!Init
  BY NodesAssumption DEF Init, EndpointPhase, InAttempt, Endpoint!Init
<1>2. IInv /\ IInv' /\ [Next]_vars => [Endpoint!Next]_(Endpoint!vars)
  BY EndpointStep
<1> QED
  BY <1>1, <1>2, RunnerInvariant, PTL DEF Spec, Endpoint!SafeSpec
=============================================================================
