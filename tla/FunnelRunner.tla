---------------------------- MODULE FunnelRunner ----------------------------
(***************************************************************************)
(* The Tailscale runner: internal/tsrunner/runner.go (Run and everything   *)
(* it calls), the tsnet adapter of tsnet_adapter.go and, as one step that  *)
(* succeeds or fails, the auth-key minter of minter.go.                    *)
(*                                                                         *)
(* Run is one goroutine; pc is the point it has reached.  Beside it run    *)
(* the http.Server's Serve goroutine (listener), the requests it handles   *)
(* (inflight) and the goroutine of watchForLoginNeeded (watcher).  The     *)
(* caller cancels ctx at any moment (cancelled).  The tsnet node itself is *)
(* external: its backend state moves by the Node actions, which allow what *)
(* the runner's code and comments reckon with.                             *)
(***************************************************************************)
EXTENDS Naturals, FiniteSets

CONSTANTS
    Nodes,               \* tsnetServer instances the factory hands out
    NoNode,              \* the nil server
    BackoffBase,         \* backoffBase, runner.go
    BackoffMax,          \* backoffMax, runner.go
    CheckHost            \* Config.ExpectedIssuerHost # ""

ASSUME NodesAssumption == NoNode \notin Nodes
ASSUME BackoffAssumption ==
    /\ BackoffBase \in Nat \ {0}
    /\ BackoffMax \in Nat
    /\ BackoffBase <= BackoffMax
ASSUME FlagAssumption == CheckHost \in BOOLEAN

VARIABLES
    pc,          \* where Run is
    cancelled,   \* ctx.Err() # nil
    server,      \* Run's server variable
    verified,    \* Run's verified variable
    state,       \* the backend state startAndProbe has last read
    startErr,    \* startAndProbe's error is not nil
    backoff,     \* backoffState.current
    result,      \* what Run has returned, or is about to
    up,          \* instances whose r.srv is not nil
    keyed,       \* instances whose r.authKey is not ""
    spent,       \* keyed instances whose key the control plane takes no more
    hostOK,      \* instances that verifyIssuerHost has passed
    backend,     \* BackendState of each instance
    identity,    \* the state Secret holds a node identity that is accepted
    listener,    \* the Funnel listener and the value in the serveErr channel
    inflight,    \* a request is being handled
    drain,       \* how srv.Shutdown ended
    watcher,     \* the goroutine of watchForLoginNeeded
    restart,     \* reason recorded by RecordPublicListenerRestart this cycle
    publicReady  \* last argument of SetPublicReady

loopVars == <<server, verified, state, startErr, backoff, result>>
nodeVars == <<up, keyed, spent, hostOK, backend, identity>>
serveVars == <<listener, inflight, drain, watcher, restart, publicReady>>
vars == <<pc, cancelled, loopVars, nodeVars, serveVars>>

(* The states the code names, and one for each kind it does not: on the    *)
(* way up ("Starting") and out of service ("Stopped").                     *)
States == {"", "Starting", "NeedsLogin", "Running", "Stopped"}
PCs == {"top", "start", "startErr", "poll", "wait", "probed", "mint",
        "mintBackoff", "backoff", "verify", "serve", "listen", "announce",
        "select", "shutdown", "drain", "await", "close", "exit", "done"}

LoopTypeOK ==
    /\ pc \in PCs
    /\ cancelled \in BOOLEAN
    /\ server \in Nodes \cup {NoNode}
    /\ verified \in BOOLEAN
    /\ state \in States
    /\ startErr \in BOOLEAN
    /\ backoff \in 0..BackoffMax
    /\ result \in {"running", "nil", "mismatch"}

NodeTypeOK ==
    /\ up \subseteq Nodes
    /\ keyed \subseteq Nodes
    /\ spent \subseteq keyed
    /\ hostOK \subseteq Nodes
    /\ backend \in [Nodes -> States]
    /\ identity \in BOOLEAN

ServeTypeOK ==
    /\ listener \in {"off", "serving", "failed", "closed"}
    /\ inflight \in BOOLEAN
    /\ drain \in {"no", "done", "timeout"}
    /\ watcher \in {"off", "polling", "closed"}
    /\ restart \in {"none", "needs_login", "serve_failure"}
    /\ publicReady \in BOOLEAN

(* Every variable has its type; the keys that are spent are keys that were *)
(* applied.                                                                *)
TypeOK == LoopTypeOK /\ NodeTypeOK /\ ServeTypeOK

(* The state Secret may or may not hold the identity of an earlier run; a  *)
(* leader that is already deposed calls Run with a ctx that is done.       *)
Init ==
    /\ pc = "top"
    /\ cancelled \in BOOLEAN
    /\ server = NoNode
    /\ verified = FALSE
    /\ state = ""
    /\ startErr = FALSE
    /\ backoff = 0
    /\ result = "running"
    /\ up = {}
    /\ keyed = {}
    /\ spent = {}
    /\ hostOK = {}
    /\ backend = [n \in Nodes |-> ""]
    /\ identity \in BOOLEAN
    /\ listener = "off"
    /\ inflight = FALSE
    /\ drain = "no"
    /\ watcher = "off"
    /\ restart = "none"
    /\ publicReady = FALSE

-----------------------------------------------------------------------------
(* Helpers.                                                                *)

(* Run moves from one point to another; Goto: and does nothing else. *)
Step(from, to) == pc = from /\ pc' = to /\ UNCHANGED cancelled
Goto(from, to) == Step(from, to) /\ UNCHANGED <<loopVars, nodeVars, serveVars>>

(* Fault variant: no cap. *)
NextBackoffUncapped(current) == 2 * (IF current = 0 THEN BackoffBase ELSE current)

(* What backoffState.sleep stores; the sleep itself is the pc value. *)
NextBackoff(current) ==
    LET d == IF current = 0 THEN BackoffBase ELSE current
    IN  IF 2 * d < BackoffMax THEN 2 * d ELSE BackoffMax

(* Fault variant: the node is dropped, not closed. *)
CloseNodeSkipped == UNCHANGED <<up, backend, inflight>>

(* realServer.Close on the server Run holds: every connection ends. *)
CloseNode ==
    /\ up' = up \ {server}
    /\ backend' = [n \in Nodes |-> IF n = server THEN "" ELSE backend[n]]
    /\ inflight' = FALSE

(* Fault variant: the check of an earlier instance is carried over. *)
FactoryKeepsVerified(hasKey) ==
    \E n \in Nodes \ (up \cup {server}) :
        /\ server' = n
        /\ verified' = verified
        /\ keyed' = IF hasKey THEN keyed \cup {n} ELSE keyed \ {n}
        /\ spent' = spent \ {n}
        /\ hostOK' = hostOK \ {n}

(* Fault variant: SetAuthKey is forgotten. *)
FactoryWithoutKey(hasKey) ==
    \E n \in Nodes \ (up \cup {server}) :
        /\ server' = n
        /\ verified' = FALSE
        /\ keyed' = keyed \ {n}
        /\ spent' = spent \ {n}
        /\ hostOK' = hostOK \ {n}

(* A fresh realServer{}, then SetAuthKey if there is a key.  Nothing is    *)
(* carried over from another instance, and nothing is verified.  The ids   *)
(* of instances that are neither held nor up are used again.               *)
Factory(hasKey) ==
    \E n \in Nodes \ (up \cup {server}) :
        /\ server' = n
        /\ verified' = FALSE
        /\ keyed' = IF hasKey THEN keyed \cup {n} ELSE keyed \ {n}
        /\ spent' = spent \ {n}
        /\ hostOK' = hostOK \ {n}

-----------------------------------------------------------------------------
(* Run: the loop.                                                          *)

(* The caller cancels ctx. *)
Cancel ==
    /\ ~cancelled /\ pc # "done"
    /\ cancelled' = TRUE
    /\ UNCHANGED <<pc, loopVars, nodeVars, serveVars>>

LoopExit == cancelled /\ Goto("top", "exit")

EnsureServer ==
    /\ ~cancelled
    /\ Step("top", "start")
    /\ \/ server # NoNode /\ UNCHANGED <<server, verified, keyed, spent, hostOK>>
       \/ server = NoNode /\ Factory(FALSE)
    /\ state' = "" /\ startErr' = FALSE
    /\ UNCHANGED <<backoff, result, up, backend, identity, serveVars>>

(* Start builds the tsnet.Server unless an earlier Start of this instance  *)
(* already did; a second Start of a running node changes nothing.          *)
BuildNode ==
    /\ up' = up \cup {server}
    /\ backend' = IF server \in up THEN backend
                  ELSE [backend EXCEPT ![server] = "Starting"]

StartOk ==
    /\ ~cancelled
    /\ Step("start", "poll")
    /\ BuildNode
    /\ UNCHANGED <<loopVars, keyed, spent, hostOK, identity, serveVars>>

(* kubestore.New fails, and there is no node; or the context is done or    *)
(* tsnet fails, and there is one.                                          *)
StartFail ==
    /\ Step("start", "startErr")
    /\ BuildNode \/ UNCHANGED <<up, backend>>
    /\ startErr' = TRUE
    /\ UNCHANGED <<server, verified, state, backoff, result,
                   keyed, spent, hostOK, identity, serveVars>>

(* The error path of startAndProbe still asks for the state; the error of  *)
(* that question is dropped.                                               *)
ProbeAfterStartErr ==
    /\ Step("startErr", "probed")
    /\ state' \in {"", backend[server]}
    /\ UNCHANGED <<server, verified, startErr, backoff, result, nodeVars, serveVars>>

(* One turn of the polling loop: Running ends it, and so does NeedsLogin   *)
(* on an instance without an auth key.                                     *)
PollSettles(s) == s = "Running" \/ (s = "NeedsLogin" /\ server \notin keyed)

Poll ==
    /\ Step("poll", IF PollSettles(backend[server]) THEN "probed" ELSE "wait")
    /\ state' = IF backend[server] = "" THEN state ELSE backend[server]
    /\ UNCHANGED <<server, verified, startErr, backoff, result, nodeVars, serveVars>>

PollError == Goto("poll", "wait")

(* The three cases of the select; Go picks any that is ready. *)
PollTick == Goto("wait", "poll")

PollGivesUp ==
    /\ Step("wait", "probed")
    /\ startErr' = TRUE
    /\ UNCHANGED <<server, verified, state, backoff, result, nodeVars, serveVars>>

(* Fault variant: the select lacks its ctx.Done case. *)
PollIgnoresCancel == FALSE /\ PollGivesUp

PollCancelled == cancelled /\ PollGivesUp

(* timeoutCh is nil, and never ready, once a key was applied. *)
PollTimeout == server \notin keyed /\ PollGivesUp

ProbedCancelled == cancelled /\ Goto("probed", "exit")

(* decideNext *)
ActionReauth == state = "NeedsLogin"
ActionRetry == ~ActionReauth /\ (startErr \/ state # "Running")
ActionServe == ~ActionReauth /\ ~ActionRetry

DecideReauth == ~cancelled /\ ActionReauth /\ Goto("probed", "mint")

(* processRetryAction: sleep, then (at pc "close") close and drop.         *)
DecideRetry ==
    /\ ~cancelled /\ ActionRetry
    /\ Step("probed", "backoff")
    /\ backoff' = NextBackoff(backoff) /\ verified' = FALSE
    /\ UNCHANGED <<server, state, startErr, result, nodeVars, serveVars>>

DecideServe ==
    /\ ~cancelled /\ ActionServe
    /\ Step("probed", IF verified THEN "serve" ELSE "verify")
    /\ backoff' = 0
    /\ UNCHANGED <<server, verified, state, startErr, result, nodeVars, serveVars>>

-----------------------------------------------------------------------------
(* handleReauth.                                                           *)

(* Close the server, build another and give it the key just minted. *)
MintOk ==
    /\ Step("mint", "top")
    /\ CloseNode /\ Factory(TRUE)
    /\ backoff' = 0
    /\ UNCHANGED <<state, startErr, result, identity,
                   listener, drain, watcher, restart, publicReady>>

(* The server is kept, and started again after the sleep. *)
MintFail ==
    /\ Step("mint", "mintBackoff")
    /\ backoff' = NextBackoff(backoff) /\ verified' = FALSE
    /\ UNCHANGED <<server, state, startErr, result, nodeVars, serveVars>>

(* The end of backoffState.sleep: its timer, or ctx. *)
Wake == Goto("mintBackoff", "top") \/ Goto("backoff", "close")

-----------------------------------------------------------------------------
(* runServeStep: verifyIssuerHost, then serveOnce.                         *)

(* Without an expected host nothing is asked of the node. *)
VerifyOk ==
    /\ Step("verify", "serve")
    /\ hostOK' = hostOK \cup {server} /\ verified' = TRUE
    /\ UNCHANGED <<server, state, startErr, backoff, result,
                   up, keyed, spent, backend, identity, serveVars>>

(* handleServe after an error that is not fatal. *)
ServeStepFails(from) ==
    /\ Step(from, "backoff")
    /\ restart' = "serve_failure" /\ backoff' = NextBackoff(backoff)
    /\ UNCHANGED <<server, verified, state, startErr, result, nodeVars,
                   inflight, drain>>

VerifyErr ==
    /\ CheckHost
    /\ ServeStepFails("verify")
    /\ UNCHANGED <<listener, watcher, publicReady>>

VerifyMismatch ==
    /\ CheckHost
    /\ Step("verify", "close")
    /\ result' = "mismatch"
    /\ UNCHANGED <<server, verified, state, startErr, backoff, nodeVars, serveVars>>

BeginServe ==
    /\ Step("serve", "listen")
    /\ publicReady' = FALSE /\ drain' = "no" /\ restart' = "none"
    /\ UNCHANGED <<loopVars, nodeVars, listener, inflight, watcher>>

ListenOk ==
    /\ Step("listen", "announce")
    /\ listener' = "serving"
    /\ UNCHANGED <<loopVars, nodeVars,
                   inflight, drain, watcher, restart, publicReady>>

ListenFail ==
    /\ ServeStepFails("listen")
    /\ UNCHANGED <<listener, watcher, publicReady>>

(* Fault variant: the node is not watched while it serves. *)
AnnounceWithoutWatcher ==
    /\ Step("announce", "select")
    /\ publicReady' = TRUE
    /\ UNCHANGED <<loopVars, nodeVars,
                   listener, inflight, drain, watcher, restart>>

(* SetPublicReady(true) and the start of the watcher. *)
Announce ==
    /\ Step("announce", "select")
    /\ publicReady' = TRUE /\ watcher' = "polling"
    /\ UNCHANGED <<loopVars, nodeVars, listener, inflight, drain, restart>>

(* The three cases of serveOnce's select; Go picks any that is ready. *)
SelectCancelled ==
    /\ cancelled
    /\ Step("select", "shutdown")
    /\ publicReady' = FALSE
    /\ UNCHANGED <<loopVars, nodeVars,
                   listener, inflight, drain, watcher, restart>>

(* Fault variant: readiness is left to the deferred SetPublicReady(false). *)
SelectFlippedStaysReady ==
    /\ watcher = "closed"
    /\ Step("select", "shutdown")
    /\ restart' = "needs_login"
    /\ UNCHANGED <<loopVars, nodeVars,
                   listener, inflight, drain, watcher, publicReady>>

SelectFlipped ==
    /\ watcher = "closed"
    /\ Step("select", "shutdown")
    /\ restart' = "needs_login" /\ publicReady' = FALSE
    /\ UNCHANGED <<loopVars, nodeVars, listener, inflight, drain, watcher>>

(* Serve has returned on its own; its error is never ErrServerClosed here, *)
(* nobody having called Shutdown.  The deferred cancelWatch runs.          *)
SelectServeErr ==
    /\ listener = "failed"
    /\ ServeStepFails("select")
    /\ listener' = "off" /\ publicReady' = FALSE /\ watcher' = "off"

(* srv.Shutdown closes the listener, so Serve returns, *)
Shutdown ==
    /\ Step("shutdown", "drain")
    /\ listener' = IF listener = "serving" THEN "closed" ELSE listener
    /\ UNCHANGED <<loopVars, nodeVars,
                   inflight, drain, watcher, restart, publicReady>>

(* Fault variant: Shutdown's context is ctx itself. *)
ShutdownEndsOnCancel ==
    /\ Step("drain", "await")
    /\ drain' \in (IF inflight THEN {"timeout"} ELSE {"done"})
                  \cup (IF cancelled THEN {"done"} ELSE {})
    /\ UNCHANGED <<loopVars, nodeVars,
                   listener, inflight, watcher, restart, publicReady>>

(* and it waits for the requests in flight, for ShutdownTimeout counted    *)
(* from now: a ctx that is done does not end the wait.                     *)
ShutdownEnds ==
    /\ Step("drain", "await")
    /\ drain' = IF inflight THEN "timeout" ELSE "done"
    /\ UNCHANGED <<loopVars, nodeVars,
                   listener, inflight, watcher, restart, publicReady>>

(* <-serveErr, and the deferred cancelWatch and SetPublicReady(false). *)
AwaitServe ==
    /\ listener \in {"failed", "closed"}
    /\ Step("await", "close")
    /\ listener' = "off" /\ watcher' = "off" /\ publicReady' = FALSE
    /\ UNCHANGED <<loopVars, nodeVars, inflight, drain, restart>>

(* processServeAction and processRetryAction close the server and drop it; *)
(* a host mismatch ends Run.                                               *)
CloseServer ==
    /\ Step("close", IF result = "mismatch" THEN "done" ELSE "top")
    /\ CloseNode /\ server' = NoNode
    /\ UNCHANGED <<verified, state, startErr, backoff, result,
                   keyed, spent, hostOK, identity,
                   listener, drain, watcher, restart, publicReady>>

(* return nil, with Run's deferred Close. *)
Exit ==
    /\ Step("exit", "done")
    /\ CloseNode /\ server' = NoNode
    /\ result' = "nil"
    /\ UNCHANGED <<verified, state, startErr, backoff,
                   keyed, spent, hostOK, identity,
                   listener, drain, watcher, restart, publicReady>>

-----------------------------------------------------------------------------
(* The goroutines beside Run.                                              *)

ServeFails ==
    /\ listener = "serving"
    /\ listener' = "failed"
    /\ UNCHANGED <<pc, cancelled, loopVars, nodeVars,
                   inflight, drain, watcher, restart, publicReady>>

(* A request arrives, or the one in flight is answered. *)
Request ==
    /\ inflight \/ listener = "serving"
    /\ inflight' = ~inflight
    /\ UNCHANGED <<pc, cancelled, loopVars, nodeVars,
                   listener, drain, watcher, restart, publicReady>>

(* The watcher's channel closes: its poll has read NeedsLogin, or ctx is   *)
(* done, for the deferred close(out) runs on that path too.  A poll that   *)
(* reads anything else, or fails, changes nothing.  A watcher left behind  *)
(* by a serveOnce that has returned closes a channel nobody reads, and is  *)
(* not followed further.                                                   *)
WatchSees ==
    /\ watcher = "polling" /\ backend[server] = "NeedsLogin"
    /\ watcher' = "closed"
    /\ UNCHANGED <<pc, cancelled, loopVars, nodeVars,
                   listener, inflight, drain, restart, publicReady>>

WatchCancelled ==
    /\ watcher = "polling" /\ cancelled
    /\ watcher' = "closed"
    /\ UNCHANGED <<pc, cancelled, loopVars, nodeVars,
                   listener, inflight, drain, restart, publicReady>>

-----------------------------------------------------------------------------
(* The tsnet node and the control plane (external).                        *)

NodeMoves(n, from, to) ==
    /\ n \in up /\ backend[n] \in from
    /\ backend' = [backend EXCEPT ![n] = to]
    /\ UNCHANGED <<pc, cancelled, loopVars, up, keyed, hostOK, serveVars>>

(* The node logs in, with the stored identity or else with its key, which  *)
(* is good for one registration.                                           *)
NodeRunning(n) ==
    /\ NodeMoves(n, {"Starting", "NeedsLogin"}, "Running")
    /\ identity \/ n \in keyed \ spent
    /\ spent' = IF identity THEN spent ELSE spent \cup {n}
    /\ identity' = TRUE

(* A node without an identity wants a login; with a key, only in passing.  *)
NodeLoginRequired(n) ==
    /\ NodeMoves(n, {"Starting"}, "NeedsLogin")
    /\ ~identity
    /\ UNCHANGED <<spent, identity>>

(* The node leaves Running with its identity intact, and may return.       *)
NodeStopped(n) ==
    /\ NodeMoves(n, {"Running"}, "Stopped")
    /\ UNCHANGED <<spent, identity>>

NodeResumed(n) ==
    /\ NodeMoves(n, {"Stopped"}, "Running")
    /\ UNCHANGED <<spent, identity>>

(* The control plane forgets or expires the node. *)
IdentityRevoked ==
    /\ identity
    /\ identity' = FALSE
    /\ backend' = [n \in Nodes |-> IF backend[n] \in {"Running", "Stopped"}
                                   THEN "NeedsLogin" ELSE backend[n]]
    /\ UNCHANGED <<pc, cancelled, loopVars, up, keyed, spent, hostOK, serveVars>>

(* The control plane refuses the key: expired, revoked or tags not owned.  *)
KeyRejected(n) ==
    /\ n \in (up \cap keyed) \ spent
    /\ spent' = spent \cup {n}
    /\ UNCHANGED <<pc, cancelled, loopVars, up, keyed, hostOK, backend, identity,
                   serveVars>>

-----------------------------------------------------------------------------
(* Run has returned; nothing is left to happen. *)
Terminated == pc = "done" /\ UNCHANGED vars

RunnerStep ==
    \/ LoopExit \/ EnsureServer \/ StartOk \/ StartFail \/ ProbeAfterStartErr
    \/ Poll \/ PollError \/ PollTick \/ PollCancelled \/ PollTimeout
    \/ ProbedCancelled \/ DecideReauth \/ DecideRetry \/ DecideServe
    \/ MintOk \/ MintFail \/ Wake
    \/ VerifyOk \/ VerifyErr \/ VerifyMismatch
    \/ BeginServe \/ ListenOk \/ ListenFail \/ Announce
    \/ SelectCancelled \/ SelectFlipped \/ SelectServeErr
    \/ Shutdown \/ ShutdownEnds \/ AwaitServe
    \/ CloseServer \/ Exit

SideStep == ServeFails \/ Request \/ WatchSees \/ WatchCancelled

NodeStep ==
    \/ \E n \in Nodes : \/ NodeRunning(n) \/ NodeLoginRequired(n)
                        \/ NodeStopped(n) \/ NodeResumed(n) \/ KeyRejected(n)
    \/ IdentityRevoked

Next == Cancel \/ RunnerStep \/ SideStep \/ NodeStep \/ Terminated

(* Steps in which something outside the runner fails or runs into a        *)
(* timeout.  Recovery is only promised once they stop.                     *)
Fault ==
    \/ StartFail \/ PollError \/ PollTimeout \/ MintFail \/ VerifyErr
    \/ ListenFail \/ ServeFails \/ IdentityRevoked
    \/ \E n \in Nodes : NodeStopped(n) \/ KeyRejected(n)

RegistrationStuck ==
    pc \in {"poll", "wait"} /\ server \in keyed /\ backend[server] # "Running"

(* Every call the runner makes returns, every timer fires.  A select with  *)
(* several ready cases picks at random, so a case that is ready again and  *)
(* again is picked in the end (strong fairness of the two ways out of the  *)
(* probing loop).  The watcher's poll and the node's login make progress.  *)
(* Nothing is assumed of requests or of faults.                            *)
Fairness ==
    /\ WF_vars(RunnerStep)
    /\ SF_vars(PollCancelled)
    /\ SF_vars(PollTimeout)
    /\ WF_vars(WatchSees)
    /\ \A n \in Nodes : WF_vars(NodeRunning(n)) /\ WF_vars(NodeLoginRequired(n))

Spec == Init /\ [][Next]_vars /\ Fairness
-----------------------------------------------------------------------------
(* Properties.                                                             *)

(* At most one tsnet node exists in the process, it is the one Run holds,  *)
(* and none is left when Run has returned: every path that replaces or     *)
(* drops the server (reauth, retry, serve, fatal mismatch, cancellation)   *)
(* closes it.  Two nodes would fight over one state Secret.                *)
NoNodeLeaks ==
    /\ up \subseteq {server}
    /\ pc = "done" => up = {}

(* Whatever accepts public connections does so on the node the runner      *)
(* holds, and on one whose own cert domains were checked against the       *)
(* issuer host, not on the strength of an earlier instance's check.        *)
VerifiedBeforeServing ==
    listener \in {"serving", "failed"} =>
        /\ server \in up
        /\ server \in hostOK

(* SetPublicReady(true) stands only while a verified node is up and its    *)
(* HTTP server has not been shut down: readiness is withdrawn before the   *)
(* listener is closed on every way out of serveOnce.                       *)
ReadyMeansServing ==
    publicReady =>
        /\ listener \in {"serving", "failed"}
        /\ server \in up
        /\ server \in hostOK

(* Closing a node cuts a request only after the whole ShutdownTimeout, or  *)
(* after the listener failed by itself: neither cancellation nor a login   *)
(* loss cuts a request short.                                              *)
RequestsDrained ==
    [][(inflight /\ up' # up) => (drain = "timeout" \/ restart = "serve_failure")]_vars

(* A login lost while serving ends the serve cycle, unless the node logs   *)
(* in again by itself.                                                     *)
LoginLossNoticed ==
    (pc = "select" /\ backend[server] = "NeedsLogin")
        ~> (pc # "select" \/ backend[server] = "Running")

(* Once faults stop, the endpoint is public again and again, or Run has    *)
(* returned: no sequence of failures leaves the loop in a state it cannot  *)
(* leave.  The one exception is a node that has its key and never comes to *)
(* Running, for the probing loop has no timeout then.  Public is what      *)
(* SetPublicReady was told: a node that is Stopped while it is served      *)
(* counts, for the watcher does not look for that.                         *)
Recovers ==
    (<>[][~Fault]_vars /\ ~<>[]RegistrationStuck) => []<>(publicReady \/ pc = "done")

-----------------------------------------------------------------------------
(* The runner keeps the promise PublicEndpoint states to its caller.       *)

InAttempt == pc \notin {"top", "exit", "done"}

EndpointPhase ==
    IF pc = "done" THEN IF result = "nil" THEN "stopped" ELSE "failed"
    ELSE IF listener \in {"serving", "failed"} THEN "open"
    ELSE IF up = {} THEN IF InAttempt THEN "trying" ELSE "down"
    ELSE IF InAttempt THEN "held" ELSE "parked"

Endpoint == INSTANCE PublicEndpoint WITH
    phase <- EndpointPhase,
    trusted <- server \in hostOK,
    ready <- publicReady

(* Every step of the runner is a step the caller was promised, or none     *)
(* that the caller can see; cancellation ends in a return, and the call    *)
(* rests only where its caller was told that it may.                       *)
ImplementsEndpoint == Endpoint!Spec
=============================================================================
