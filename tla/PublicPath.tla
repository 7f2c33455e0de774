----------------------------- MODULE PublicPath -----------------------------
(***************************************************************************)
(* The way of a public request through the bridge, and of a key set to it: *)
(* configuration (config.go), discovery document (discovery.go), refreshes *)
(* of the JWKS with their validation (jwks.go), and the handler chain that *)
(* buildRunnerConfig puts together: ConnContext, AuditMiddleware and the   *)
(* allowlist of netx/srcip.go around the mux of oidc/handler.go.           *)
(*                                                                         *)
(* A connection is kept alive for any number of requests; its source is    *)
(* captured once, its audit state belongs to one request.  When a cached   *)
(* value lapses is JWKSCache's matter: here it may at any time.            *)
(***************************************************************************)
EXTENDS Configuration, JWKSValidate

CONSTANTS
    Environments,  \* bound: the environments the process may be started in
    Conns,         \* bound: connections at a time
    Addrs,         \* client addresses
    NoAddr         \* a connection that is not Funnel's, or a request at rest

ASSUME AddrsAssumption == NoAddr \notin Addrs /\ "closed" \notin Addrs \cup {NoAddr}

ASSUME EnvironmentsAssumption ==
    \A env \in Environments :
        /\ \A d \in DOMAIN Defaults : env.durations[d] \in Int \cup {Unset, Malformed}
        /\ env.cidrs \in Seq((SUBSET Addrs) \cup {Blank, Malformed})
        /\ env.allowlist \in BOOLEAN

VARIABLES
    boot,       \* how far start-up has come, or what ended it
    conf,       \* the fields of Config that properties depend on
    published,  \* keys of c.current
    fresh,      \* the stale window has not passed
    source,     \* per connection: srcKey of its context, or "closed"
    req         \* per connection: the request under way, or the last one

pathVars == <<boot, conf, published, fresh, source, req>>
vars == <<pathVars, validateVars>>

Routes == {"discovery", "jwks"}
Targets == Routes \cup {"root", "unclean", "other", "star"}
Methods == {"GET", "HEAD", "POST"}
Statuses == {"ok", "redirect", "bad", "forbidden", "notFound", "methodNotAllowed",
             "unavailable"}
Decisions == {"served", "deniedMissingSource", "deniedCIDR", "jwksNotReady",
              "methodNotAllowed", "notFound"}

NoRequest == [pc |-> "idle", method |-> "GET", target |-> "root",
              decision |-> "", status |-> "", body |-> <<>>]

NoConf == [issuer |-> "none", allowlist |-> FALSE, cidrs |-> {}, renew |-> 0, retry |-> 0]

(* Every variable has its type. *)
TypeOK ==
    /\ boot \in {"start", "refused", "panicked", "electorRefused", "electorFailed",
                "primeFailed", "serving"}
    /\ conf.allowlist \in BOOLEAN /\ conf.cidrs \subseteq SUBSET Addrs
    /\ conf.renew \in Int /\ conf.retry \in Int
    /\ fresh \in BOOLEAN
    /\ source \in [Conns -> Addrs \cup {NoAddr, "closed"}]
    /\ \A c \in Conns :
           /\ req[c].pc \in {"idle", "gate", "mux", "current", "respond", "audit", "done"}
           /\ req[c].method \in Methods /\ req[c].target \in Targets
           /\ req[c].decision \in Decisions \cup {""}
           /\ req[c].status \in Statuses \cup {""}
    /\ verdict \in {"none", "running", "ok", "error"}

Init ==
    /\ boot = "start" /\ conf = NoConf
    /\ published = <<>> /\ fresh = FALSE
    /\ source = [c \in Conns |-> "closed"]
    /\ req = [c \in Conns |-> NoRequest]
    /\ ValidateInit

-----------------------------------------------------------------------------
(* Start-up.                                                               *)

(* What becomes of an accepted configuration, with leader election or      *)
(* without: leader.Run validates it again, then client-go does.            *)
Outcome(env) ==
    IF ~TickersStart(env) THEN "panicked"
    ELSE IF env.leaderElection /\ ~ElectorAccepts(env) THEN "electorRefused"
    ELSE IF env.leaderElection /\ ~NewLeaderElectorAccepts(env) THEN "electorFailed"
    ELSE "serving"

(* Load and what its result is used for.  The tickers and the elector      *)
(* start after Prime; what they make of a setting does not depend on it.   *)
Start(env) ==
    /\ boot = "start"
    /\ IF Accepted(env)
       THEN /\ boot' = Outcome(env)
            /\ conf' = [issuer |-> env.issuer, allowlist |-> env.allowlist,
                        cidrs |-> CIDRs(env), renew |-> Durations(env).renew,
                        retry |-> Durations(env).retry]
       ELSE boot' = "refused" /\ conf' = NoConf
    /\ UNCHANGED <<published, fresh, source, req, validateVars>>

(* Render: JWKSPath is appended to the text of the issuer, where it        *)
(* becomes part of the fragment or of the query if there is a delimiter.   *)
AppendsToPath(issuer) == issuer.query = "absent" /\ issuer.fragment = "absent"

(* What a client that follows jwks_uri asks for; it also needs a host.     *)
JWKSURITarget(issuer) ==
    CASE AppendsToPath(issuer) /\ issuer.path = "absent" -> "jwks"
      [] AppendsToPath(issuer) /\ issuer.path = "given" -> "other"
      [] OTHER -> "root"

-----------------------------------------------------------------------------
(* The refresh of the cache.                                               *)

(* Prime, then one refresh after the other. *)
Fetch(d) ==
    /\ boot = "serving"
    /\ ParseDocument(d)
    /\ UNCHANGED pathVars

Validate ==
    /\ AcceptKey \/ RejectKey \/ AcceptDocument
    /\ UNCHANGED pathVars

(* store; a verdict is used once. *)
Store ==
    /\ verdict = "ok"
    /\ published' = out /\ fresh' = TRUE
    /\ verdict' = "none"
    /\ UNCHANGED <<boot, conf, source, req, doc, idx, seen, out>>

(* An error: of Prime it ends the process, of a refresh nothing changes. *)
Discard ==
    /\ verdict = "error"
    /\ verdict' = "none"
    /\ boot' = IF published = <<>> THEN "primeFailed" ELSE boot
    /\ UNCHANGED <<conf, published, fresh, source, req, doc, idx, seen, out>>

Lapse ==
    /\ fresh
    /\ fresh' = FALSE
    /\ UNCHANGED <<boot, conf, published, source, req, validateVars>>

-----------------------------------------------------------------------------
(* Connections and requests.                                               *)

(* ConnContext: the address of a Funnel connection, nothing for others.    *)
(* There is no listener before the cache is primed.                        *)
Accept(c, addr) ==
    /\ source[c] = "closed" /\ published # <<>>
    /\ source' = [source EXCEPT ![c] = addr]
    /\ UNCHANGED <<boot, conf, published, fresh, req, validateVars>>

Hangup(c) ==
    /\ source[c] # "closed" /\ req[c].pc \in {"idle", "done"}
    /\ source' = [source EXCEPT ![c] = "closed"]
    /\ req' = [req EXCEPT ![c] = NoRequest]
    /\ UNCHANGED <<boot, conf, published, fresh, validateVars>>

(* Fault variant: the audit state belongs to the connection. *)
FreshAuditStateKept(c) == [decision |-> req[c].decision, status |-> ""]

(* withAuditState and a new auditResponseWriter. *)
FreshAuditState(c) == [decision |-> "", status |-> ""]

Receive(c, method, target) ==
    /\ source[c] # "closed" /\ req[c].pc \in {"idle", "done"}
    /\ req' = [req EXCEPT ![c] =
                 [pc |-> "gate", method |-> method, target |-> target,
                  decision |-> FreshAuditState(c).decision,
                  status |-> FreshAuditState(c).status, body |-> <<>>]]
    /\ UNCHANGED <<boot, conf, published, fresh, source, validateVars>>

Step(c, from, r) ==
    /\ req[c].pc = from
    /\ req' = [req EXCEPT ![c] = r]
    /\ UNCHANGED <<boot, conf, published, fresh, source, validateVars>>

Answer(c, status) == [req[c] EXCEPT !.pc = "audit", !.status = status]

Deny(c, decision) == [Answer(c, "forbidden") EXCEPT !.decision = decision]

(* Fault variant: a connection without a source passes. *)
GateFailsOpen(c) ==
    /\ Step(c, "gate", IF ~conf.allowlist \/ source[c] = NoAddr
                       THEN [req[c] EXCEPT !.pc = "mux"]
                       ELSE IF \E p \in conf.cidrs : source[c] \in p
                            THEN [req[c] EXCEPT !.pc = "mux"]
                            ELSE Deny(c, "deniedCIDR"))

(* Middleware: the allowlist. *)
Gate(c) ==
    /\ Step(c, "gate", IF ~conf.allowlist
                       THEN [req[c] EXCEPT !.pc = "mux"]
                       ELSE IF source[c] = NoAddr
                            THEN Deny(c, "deniedMissingSource")
                            ELSE IF \E p \in conf.cidrs : source[c] \in p
                                 THEN [req[c] EXCEPT !.pc = "mux"]
                                 ELSE Deny(c, "deniedCIDR"))

(* net/http's ServeMux with the two patterns of Handler.ServeMux (external *)
(* beyond those): a target of "*" is refused, an unclean path redirected   *)
(* whatever its method, and a GET pattern also takes HEAD.                 *)
MuxAnswers(c) ==
    Step(c, "mux",
         CASE req[c].target = "star" -> Answer(c, "bad")
           [] req[c].target = "unclean" -> Answer(c, "redirect")
           [] req[c].target \in {"root", "other"} -> Answer(c, "notFound")
           [] req[c].target \in Routes /\ req[c].method = "POST" ->
                Answer(c, "methodNotAllowed")
           [] req[c].target = "discovery" /\ req[c].method # "POST" -> Answer(c, "ok")
           [] OTHER -> [req[c] EXCEPT !.pc = "current"])

(* handleJWKS: Current, then Ready. *)
ReadCurrent(c) ==
    Step(c, "current", [req[c] EXCEPT !.pc = "respond",
                                      !.body = IF fresh THEN published ELSE <<>>])

RespondJWKS(c) ==
    Step(c, "respond", IF fresh /\ req[c].body # <<>>
                       THEN Answer(c, "ok")
                       ELSE [Answer(c, "unavailable") EXCEPT !.decision = "jwksNotReady",
                                                             !.body = <<>>])

(* Fault variant: other statuses are passed through. *)
DecisionFromStatusVerbatim(status) == status

DecisionFromStatus(status) ==
    CASE status = "methodNotAllowed" -> "methodNotAllowed"
      [] status = "notFound" -> "notFound"
      [] OTHER -> "served"

(* The rest of AuditMiddleware: the event, and the request counter's       *)
(* labels.                                                                 *)
Audit(c) ==
    Step(c, "audit", [req[c] EXCEPT !.pc = "done",
                        !.decision = IF @ = "" THEN DecisionFromStatus(req[c].status)
                                               ELSE @])

-----------------------------------------------------------------------------
(* The process did not come up. *)
Ended == boot \notin {"start", "serving"} /\ UNCHANGED vars

ConnStep(c) ==
    \/ \E addr \in Addrs \cup {NoAddr} : Accept(c, addr)
    \/ \E m \in Methods, t \in Targets : Receive(c, m, t)
    \/ Hangup(c) \/ Gate(c) \/ MuxAnswers(c) \/ ReadCurrent(c) \/ RespondJWKS(c)
    \/ Audit(c)

Next ==
    \/ \E env \in Environments : Start(env)
    \/ \E d \in Documents : Fetch(d)
    \/ Validate \/ Store \/ Discard \/ Lapse
    \/ \E c \in Conns : ConnStep(c)
    \/ Ended

Spec == Init /\ [][Next]_vars

-----------------------------------------------------------------------------
(* Properties.                                                             *)

Audited(c) == req[c].pc = "done"

(* "these need to fail at config-load time rather than crash a serving     *)
(* process" (config.go:218-219): what Load accepts starts every ticker and *)
(* passes leader.Run, whose checks are written a second time over defaults *)
(* of their own.  It fails in one case only: a renew deadline above the    *)
(* retry period, as Load asks, and not above 1.2 times that, as client-go  *)
(* does; then the process has loaded its configuration and primed its      *)
(* cache when it ends.                                                     *)
AcceptedStarts ==
    /\ boot \notin {"panicked", "electorRefused"}
    /\ boot = "electorFailed" =>
           conf.retry < conf.renew /\ 5 * conf.renew <= 6 * conf.retry

(* "Anything else ... produces a discovery document that advertises        *)
(* endpoints this process will never serve" (config.go:295-297): with the  *)
(* configuration Load has let through, a client that follows jwks_uri      *)
(* finds a host, and the path of the JWKS route.                           *)
AdvertisedIsServed ==
    boot = "serving" => conf.issuer.host = "given" /\ JWKSURITarget(conf.issuer) = "jwks"

(* The allowlist is fail-closed for every request of a connection: whoever *)
(* is answered by the mux or a handler has a source, and it is listed.     *)
OnlyListedAreAnswered ==
    \A c \in Conns :
        (conf.allowlist /\ req[c].status \notin {"", "forbidden"}) =>
            \E p \in conf.cidrs : source[c] \in p

(* The audit event says what the client was told: every decision goes with *)
(* its own status, also for a later request of the same connection and     *)
(* when the cache lapses or is filled in the middle of the request.        *)
AuditMatchesAnswer ==
    \A c \in Conns : Audited(c) =>
        LET d == req[c].decision
            s == req[c].status
        IN  /\ d \in {"deniedMissingSource", "deniedCIDR"} <=> s = "forbidden"
            /\ d = "jwksNotReady" <=> s = "unavailable"
            /\ d = "notFound" <=> s = "notFound"
            /\ d = "methodNotAllowed" <=> s = "methodNotAllowed"
            /\ (d = "served" /\ req[c].target = "jwks") => req[c].body # <<>>

(* All or nothing: what clients get as a JWKS is a whole document of the   *)
(* API server, in its order, every key of it fit to be published and no    *)
(* kid twice; never a part of one, nor a document with one bad key.        *)
OnlyAcceptableKeysServed ==
    \A c \in Conns :
        req[c].body # <<>> => /\ Acceptable(req[c].body)
                              /\ \E d \in Documents : d.keys = req[c].body
=============================================================================
