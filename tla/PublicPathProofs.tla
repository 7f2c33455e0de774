-------------------------- MODULE PublicPathProofs --------------------------
(***************************************************************************)
(* Theorems about PublicPath, for every set of environments, documents,    *)
(* connections and addresses.                                              *)
(*                                                                         *)
(* The inductive invariant has one part per question: what validation has  *)
(* built so far (Loop), that nothing else is ever published (Bodies),      *)
(* what a request has been told at each point of the chain (Told), who     *)
(* gets past the allowlist (Listed), and that requests only exist once     *)
(* start-up is over (Quiet).                                               *)
(***************************************************************************)
EXTENDS PublicPath, TLAPS

Publishable == {k \in {d.keys : d \in Documents} : Acceptable(k)}

Bodies == {<<>>} \cup Publishable

PCs == {"idle", "gate", "mux", "current", "respond", "audit", "done"}

Requests ==
    [pc : PCs, method : Methods, target : Targets, decision : Decisions \cup {""},
     status : Statuses \cup {""}, body : Bodies]

Types ==
    /\ boot \in {"start", "refused", "panicked", "electorRefused", "electorFailed",
                "primeFailed", "serving"}
    /\ conf.allowlist \in BOOLEAN /\ conf.cidrs \subseteq SUBSET Addrs
    /\ conf.renew \in Int /\ conf.retry \in Int
    /\ fresh \in BOOLEAN
    /\ source \in [Conns -> Addrs \cup {NoAddr, "closed"}]
    /\ req \in [Conns -> Requests]
    /\ published \in Bodies

(* The first keys of the document, all of them valid, no kid twice. *)
Prefix ==
    /\ doc \in Documents /\ Len(doc.keys) \in 1..MaxJWKSKeys
    /\ out \in Seq(JWKs) /\ idx = Len(out) + 1 /\ Len(out) <= Len(doc.keys)
    /\ \A i \in 1..Len(out) : out[i] = doc.keys[i] /\ ValidateKey(out[i])
    /\ \A i \in 1..Len(out) : out[i].kid \in seen
    /\ \A i, j \in 1..Len(out) : out[i].kid = out[j].kid => i = j

Loop ==
    /\ verdict \in {"none", "running", "ok", "error"}
    /\ verdict \in {"running", "ok"} => Prefix
    /\ verdict = "ok" => Len(out) = Len(doc.keys)

(* The decision of an audit event goes with its status. *)
Matches(r) ==
    /\ r.decision \in {"deniedMissingSource", "deniedCIDR"} <=> r.status = "forbidden"
    /\ r.decision = "jwksNotReady" <=> r.status = "unavailable"
    /\ r.decision = "notFound" <=> r.status = "notFound"
    /\ r.decision = "methodNotAllowed" <=> r.status = "methodNotAllowed"
    /\ (r.decision = "served" /\ r.target = "jwks") => r.body # <<>>

(* Answered and not yet audited. *)
Pending(r) ==
    \/ r.decision \in {"deniedMissingSource", "deniedCIDR"} /\ r.status = "forbidden"
    \/ r.decision = "jwksNotReady" /\ r.status = "unavailable"
    \/ /\ r.decision = "" /\ r.status \in {"ok", "redirect", "bad", "notFound",
                                           "methodNotAllowed"}
       /\ (r.target = "jwks" /\ r.status # "methodNotAllowed") => r.body # <<>>

Told(r) ==
    /\ r.pc \in {"idle", "gate", "mux", "current", "respond"} =>
           r.decision = "" /\ r.status = ""
    /\ r.pc = "audit" => Pending(r)
    /\ r.pc = "done" => Matches(r)

InChain(r) == r.pc \in {"mux", "current", "respond"} \/ r.status \notin {"", "forbidden"}

Listed(c) ==
    (conf.allowlist /\ InChain(req[c])) => \E p \in conf.cidrs : source[c] \in p

Quiet ==
    /\ boot = "start" => /\ published = <<>> /\ verdict = "none"
                         /\ \A c \in Conns : source[c] = "closed"
    /\ \A c \in Conns : source[c] = "closed" => req[c] = NoRequest

PathInv ==
    /\ Types /\ Loop /\ Quiet
    /\ \A c \in Conns : Told(req[c]) /\ Listed(c)

-----------------------------------------------------------------------------
(* Configuration.                                                          *)

(* Whatever Load accepts has positive periods. *)
LEMMA AcceptedDurations ==
    ASSUME NEW env \in Environments, Accepted(env)
    PROVE  \A d \in DOMAIN Defaults : Durations(env)[d] \in Int /\ Durations(env)[d] > 0
<1>1. \A d \in DOMAIN Defaults : Defaults[d] \in Int
  BY DEF Defaults
<1>2. \A d \in DOMAIN Defaults : Durations(env)[d] \in Int
  BY <1>1, EnvironmentsAssumption DEF Accepted, Readable, Durations
<1>3. \A d \in DOMAIN Defaults : Durations(env)[d] > 0
  BY DEF Accepted, ValidateDurations
<1> QED
  BY <1>2, <1>3

(* The elector's validation agrees with that of the configuration, and     *)
(* client-go's only adds its factor.                                       *)
LEMMA AcceptedIsUsable ==
    ASSUME NEW env \in Environments, Accepted(env)
    PROVE  /\ TickersStart(env)
           /\ env.leaderElection =>
                  /\ ElectorAccepts(env)
                  /\ ~NewLeaderElectorAccepts(env) =>
                        /\ Durations(env).retry < Durations(env).renew
                        /\ 5 * Durations(env).renew <= 6 * Durations(env).retry
<1>1. {"ttl", "poll", "lease", "renew", "retry"} \subseteq DOMAIN Defaults
  BY DEF Defaults
<1>2. /\ Durations(env)["ttl"] > 0 /\ Durations(env)["poll"] > 0
      /\ Durations(env)["lease"] \in Int /\ Durations(env)["lease"] > 0
      /\ Durations(env)["renew"] \in Int /\ Durations(env)["renew"] > 0
      /\ Durations(env)["retry"] \in Int /\ Durations(env)["retry"] > 0
  BY <1>1, AcceptedDurations
<1>3. TickersStart(env)
  BY <1>2 DEF TickersStart
<1>4. /\ LeaseDuration(env) = Durations(env)["lease"]
      /\ RenewDeadline(env) = Durations(env)["renew"]
      /\ RetryPeriod(env) = Durations(env)["retry"]
  BY <1>2 DEF LeaseDuration, RenewDeadline, RetryPeriod, ElectorPeriod
<1>5. ASSUME env.leaderElection
      PROVE  /\ ElectorAccepts(env)
             /\ LeaseDuration(env) > RenewDeadline(env)
             /\ RetryPeriod(env) < RenewDeadline(env)
  BY <1>2, <1>4, <1>5 DEF Accepted, ValidateLeaderElection, ElectorAccepts
<1>6. ASSUME env.leaderElection, ~NewLeaderElectorAccepts(env)
      PROVE  5 * Durations(env)["renew"] <= 6 * Durations(env)["retry"]
  BY <1>2, <1>4, <1>5, <1>6 DEF NewLeaderElectorAccepts
<1> QED
  BY <1>3, <1>4, <1>5, <1>6

(* What is left of an accepted list are sets of addresses. *)
LEMMA AcceptedCIDRs ==
    ASSUME NEW env \in Environments, Accepted(env)
    PROVE  CIDRs(env) \subseteq SUBSET Addrs
<1>1. Malformed \notin Items(env.cidrs)
  BY DEF Accepted, Readable
<1>2. \A i \in DOMAIN env.cidrs : env.cidrs[i] \in (SUBSET Addrs) \cup {Blank, Malformed}
  BY EnvironmentsAssumption
<1>3. ASSUME NEW p \in CIDRs(env) PROVE p \in SUBSET Addrs
  <2>1. PICK i \in DOMAIN env.cidrs : p = env.cidrs[i]
    BY <1>3 DEF CIDRs, Items
  <2>2. p # Blank /\ p # Malformed
    BY <1>1, <1>3 DEF CIDRs, Items
  <2> QED
    BY <1>2, <2>1, <2>2
<1> QED
  BY <1>3

-----------------------------------------------------------------------------
(* Validation.                                                             *)

(* The loop only extends the prefix it has validated. *)
LEMMA LoopStep == Loop /\ [Next]_vars => Loop'
<1> SUFFICES ASSUME Loop, [Next]_vars PROVE Loop'
  OBVIOUS
<1>1. CASE UNCHANGED validateVars
  BY <1>1 DEF Loop, Prefix, validateVars
<1>2. ASSUME NEW d \in Documents, Fetch(d) PROVE Loop'
  <2>1. d.keys \in Seq(JWKs)
    BY DocumentsAssumption
  <2>2. /\ doc' = d /\ idx' = 1 /\ seen' = {} /\ out' = <<>>
        /\ verdict' = IF Admissible(d) THEN "running" ELSE "error"
    BY <1>2 DEF Fetch, ParseDocument
  <2>3. Admissible(d) => Len(d.keys) \in 1..MaxJWKSKeys
    BY <2>1, MaxJWKSKeysAssumption DEF Admissible
  <2> QED
    BY <2>1, <2>2, <2>3 DEF Loop, Prefix
<1>3. CASE AcceptKey
  <2> DEFINE k == doc.keys[idx]
  <2>1. Prefix /\ verdict = "running" /\ idx <= Len(doc.keys)
    BY <1>3 DEF AcceptKey, Loop
  <2>2. doc.keys \in Seq(JWKs) /\ Len(out) \in Nat /\ Len(doc.keys) \in Nat
    BY <2>1, DocumentsAssumption DEF Prefix
  <2>3. idx \in 1..Len(doc.keys) /\ k \in JWKs
    BY <2>1, <2>2 DEF Prefix
  <2>4. /\ ValidateKey(k) /\ k.kid \notin seen /\ seen' = seen \cup {k.kid}
        /\ out' = Append(out, k) /\ idx' = idx + 1 /\ doc' = doc /\ verdict' = verdict
    BY <1>3 DEF AcceptKey
  <2> HIDE DEF k
  <2>5. /\ out' \in Seq(JWKs) /\ Len(out') = Len(out) + 1 /\ out'[Len(out) + 1] = k
        /\ \A i \in 1..Len(out) : out'[i] = out[i]
    BY <2>1, <2>3, <2>4 DEF Prefix
  <2>6. /\ idx' = Len(out') + 1 /\ Len(out') <= Len(doc.keys)
        /\ k = doc.keys[Len(out) + 1]
    BY <2>1, <2>2, <2>3, <2>4, <2>5 DEF Prefix, k
  <2>7. \A i \in 1..Len(out') : i \in 1..Len(out) \/ i = Len(out) + 1
    BY <2>2, <2>5
  <2>8. \A i \in 1..Len(out') : out'[i] = doc.keys[i] /\ ValidateKey(out'[i])
    BY <2>1, <2>4, <2>5, <2>6, <2>7 DEF Prefix
  <2>9. \A i \in 1..Len(out') : out'[i].kid \in seen'
    BY <2>1, <2>4, <2>5, <2>7 DEF Prefix
  <2>10. \A i, j \in 1..Len(out') : out'[i].kid = out'[j].kid => i = j
    BY <2>1, <2>4, <2>5, <2>7 DEF Prefix
  <2>11. Prefix'
    <3>1. doc' \in Documents /\ Len(doc'.keys) \in 1..MaxJWKSKeys
      BY <2>1, <2>4 DEF Prefix
    <3>2. doc' = doc
      BY <2>4
    <3> QED
      BY <2>5, <2>6, <2>8, <2>9, <2>10, <3>1, <3>2 DEF Prefix
  <2> QED
    BY <2>1, <2>4, <2>11 DEF Loop
<1>4. CASE RejectKey
  BY <1>4 DEF RejectKey, Loop
<1>5. CASE AcceptDocument
  <2>1. Prefix /\ idx > Len(doc.keys)
    BY <1>5 DEF AcceptDocument, Loop
  <2>2. Len(out) = Len(doc.keys)
    BY <2>1, DocumentsAssumption DEF Prefix
  <2> QED
    BY <1>5, <2>1, <2>2 DEF AcceptDocument, Loop, Prefix
<1>6. CASE Store \/ Discard
  BY <1>6 DEF Store, Discard, Loop
<1> QED
  BY <1>1, <1>2, <1>3, <1>4, <1>5, <1>6
     DEF Next, vars, Start, Validate, Lapse, Ended, ConnStep, Accept, Hangup, Receive,
         Gate, MuxAnswers, ReadCurrent, RespondJWKS, Audit, Step

(* What validation has accepted may be published. *)
LEMMA AcceptedIsPublishable ==
    ASSUME Loop, verdict = "ok"
    PROVE  out \in Publishable
<1>1. Prefix /\ Len(out) = Len(doc.keys)
  BY DEF Loop
<1>2. doc.keys \in Seq(JWKs) /\ out \in Seq(JWKs)
  BY <1>1, DocumentsAssumption DEF Prefix
<1>3. out = doc.keys
  BY <1>1, <1>2 DEF Prefix
<1>4. Len(out) \in 1..MaxJWKSKeys /\ DOMAIN out = 1..Len(out)
  BY <1>1, <1>2 DEF Prefix
<1>5. ASSUME NEW i \in DOMAIN out
      PROVE  /\ out[i].kty = "RSA" /\ out[i].alg = "RS256" /\ out[i].use = "sig"
             /\ {out[i].n, out[i].e} = {"base64"}
             /\ out[i].kid # ""
             /\ out[i].kid \notin {out[j].kid : j \in DOMAIN out \ {i}}
  <2>1. ValidateKey(out[i])
    BY <1>1, <1>4 DEF Prefix
  <2>2. \A j \in DOMAIN out : out[i].kid = out[j].kid => i = j
    BY <1>1, <1>4 DEF Prefix
  <2> QED
    BY <2>1, <2>2 DEF ValidateKey
<1>6. Acceptable(out)
  BY <1>4, <1>5 DEF Acceptable
<1> QED
  BY <1>1, <1>3, <1>6 DEF Publishable, Prefix

-----------------------------------------------------------------------------
(* Requests.                                                               *)

(* A handler of connection c replaces its request by a well-formed one     *)
(* that was told the truth, and lets no client in that is not listed.      *)
HandledWell(c) ==
    /\ req' \in [Conns -> Requests] /\ Told(req'[c])
    /\ \A b \in Conns \ {c} : req'[b] = req[b]
    /\ (conf.allowlist /\ InChain(req'[c]) /\ ~InChain(req[c])) =>
           \E p \in conf.cidrs : source[c] \in p

(* What a step of the chain has to show. *)
LEMMA StepIsHandled ==
    ASSUME NEW c \in Conns, NEW from, NEW r \in Requests, Step(c, from, r),
           req \in [Conns -> Requests], Told(r),
           (conf.allowlist /\ InChain(r) /\ ~InChain(req[c])) =>
               \E p \in conf.cidrs : source[c] \in p
    PROVE  HandledWell(c)
<1>1. req' = [req EXCEPT ![c] = r]
  BY DEF Step
<1> QED
  BY <1>1 DEF HandledWell

(* The allowlist. *)
LEMMA GateHandled ==
    ASSUME NEW c \in Conns, req \in [Conns -> Requests], Told(req[c]), Gate(c)
    PROVE  HandledWell(c)
<1> DEFINE pass == [req[c] EXCEPT !.pc = "mux"]
<1>1. req[c].pc = "gate" /\ req[c].decision = "" /\ req[c].status = ""
  BY DEF Gate, Step, Told
<1>2. req[c] \in Requests
  OBVIOUS
<1>3. /\ pass \in Requests /\ pass.pc = "mux" /\ pass.decision = "" /\ pass.status = ""
  BY <1>1, <1>2 DEF Requests, PCs
<1>4. ASSUME NEW d \in {"deniedMissingSource", "deniedCIDR"}
      PROVE  /\ Deny(c, d) \in Requests /\ Deny(c, d).pc = "audit"
             /\ Deny(c, d).decision = d /\ Deny(c, d).status = "forbidden"
  BY <1>2 DEF Deny, Answer, Requests, PCs, Decisions, Statuses
<1>5. /\ Told(pass)
      /\ \A d \in {"deniedMissingSource", "deniedCIDR"} :
             Told(Deny(c, d)) /\ ~InChain(Deny(c, d))
  <2> HIDE DEF pass
  <2> QED
    BY <1>3, <1>4 DEF Told, Pending, InChain
<1> HIDE DEF pass
<1>6. CASE ~conf.allowlist
  <2>1. Step(c, "gate", pass)
    BY <1>6 DEF Gate, pass
  <2> QED
    BY <1>3, <1>5, <1>6, <2>1, StepIsHandled
<1>7. CASE conf.allowlist /\ source[c] = NoAddr
  <2>1. Step(c, "gate", Deny(c, "deniedMissingSource"))
    BY <1>7 DEF Gate
  <2> QED
    BY <1>4, <1>5, <2>1, StepIsHandled
<1>8. CASE conf.allowlist /\ source[c] # NoAddr /\ \E p \in conf.cidrs : source[c] \in p
  <2>1. Step(c, "gate", pass)
    BY <1>8 DEF Gate, pass
  <2> QED
    BY <1>3, <1>5, <1>8, <2>1, StepIsHandled
<1>9. CASE conf.allowlist /\ source[c] # NoAddr
             /\ ~(\E p \in conf.cidrs : source[c] \in p)
  <2>1. Step(c, "gate", Deny(c, "deniedCIDR"))
    BY <1>9 DEF Gate
  <2> QED
    BY <1>4, <1>5, <2>1, StepIsHandled
<1> QED
  BY <1>6, <1>7, <1>8, <1>9

(* The mux. *)
LEMMA MuxHandled ==
    ASSUME NEW c \in Conns, req \in [Conns -> Requests], Told(req[c]), MuxAnswers(c)
    PROVE  HandledWell(c)
<1>1. req[c].pc = "mux" /\ req[c].decision = "" /\ req[c].status = ""
  BY DEF MuxAnswers, Step, Told
<1>2. req[c] \in Requests /\ InChain(req[c])
  BY <1>1 DEF InChain
<1>3. ASSUME NEW s \in {"bad", "redirect", "notFound", "methodNotAllowed", "ok"},
             s \in {"bad", "redirect", "notFound", "ok"} => req[c].target # "jwks"
      PROVE  Answer(c, s) \in Requests /\ Told(Answer(c, s))
  <2>1. /\ Answer(c, s) \in Requests /\ Answer(c, s).pc = "audit"
        /\ Answer(c, s).status = s /\ Answer(c, s).decision = ""
        /\ Answer(c, s).target = req[c].target
    BY <1>1, <1>2 DEF Answer, Requests, PCs, Statuses
  <2> QED
    BY <1>3, <2>1 DEF Told, Pending
<1> DEFINE on == [req[c] EXCEPT !.pc = "current"]
<1>4. on \in Requests /\ Told(on)
  <2>1. /\ on \in Requests /\ on.pc = "current" /\ on.decision = "" /\ on.status = ""
    BY <1>1, <1>2 DEF Requests, PCs
  <2> QED
    BY <2>1 DEF Told
<1>5. \E r \in Requests : Told(r) /\ Step(c, "mux", r)
  <2>1. CASE req[c].target = "star"
    BY <1>3, <2>1 DEF MuxAnswers
  <2>2. CASE req[c].target = "unclean"
    BY <1>3, <2>2 DEF MuxAnswers
  <2>3. CASE req[c].target \in {"root", "other"}
    BY <1>3, <2>3 DEF MuxAnswers
  <2>4. CASE req[c].target \in Routes /\ req[c].method = "POST"
    BY <1>3, <2>4 DEF MuxAnswers, Routes
  <2>5. CASE req[c].target = "discovery" /\ req[c].method # "POST"
    BY <1>3, <2>5 DEF MuxAnswers, Routes
  <2>6. CASE req[c].target = "jwks" /\ req[c].method # "POST"
    BY <1>4, <2>6 DEF MuxAnswers, Routes
  <2> QED
    BY <1>2, <2>1, <2>2, <2>3, <2>4, <2>5, <2>6 DEF Requests, Targets, Routes
<1> QED
  BY <1>2, <1>5, StepIsHandled

(* handleJWKS. *)
LEMMA JWKSHandled ==
    ASSUME NEW c \in Conns, req \in [Conns -> Requests], Told(req[c]),
           published \in Bodies, ReadCurrent(c) \/ RespondJWKS(c)
    PROVE  HandledWell(c)
<1>1. /\ req[c].pc \in {"current", "respond"}
      /\ req[c].decision = "" /\ req[c].status = ""
  BY DEF ReadCurrent, RespondJWKS, Step, Told
<1>2. req[c] \in Requests /\ InChain(req[c]) /\ <<>> \in Bodies
  BY <1>1 DEF InChain, Bodies
<1>3. CASE ReadCurrent(c)
  <2> DEFINE r == [req[c] EXCEPT !.pc = "respond",
                                 !.body = IF fresh THEN published ELSE <<>>]
  <2>1. /\ r \in Requests /\ r.pc = "respond" /\ r.decision = "" /\ r.status = ""
    BY <1>1, <1>2 DEF Requests, PCs
  <2>2. Step(c, "current", r)
    BY <1>3 DEF ReadCurrent
  <2> HIDE DEF r
  <2>3. Told(r)
    BY <2>1 DEF Told
  <2> QED
    BY <1>2, <2>1, <2>2, <2>3, StepIsHandled
<1>4. CASE RespondJWKS(c) /\ fresh /\ req[c].body # <<>>
  <2>1. /\ Answer(c, "ok") \in Requests /\ Answer(c, "ok").pc = "audit"
        /\ Answer(c, "ok").decision = "" /\ Answer(c, "ok").status = "ok"
        /\ Answer(c, "ok").body # <<>>
    BY <1>1, <1>2, <1>4 DEF Answer, Requests, PCs, Statuses
  <2>2. Step(c, "respond", Answer(c, "ok"))
    BY <1>4 DEF RespondJWKS
  <2>3. Told(Answer(c, "ok"))
    BY <2>1 DEF Told, Pending
  <2> QED
    BY <1>2, <2>1, <2>2, <2>3, StepIsHandled
<1>5. CASE RespondJWKS(c) /\ ~(fresh /\ req[c].body # <<>>)
  <2> DEFINE r == [Answer(c, "unavailable") EXCEPT !.decision = "jwksNotReady",
                                                   !.body = <<>>]
  <2>1. /\ r \in Requests /\ r.pc = "audit" /\ r.decision = "jwksNotReady"
        /\ r.status = "unavailable"
    BY <1>2 DEF Answer, Requests, PCs, Statuses, Decisions
  <2>2. Step(c, "respond", r)
    BY <1>5 DEF RespondJWKS
  <2> HIDE DEF r
  <2>3. Told(r)
    BY <2>1 DEF Told, Pending
  <2> QED
    BY <1>2, <2>1, <2>2, <2>3, StepIsHandled
<1> QED
  BY <1>3, <1>4, <1>5

(* The audit event. *)
LEMMA AuditHandled ==
    ASSUME NEW c \in Conns, req \in [Conns -> Requests], Told(req[c]), Audit(c)
    PROVE  HandledWell(c)
<1> DEFINE d == IF req[c].decision = "" THEN DecisionFromStatus(req[c].status)
                                        ELSE req[c].decision
           r == [req[c] EXCEPT !.pc = "done", !.decision = d]
<1>1. req[c].pc = "audit" /\ Pending(req[c]) /\ req[c] \in Requests
  BY DEF Audit, Step, Told
<1>2. d \in Decisions
  BY <1>1 DEF DecisionFromStatus, Decisions, Pending
<1>3. /\ r \in Requests /\ r.pc = "done" /\ r.decision = d /\ r.status = req[c].status
      /\ r.target = req[c].target /\ r.body = req[c].body
  BY <1>1, <1>2 DEF Requests, PCs
<1>4. Step(c, "audit", r)
  BY DEF Audit
<1>5. Matches(r)
  <2> HIDE DEF r
  <2> QED
    BY <1>1, <1>3 DEF Pending, Matches, DecisionFromStatus
<1>6. Told(r) /\ (InChain(r) => InChain(req[c]))
  <2> HIDE DEF r
  <2> QED
    BY <1>3, <1>5 DEF Told, InChain
<1> HIDE DEF r
<1> QED
  BY <1>3, <1>4, <1>6, StepIsHandled

-----------------------------------------------------------------------------
(* The invariant.                                                          *)

(* A step that leaves requests, sources and configuration alone. *)
LEMMA UndisturbedStep ==
    ASSUME PathInv, [Next]_vars, UNCHANGED <<conf, source, req>>,
           boot' \in {boot, "primeFailed"}, fresh' \in BOOLEAN, published' \in Bodies,
           boot # "start" \/ (published' = published /\ verdict' = verdict)
    PROVE  PathInv'
<1>1. Loop'
  BY LoopStep DEF PathInv
<1>2. Types'
  BY DEF PathInv, Types
<1>3. Quiet'
  BY DEF PathInv, Quiet, Types
<1>4. \A c \in Conns : Told(req'[c]) /\ Listed(c)'
  BY DEF PathInv, Listed
<1> QED
  BY <1>1, <1>2, <1>3, <1>4 DEF PathInv

(* A step of connection c alone. *)
LEMMA ConnectionStep ==
    ASSUME PathInv, [Next]_vars, NEW c \in Conns, boot # "start",
           UNCHANGED <<boot, conf, published, fresh, validateVars>>,
           source' \in [Conns -> Addrs \cup {NoAddr, "closed"}],
           req' \in [Conns -> Requests], Told(req'[c]), Listed(c)',
           source'[c] = "closed" => req'[c] = NoRequest,
           \A b \in Conns \ {c} : source'[b] = source[b] /\ req'[b] = req[b]
    PROVE  PathInv'
<1>1. Loop'
  BY LoopStep DEF PathInv
<1>2. Types'
  BY DEF PathInv, Types
<1>3. Quiet'
  BY DEF PathInv, Quiet
<1>4. ASSUME NEW b \in Conns PROVE Told(req'[b]) /\ Listed(b)'
  BY DEF PathInv, Listed
<1> QED
  BY <1>1, <1>2, <1>3, <1>4 DEF PathInv

(* What conf holds before Load, and when Load has failed. *)
LEMMA NoConfTyped ==
    /\ NoConf.allowlist \in BOOLEAN /\ NoConf.cidrs \subseteq SUBSET Addrs
    /\ NoConf.renew \in Int /\ NoConf.retry \in Int
<1>1. NoConf.allowlist = FALSE /\ NoConf.cidrs = {}
  BY DEF NoConf
<1>2. NoConf.renew = 0 /\ NoConf.retry = 0
  BY DEF NoConf
<1>3. NoConf.allowlist \in BOOLEAN /\ NoConf.cidrs \subseteq SUBSET Addrs
  BY <1>1
<1>4. NoConf.renew \in Int /\ NoConf.retry \in Int
  BY <1>2
<1> QED
  BY <1>3, <1>4

(* Start-up. *)
LEMMA StartStep ==
    ASSUME PathInv, [Next]_vars, NEW env \in Environments, Start(env)
    PROVE  PathInv'
<1>1. /\ boot = "start" /\ UNCHANGED <<published, fresh, source, req, validateVars>>
      /\ boot' \in {"refused", "panicked", "electorRefused", "electorFailed", "serving"}
      /\ ~Accepted(env) => conf' = NoConf
  BY DEF Start, Outcome
<1>2. /\ conf'.allowlist \in BOOLEAN /\ conf'.cidrs \subseteq SUBSET Addrs
      /\ conf'.renew \in Int /\ conf'.retry \in Int
  <2>1. CASE ~Accepted(env)
    BY <1>1, <2>1, NoConfTyped
  <2>2. CASE Accepted(env)
    <3>1. /\ conf'.allowlist = env.allowlist /\ conf'.cidrs = CIDRs(env)
          /\ conf'.renew = Durations(env)["renew"] /\ conf'.retry = Durations(env)["retry"]
      BY <2>2 DEF Start
    <3>2. Durations(env)["renew"] \in Int /\ Durations(env)["retry"] \in Int
      BY <2>2, AcceptedDurations DEF Defaults
    <3> QED
      BY <2>2, <3>1, <3>2, AcceptedCIDRs, EnvironmentsAssumption
  <2> QED
    BY <2>1, <2>2
<1>3. Loop'
  BY LoopStep DEF PathInv
<1>4. Types'
  BY <1>1, <1>2 DEF PathInv, Types
<1>5. Quiet'
  BY <1>1 DEF PathInv, Quiet
<1>6. ASSUME NEW c \in Conns PROVE Told(req'[c]) /\ Listed(c)'
  <2>1. req'[c] = NoRequest /\ req[c] = NoRequest
    BY <1>1 DEF PathInv, Quiet
  <2>2. ~InChain(NoRequest)
    BY DEF InChain, NoRequest
  <2> QED
    BY <2>1, <2>2 DEF PathInv, Listed
<1> QED
  BY <1>3, <1>4, <1>5, <1>6 DEF PathInv

(* A new connection, a closed one and a new request. *)
LEMMA ConnectionEvents ==
    ASSUME PathInv, [Next]_vars, NEW c \in Conns,
           \/ \E addr \in Addrs \cup {NoAddr} : Accept(c, addr)
           \/ Hangup(c)
           \/ \E m \in Methods, t \in Targets : Receive(c, m, t)
    PROVE  PathInv'
<1> USE DEF PathInv
<1>1. boot # "start" /\ UNCHANGED <<boot, conf, published, fresh, validateVars>>
  BY DEF Quiet, Accept, Hangup, Receive
<1>2. /\ source \in [Conns -> Addrs \cup {NoAddr, "closed"}]
      /\ req \in [Conns -> Requests] /\ <<>> \in Bodies
  BY DEF Types, Bodies
<1>3. NoRequest \in Requests /\ Told(NoRequest) /\ ~InChain(NoRequest)
  <2>1. NoRequest \in Requests
    BY <1>2 DEF NoRequest, Requests, PCs, Methods, Targets, Routes
  <2>2. Told(NoRequest) /\ ~InChain(NoRequest)
    BY DEF NoRequest, Told, InChain
  <2> QED
    BY <2>1, <2>2
<1>4. ASSUME NEW addr \in Addrs \cup {NoAddr}, Accept(c, addr) PROVE PathInv'
  <2>1. /\ source[c] = "closed" /\ source' = [source EXCEPT ![c] = addr] /\ req' = req
    BY <1>4 DEF Accept
  <2>2. req'[c] = NoRequest /\ source'[c] # "closed"
    BY <1>2, <2>1, AddrsAssumption DEF Quiet
  <2>3. Listed(c)' /\ Told(req'[c])
    BY <1>3, <2>2 DEF Listed
  <2> QED
    BY <1>1, <1>2, <2>1, <2>2, <2>3, ConnectionStep
<1>5. CASE Hangup(c)
  <2>1. /\ source' = [source EXCEPT ![c] = "closed"]
        /\ req' = [req EXCEPT ![c] = NoRequest]
    BY <1>5 DEF Hangup
  <2>2. req'[c] = NoRequest
    BY <1>2, <2>1
  <2>3. Listed(c)' /\ Told(req'[c])
    BY <1>3, <2>2 DEF Listed
  <2> QED
    BY <1>1, <1>2, <1>3, <2>1, <2>2, <2>3, ConnectionStep
<1>6. ASSUME NEW m \in Methods, NEW t \in Targets, Receive(c, m, t) PROVE PathInv'
  <2> DEFINE r == [pc |-> "gate", method |-> m, target |-> t, decision |-> "",
                   status |-> "", body |-> <<>>]
  <2>1. source[c] # "closed" /\ req' = [req EXCEPT ![c] = r] /\ source' = source
    BY <1>6 DEF Receive, FreshAuditState
  <2>2. r \in Requests
    BY <1>2 DEF Requests, PCs
  <2>3. Told(r) /\ ~InChain(r)
    BY DEF Told, InChain
  <2> HIDE DEF r
  <2>4. req'[c] = r /\ req' \in [Conns -> Requests]
    BY <1>2, <2>1, <2>2
  <2>5. Listed(c)' /\ Told(req'[c])
    BY <2>3, <2>4 DEF Listed
  <2> QED
    BY <1>1, <1>2, <2>1, <2>4, <2>5, ConnectionStep
<1> QED
  BY <1>4, <1>5, <1>6

(* The handler chain. *)
LEMMA ChainStep ==
    ASSUME PathInv, [Next]_vars, NEW c \in Conns,
           \/ Gate(c) \/ MuxAnswers(c) \/ ReadCurrent(c) \/ RespondJWKS(c) \/ Audit(c)
    PROVE  PathInv'
<1>1. req \in [Conns -> Requests] /\ Told(req[c]) /\ published \in Bodies
  BY DEF PathInv, Types
<1>2. HandledWell(c)
  BY <1>1, GateHandled, MuxHandled, JWKSHandled, AuditHandled
<1>3. UNCHANGED <<boot, conf, published, fresh, source, validateVars>>
  BY DEF Gate, MuxAnswers, ReadCurrent, RespondJWKS, Audit, Step
<1>4. req[c] # NoRequest
  <2>1. req[c].pc # "idle"
    BY DEF Gate, MuxAnswers, ReadCurrent, RespondJWKS, Audit, Step
  <2>2. NoRequest.pc = "idle"
    BY DEF NoRequest
  <2> QED
    BY <2>1, <2>2
<1>5. boot # "start" /\ source[c] # "closed"
  BY <1>4 DEF PathInv, Quiet
<1>6. Listed(c)'
  BY <1>2, <1>3 DEF HandledWell, PathInv, Listed
<1>7. source' \in [Conns -> Addrs \cup {NoAddr, "closed"}]
  BY <1>3 DEF PathInv, Types
<1> QED
  BY <1>2, <1>3, <1>5, <1>6, <1>7, ConnectionStep DEF HandledWell

(* The inductive invariant of the public path: how far validation has      *)
(* come, what is published, and for every request what it was told and     *)
(* that it was let in.                                                     *)
THEOREM PathInvariant == Spec => []PathInv
<1>1. Init => PathInv
  <2> SUFFICES ASSUME Init PROVE PathInv
    OBVIOUS
  <2>1. <<>> \in Bodies
    BY DEF Bodies
  <2>2. NoRequest \in Requests
    BY <2>1 DEF NoRequest, Requests, PCs, Methods, Targets, Routes
  <2>3. Types
    BY <2>1, <2>2, NoConfTyped DEF Init, Types
  <2>4. Loop /\ Quiet
    BY DEF Init, ValidateInit, Loop, Quiet
  <2>5. \A c \in Conns : Told(req[c]) /\ Listed(c)
    BY DEF Init, NoRequest, Told, Listed, InChain
  <2> QED
    BY <2>3, <2>4, <2>5 DEF PathInv
<1>2. PathInv /\ [Next]_vars => PathInv'
  <2> SUFFICES ASSUME PathInv, [Next]_vars PROVE PathInv'
    OBVIOUS
  <2>0. fresh \in BOOLEAN /\ published \in Bodies
    BY DEF PathInv, Types
  <2>1. ASSUME NEW env \in Environments, Start(env) PROVE PathInv'
    BY <2>1, StartStep
  <2>2. CASE (\E d \in Documents : Fetch(d)) \/ Validate
    <3>1. /\ UNCHANGED pathVars
          /\ boot = "start" => verdict' = verdict
      BY <2>2 DEF Fetch, Validate, AcceptKey, RejectKey, AcceptDocument, PathInv, Quiet
    <3> QED
      BY <2>0, <3>1, UndisturbedStep DEF pathVars
  <2>3. CASE Store
    <3>1. /\ published' = out /\ verdict = "ok" /\ fresh' = TRUE
          /\ UNCHANGED <<boot, conf, source, req>>
      BY <2>3 DEF Store
    <3>2. boot # "start" /\ published' \in Bodies
      BY <3>1, AcceptedIsPublishable DEF PathInv, Quiet, Bodies
    <3> QED
      BY <3>1, <3>2, UndisturbedStep
  <2>4. CASE Discard
    <3>1. /\ boot' \in {boot, "primeFailed"} /\ verdict = "error"
          /\ UNCHANGED <<conf, published, fresh, source, req>>
      BY <2>4 DEF Discard
    <3>2. boot # "start"
      BY <3>1 DEF PathInv, Quiet
    <3> QED
      BY <2>0, <3>1, <3>2, UndisturbedStep
  <2>5. CASE Lapse
    <3>1. /\ fresh' = FALSE /\ UNCHANGED <<boot, conf, published, source, req, verdict>>
      BY <2>5 DEF Lapse, validateVars
    <3> QED
      BY <2>0, <3>1, UndisturbedStep
  <2>6. ASSUME NEW c \in Conns, ConnStep(c) PROVE PathInv'
    BY <2>6, ConnectionEvents, ChainStep DEF ConnStep
  <2>7. CASE UNCHANGED vars
    BY <2>0, <2>7, UndisturbedStep DEF vars, pathVars, validateVars
  <2> QED
    BY <2>1, <2>2, <2>3, <2>4, <2>5, <2>6, <2>7 DEF Next, Ended
<1> QED
  BY <1>1, <1>2, PTL DEF Spec

(* Every variable of the public path keeps its type. *)
THEOREM PathTypeCorrect == Spec => []TypeOK
<1>1. PathInv => TypeOK
  BY DEF PathInv, Types, Loop, TypeOK, Requests, PCs
<1> QED
  BY <1>1, PathInvariant, PTL

(* Whatever Load accepts, the tickers start and leader.Run's own           *)
(* validation has nothing to object to; what client-go refuses beyond that *)
(* are the renew deadlines between 1 and 1.2 times the retry period.       *)
THEOREM AcceptedAlwaysStarts == Spec => []AcceptedStarts
<1>1. Init => AcceptedStarts
  BY DEF Init, AcceptedStarts
<1>2. AcceptedStarts /\ [Next]_vars => AcceptedStarts'
  <2> SUFFICES ASSUME AcceptedStarts, [Next]_vars PROVE AcceptedStarts'
    OBVIOUS
  <2>1. ASSUME NEW env \in Environments, Start(env) PROVE AcceptedStarts'
    <3>1. CASE Accepted(env)
      <4>1. /\ boot' = Outcome(env) /\ conf'.renew = Durations(env).renew
            /\ conf'.retry = Durations(env).retry
        BY <2>1, <3>1 DEF Start
      <4> QED
        BY <3>1, <4>1, AcceptedIsUsable DEF Outcome, AcceptedStarts
    <3>2. CASE ~Accepted(env)
      BY <2>1, <3>2 DEF Start, AcceptedStarts
    <3> QED
      BY <3>1, <3>2
  <2>2. CASE Discard
    BY <2>2 DEF Discard, AcceptedStarts
  <2>3. CASE UNCHANGED <<boot, conf>>
    BY <2>3 DEF AcceptedStarts
  <2> QED
    BY <2>1, <2>2, <2>3
       DEF Next, vars, pathVars, Fetch, Validate, Store, Lapse, Ended, ConnStep, Accept,
           Hangup, Receive, Gate, MuxAnswers, ReadCurrent, RespondJWKS, Audit, Step
<1> QED
  BY <1>1, <1>2, PTL DEF Spec

(* No part of any issuer is a delimiter with nothing behind it. *)
NoBareDelimiter ==
    \A env \in Environments :
        /\ env.issuer.port \in {"absent", "given"}
        /\ env.issuer.path \in {"absent", "given"}
        /\ env.issuer.query \in {"absent", "given"}
        /\ env.issuer.fragment \in {"absent", "given"}

(* validateIssuerURL leaves nothing then but https and a host. *)
LEMMA AcceptedAdvertises ==
    ASSUME NoBareDelimiter, NEW env \in Environments, Accepted(env)
    PROVE  env.issuer.host = "given" /\ JWKSURITarget(env.issuer) = "jwks"
<1>1. /\ env.issuer.port = "absent" /\ env.issuer.path = "absent"
      /\ env.issuer.query = "absent" /\ env.issuer.fragment = "absent"
  BY DEF NoBareDelimiter, Accepted, ValidateIssuerURL, NoText
<1> QED
  BY <1>1 DEF Accepted, ValidateIssuerURL, HasHost, JWKSURITarget, AppendsToPath

(* The issuers of the finding are the only ones: where no issuer has a     *)
(* bare delimiter, every process that serves advertises a jwks_uri with a  *)
(* host and with the path it serves.                                       *)
THEOREM AdvertisedIsAlwaysServed ==
    ASSUME NoBareDelimiter PROVE Spec => []AdvertisedIsServed
<1>1. Init => AdvertisedIsServed
  BY DEF Init, AdvertisedIsServed
<1>2. AdvertisedIsServed /\ [Next]_vars => AdvertisedIsServed'
  <2> SUFFICES ASSUME AdvertisedIsServed, [Next]_vars PROVE AdvertisedIsServed'
    OBVIOUS
  <2>1. ASSUME NEW env \in Environments, Start(env) PROVE AdvertisedIsServed'
    <3>1. boot' = "serving" => Accepted(env) /\ conf'.issuer = env.issuer
      BY <2>1 DEF Start
    <3> QED
      BY <3>1, AcceptedAdvertises DEF AdvertisedIsServed, JWKSURITarget, AppendsToPath
  <2>2. CASE Discard
    BY <2>2 DEF Discard, AdvertisedIsServed, JWKSURITarget, AppendsToPath
  <2>3. CASE UNCHANGED <<boot, conf>>
    BY <2>3 DEF AdvertisedIsServed, JWKSURITarget, AppendsToPath
  <2> QED
    BY <2>1, <2>2, <2>3
       DEF Next, vars, pathVars, Fetch, Validate, Store, Lapse, Ended, ConnStep, Accept,
           Hangup, Receive, Gate, MuxAnswers, ReadCurrent, RespondJWKS, Audit, Step
<1> QED
  BY <1>1, <1>2, PTL DEF Spec

(* No request of a client that is not listed gets past the allowlist. *)
THEOREM AllowlistIsClosed == Spec => []OnlyListedAreAnswered
<1>1. PathInv => OnlyListedAreAnswered
  BY DEF PathInv, Listed, InChain, OnlyListedAreAnswered
<1> QED
  BY <1>1, PathInvariant, PTL

(* The decision in an audit event is the one the client was told. *)
THEOREM AuditIsTrue == Spec => []AuditMatchesAnswer
<1>1. PathInv => AuditMatchesAnswer
  BY DEF PathInv, Told, Matches, Audited, AuditMatchesAnswer
<1> QED
  BY <1>1, PathInvariant, PTL

(* Every JWKS a client gets is a whole document of the API server that     *)
(* ParseAndValidate has accepted key by key, and fit to be published.      *)
THEOREM ServedKeysAreAcceptable == Spec => []OnlyAcceptableKeysServed
<1>1. PathInv => OnlyAcceptableKeysServed
  <2> SUFFICES ASSUME PathInv, NEW c \in Conns, req[c].body # <<>>
               PROVE  /\ Acceptable(req[c].body)
                      /\ \E d \in Documents : d.keys = req[c].body
    BY DEF OnlyAcceptableKeysServed
  <2>1. req[c].body \in Publishable
    BY DEF PathInv, Types, Requests, Bodies
  <2> QED
    BY <2>1 DEF Publishable
<1> QED
  BY <1>1, PathInvariant, PTL
=============================================================================
