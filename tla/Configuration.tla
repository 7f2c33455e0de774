---------------------------- MODULE Configuration ----------------------------
(***************************************************************************)
(* Load and validate of internal/config/config.go, and the checks that the *)
(* rest of the program makes again, or relies on: validate and             *)
(* NewLeaderElector in internal/leader/elector.go, and the tickers.        *)
(*                                                                         *)
(* An environment is a record.  A part of the issuer URL is "absent",      *)
(* "given", or "empty" when its delimiter is there and nothing else; an    *)
(* issuer that is not set, or that url.Parse rejects, has no scheme.  A    *)
(* duration is Unset, Malformed or a number of seconds; a CIDR of the      *)
(* allowlist is Blank, Malformed or the set of addresses it contains.      *)
(***************************************************************************)
EXTENDS Integers, Sequences

CONSTANTS Unset, Malformed, Blank

-----------------------------------------------------------------------------
(* loadDurations and loadAllowlist.                                        *)

Defaults == [ttl |-> 60, maxAge |-> 60, discovery |-> 3600, startup |-> 30,
             start |-> 30, shutdown |-> 10, poll |-> 15,
             lease |-> 15, renew |-> 10, retry |-> 2]

MinJWKSCacheTTL == 5

Durations(env) ==
    [d \in DOMAIN Defaults |-> IF env.durations[d] = Unset
                               THEN Defaults[d] ELSE env.durations[d]]

Items(s) == {s[i] : i \in DOMAIN s}

(* What is left of the list once blank items are skipped. *)
CIDRs(env) == Items(env.cidrs) \ {Blank}

-----------------------------------------------------------------------------
(* validate, check by check.                                               *)

(* u.Host is the host with its port: empty only when both are. *)
HasHost(issuer) == issuer.host = "given" \/ issuer.port # "absent"

(* A part url.Parse returns as the empty string, delimiter or not. *)
NoText(part) == part # "given"

(* Parses, https, a host and nothing else. *)
ValidateIssuerURL(issuer) ==
    /\ issuer.scheme = "https" /\ HasHost(issuer) /\ NoText(issuer.port)
    /\ NoText(issuer.path) /\ NoText(issuer.query) /\ NoText(issuer.fragment)
    /\ issuer.user = "absent"

RemovedEnvVars == {"JWKS_UPSTREAM_URL", "TS_API_BASE_URL", "JWKS_UPSTREAM_TOKEN_PATH",
                   "JWKS_UPSTREAM_CA_PATH", "DEV_LISTEN_ADDR"}

ProdRequired == {"TS_HOSTNAME", "TS_STATE_SECRET", "TS_API_CLIENT_ID",
                 "TS_API_CLIENT_SECRET", "TS_TAG"}

ValidateProdRequired(env) == ProdRequired \subseteq env.present /\ env.tagPrefixed

ValidateAllowlist(env) == env.allowlist => CIDRs(env) # {}

(* envDefault: the pod's own name and namespace stand in. *)
Named(env, name, fallback) == name \in env.present \/ fallback \in env.present

(* Fault variant: equal periods are accepted. *)
ValidateLeaderElectionLoose(env) ==
    env.leaderElection =>
        LET d == Durations(env) IN
        /\ "LEADER_ELECTION_LEASE_NAME" \in env.present
        /\ Named(env, "LEADER_ELECTION_NAMESPACE", "POD_NAMESPACE")
        /\ Named(env, "LEADER_ELECTION_IDENTITY", "POD_NAME")
        /\ d.lease >= d.renew /\ d.renew >= d.retry

ValidateLeaderElection(env) ==
    env.leaderElection =>
        LET d == Durations(env) IN
        /\ "LEADER_ELECTION_LEASE_NAME" \in env.present
        /\ Named(env, "LEADER_ELECTION_NAMESPACE", "POD_NAMESPACE")
        /\ Named(env, "LEADER_ELECTION_IDENTITY", "POD_NAME")
        /\ d.lease > d.renew /\ d.renew > d.retry

ValidateDurations(env) ==
    /\ \A d \in DOMAIN Defaults : Durations(env)[d] > 0
    /\ Durations(env).ttl >= MinJWKSCacheTTL

(* What Load parses before it validates: it stops at the first value it    *)
(* cannot read, durations first.                                           *)
Readable(env) ==
    /\ \A d \in DOMAIN Defaults : env.durations[d] # Malformed
    /\ env.logging # Malformed
    /\ Malformed \notin Items(env.cidrs)

(* Load returns a configuration, and no error. *)
Accepted(env) ==
    /\ Readable(env)
    /\ RemovedEnvVars \cap env.present = {}
    /\ ValidateIssuerURL(env.issuer) /\ ValidateProdRequired(env)
    /\ ValidateAllowlist(env) /\ ValidateLeaderElection(env)
    /\ ValidateDurations(env)

-----------------------------------------------------------------------------
(* What the configuration meets later.                                     *)

(* leader.Run: defaults for zero periods, then validate. *)
ElectorPeriod(given, default) == IF given = 0 THEN default ELSE given

LeaseDuration(env) == ElectorPeriod(Durations(env).lease, 15)
RenewDeadline(env) == ElectorPeriod(Durations(env).renew, 10)
RetryPeriod(env) == ElectorPeriod(Durations(env).retry, 2)

ElectorAccepts(env) ==
    LET lease == LeaseDuration(env)
        renew == RenewDeadline(env)
        retry == RetryPeriod(env)
    IN  /\ "LEADER_ELECTION_LEASE_NAME" \in env.present
        /\ Named(env, "LEADER_ELECTION_NAMESPACE", "POD_NAMESPACE")
        /\ Named(env, "LEADER_ELECTION_IDENTITY", "POD_NAME")
        /\ lease > 0 /\ renew > 0 /\ retry > 0
        /\ lease > renew /\ renew > retry

(* Then client-go's NewLeaderElector (external): what validate checks, and *)
(* that the renew deadline exceeds a retry stretched by JitterFactor, 1.2. *)
NewLeaderElectorAccepts(env) ==
    LeaseDuration(env) > RenewDeadline(env) /\ 5 * RenewDeadline(env) > 6 * RetryPeriod(env)

(* time.NewTicker panics unless its period is positive. *)
TickersStart(env) == Durations(env).ttl > 0 /\ Durations(env).poll > 0
=============================================================================
