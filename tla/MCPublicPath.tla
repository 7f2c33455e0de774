---------------------------- MODULE MCPublicPath ----------------------------
(***************************************************************************)
(* Instances of PublicPath: environments that differ from a good one in    *)
(* one group of settings, and documents with at most one defect.  The      *)
(* periods of the election hold 7s/6s/5s, on client-go's factor of 1.2.    *)
(***************************************************************************)
EXTENDS PublicPath

CONSTANTS
    Parts,     \* what a part of the issuer URL may be
    a1, a2     \* two client addresses

GoodIssuer == [scheme |-> "https", user |-> "absent", host |-> "given",
               port |-> "absent", path |-> "absent", query |-> "absent",
               fragment |-> "absent"]

Required == ProdRequired \cup {"LEADER_ELECTION_LEASE_NAME", "POD_NAMESPACE", "POD_NAME"}

GoodEnv == [issuer |-> GoodIssuer, present |-> Required, tagPrefixed |-> TRUE,
            durations |-> [d \in DOMAIN Defaults |-> Unset], logging |-> "json",
            leaderElection |-> FALSE, allowlist |-> FALSE, cidrs |-> <<>>]

IssuerEnvs ==
    {[GoodEnv EXCEPT !.issuer = i] :
        i \in [scheme : {"https", "http", "none"}, user : Parts, host : Parts,
               port : Parts, path : Parts \ {"empty"}, query : Parts, fragment : Parts]}

AllowlistEnvs ==
    {[GoodEnv EXCEPT !.allowlist = on, !.cidrs = list] :
        on \in BOOLEAN,
        list \in UNION {[1..n -> {Blank, Malformed, {a1}, {a1, a2}}] : n \in 0..2}}

ElectionEnvs ==
    {[GoodEnv EXCEPT !.leaderElection = TRUE, !.durations.lease = l,
                     !.durations.renew = r, !.durations.retry = p,
                     !.present = Required \ missing] :
        l \in {Unset, 0, 6, 7}, r \in {Unset, 0, 6}, p \in {Unset, 0, 5},
        missing \in {{}, {"LEADER_ELECTION_LEASE_NAME"}, {"POD_NAMESPACE"}, {"POD_NAME"}}}

OtherEnvs ==
    UNION {{[GoodEnv EXCEPT !.durations[d] = v] :
                d \in DOMAIN Defaults, v \in {Malformed, -1, 0}},
           {[GoodEnv EXCEPT !.durations.ttl = v] : v \in {4, 5}},
           {[GoodEnv EXCEPT !.present = Required \ {v}] : v \in ProdRequired},
           {[GoodEnv EXCEPT !.present = Required \cup {v}] : v \in RemovedEnvVars},
           {[GoodEnv EXCEPT !.tagPrefixed = FALSE], [GoodEnv EXCEPT !.logging = Malformed]}}

MCEnvironments == UNION {IssuerEnvs, AllowlistEnvs, ElectionEnvs, OtherEnvs}

Key(kid) == [kid |-> kid, kty |-> "RSA", alg |-> "RS256", use |-> "sig",
             n |-> "base64", e |-> "base64"]

DefectiveKeys ==
    {Key("")} \cup {[Key("b") EXCEPT ![f] = v] :
                       f \in {"kty", "alg", "use", "n", "e"}, v \in {"empty", "text"}}

Document(keys) == [decodes |-> TRUE, trailing |-> "none", keys |-> keys]

(* MaxJWKSKeys is 2. *)
MCDocuments ==
    {Document(<<Key("a")>>), Document(<<Key("a"), Key("b")>>),
     Document(<<Key("a"), Key("a")>>), Document(<<Key("a"), Key("b"), Key("c")>>),
     Document(<<>>), [Document(<<Key("a")>>) EXCEPT !.decodes = FALSE],
     [Document(<<Key("a")>>) EXCEPT !.trailing = "data"],
     [Document(<<Key("c")>>) EXCEPT !.trailing = "bracket"]}
    \cup {Document(<<Key("a"), k>>) : k \in DefectiveKeys}
=============================================================================
