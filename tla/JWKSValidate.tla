---------------------------- MODULE JWKSValidate ----------------------------
(***************************************************************************)
(* ParseAndValidate of internal/oidc/jwks.go, one action per iteration of  *)
(* its loop and per early return.                                          *)
(*                                                                         *)
(* A document is what the JSON decoder makes of a response body: whether   *)
(* it decodes without unknown fields, what follows it ("none", a closing   *)
(* "bracket", which json.Decoder.More does not count, or "data"), and its  *)
(* keys.  A key has a kid ("" when missing), the fields that must have one *)
(* value, and n and e as "empty", "base64" or "text".                      *)
(***************************************************************************)
EXTENDS Integers, Sequences

CONSTANTS
    Documents,    \* bound: the response bodies of the API server
    MaxJWKSKeys

ASSUME MaxJWKSKeysAssumption == MaxJWKSKeys \in Nat \ {0}

(* What the decoder can put into a JWK. *)
JWKs == [kid : STRING, kty : STRING, alg : STRING, use : STRING,
         n : STRING, e : STRING]

ASSUME DocumentsAssumption == \A d \in Documents : d.keys \in Seq(JWKs)

VARIABLES
    doc,      \* the document under validation, raw
    idx,      \* i, counted from 1
    seen,     \* kids of the keys accepted so far
    out,      \* out.Keys
    verdict   \* "none", "running", "ok" or "error"

validateVars == <<doc, idx, seen, out, verdict>>

NoDocument == [decodes |-> FALSE, trailing |-> "none", keys |-> <<>>]

ValidateInit ==
    /\ doc = NoDocument /\ idx = 1 /\ seen = {} /\ out = <<>>
    /\ verdict = "none"

(* validateKey finds nothing wrong. *)
ValidateKey(k) ==
    /\ k.kid # "" /\ k.kty = "RSA" /\ k.alg = "RS256" /\ k.use = "sig"
    /\ k.n = "base64" /\ k.e = "base64"

(* The checks before the loop. *)
Admissible(d) ==
    /\ d.decodes /\ d.trailing # "data"
    /\ Len(d.keys) # 0 /\ Len(d.keys) <= MaxJWKSKeys

ParseDocument(d) ==
    /\ verdict = "none"
    /\ doc' = d /\ idx' = 1 /\ seen' = {} /\ out' = <<>>
    /\ verdict' = IF Admissible(d) THEN "running" ELSE "error"

(* Fault variant: a kid is accepted without being remembered. *)
AcceptKeyUnseen ==
    LET k == doc.keys[idx] IN
    /\ verdict = "running" /\ idx <= Len(doc.keys)
    /\ ValidateKey(k) /\ k.kid \notin seen
    /\ seen' = seen /\ out' = Append(out, k) /\ idx' = idx + 1
    /\ UNCHANGED <<doc, verdict>>

(* One iteration of the loop. *)
AcceptKey ==
    LET k == doc.keys[idx] IN
    /\ verdict = "running" /\ idx <= Len(doc.keys)
    /\ ValidateKey(k) /\ k.kid \notin seen
    /\ seen' = seen \cup {k.kid} /\ out' = Append(out, k) /\ idx' = idx + 1
    /\ UNCHANGED <<doc, verdict>>

RejectKey ==
    LET k == doc.keys[idx] IN
    /\ verdict = "running" /\ idx <= Len(doc.keys)
    /\ ~ValidateKey(k) \/ k.kid \in seen
    /\ verdict' = "error"
    /\ UNCHANGED <<doc, idx, seen, out>>

AcceptDocument ==
    /\ verdict = "running" /\ idx > Len(doc.keys)
    /\ verdict' = "ok"
    /\ UNCHANGED <<doc, idx, seen, out>>

-----------------------------------------------------------------------------
(* What a key set that may be published is: not the loop, but what it is   *)
(* for.                                                                    *)
Acceptable(keys) ==
    /\ Len(keys) \in 1..MaxJWKSKeys
    /\ \A i \in DOMAIN keys :
           /\ keys[i].kty = "RSA" /\ keys[i].alg = "RS256" /\ keys[i].use = "sig"
           /\ {keys[i].n, keys[i].e} = {"base64"}
           /\ keys[i].kid \notin {""} \cup {keys[j].kid : j \in DOMAIN keys \ {i}}
=============================================================================
