----------------------------- MODULE JWKSGauges -----------------------------
(***************************************************************************)
(* The gauges jwks_ready, jwks_age_seconds and jwks_keys of                *)
(* internal/metrics/metrics.go beside the cache they describe.             *)
(*                                                                         *)
(* The cache measures ages on the monotonic clock, now.  The metrics keep  *)
(* a time of their own, taken after the store from the wall clock, which   *)
(* may be set forward or back.  updateJWKSState stores its three values    *)
(* one after the other; scrapes begin when Prime has returned.             *)
(***************************************************************************)
EXTENDS JWKSCache

CONSTANTS
    Skew   \* bound: how far the wall clock may be off, either way

ASSUME GaugesAssumption == Skew \in Nat

VARIABLES
    offset,         \* wall clock minus now
    recording,      \* the next store of updateJWKSState
    jwksUpdatedAt,  \* wall clock, 0 before the first record
    jwksKidCount,
    jwksHasValue

gaugeVars == <<jwksUpdatedAt, jwksKidCount, jwksHasValue>>
gaugesVars == <<vars, offset, recording, gaugeVars>>

Wall == now + offset

(* A key set of its own size for each version. *)
KidCount(v) == v

GaugesInit ==
    /\ Init
    /\ offset = Skew + 1
    /\ recording = "none"
    /\ jwksUpdatedAt = 0 /\ jwksKidCount = 0 /\ jwksHasValue = FALSE

-----------------------------------------------------------------------------
(* The gauge functions.                                                    *)

(* Fault variant: an age may be negative. *)
JwksAgeSecondsUnclamped ==
    IF ~jwksHasValue \/ jwksUpdatedAt = 0 THEN 0 ELSE Wall - jwksUpdatedAt

JwksAgeSeconds ==
    IF ~jwksHasValue \/ jwksUpdatedAt = 0 \/ Wall < jwksUpdatedAt
    THEN 0 ELSE Wall - jwksUpdatedAt

(* Fault variant: the recorder is given the maximum age alone. *)
JwksStaleWindowNoTTL == MaxAge

(* What setupProcess passes to metrics.New. *)
JwksStaleWindow == TTL + MaxAge

JwksReadyValue ==
    jwksHasValue /\ JwksStaleWindow > 0 /\ JwksAgeSeconds <= JwksStaleWindow

JwksKidCountValue == IF JwksReadyValue THEN jwksKidCount ELSE 0

-----------------------------------------------------------------------------
(* A store is recorded by the goroutine that made it. *)
StoreAndRecord ==
    /\ FetchOk
    /\ recording' = "at"
    /\ UNCHANGED <<offset, gaugeVars>>

Record(from, to) ==
    /\ recording = from /\ recording' = to
    /\ UNCHANGED <<vars, offset>>

RecordAt ==
    /\ Record("at", "count")
    /\ jwksUpdatedAt' = Wall /\ UNCHANGED <<jwksKidCount, jwksHasValue>>

(* Fault variant: the number of keys is that of the first record. *)
RecordCountOnce ==
    /\ Record("count", "has")
    /\ jwksKidCount' = IF jwksHasValue THEN jwksKidCount ELSE KidCount(current)
    /\ UNCHANGED <<jwksUpdatedAt, jwksHasValue>>

RecordCount ==
    /\ Record("count", "has")
    /\ jwksKidCount' = KidCount(current)
    /\ UNCHANGED <<jwksUpdatedAt, jwksHasValue>>

RecordHas ==
    /\ Record("has", "none")
    /\ jwksHasValue' = TRUE /\ UNCHANGED <<jwksUpdatedAt, jwksKidCount>>

(* Time does not pass the end of a record, nor a tick the loop is free to  *)
(* take; the record of start-up takes none.                                *)
TimePasses ==
    /\ Tick
    /\ IF recording = "none" THEN ~(loop = "idle" /\ pending)
                             ELSE jwksHasValue /\ now < updatedAt + RecordDelay
    /\ UNCHANGED <<offset, recording, gaugeVars>>

ClockIsSet ==
    /\ offset' \in 1..(2 * Skew + 1) \ {offset}
    /\ UNCHANGED <<vars, recording, gaugeVars>>

(* The loop goes on when it has recorded; nothing is served before Prime   *)
(* has returned.                                                           *)
CacheSteps ==
    /\ \/ recording = "none" /\ (BeginRefresh \/ Stop)
       \/ jwksHasValue /\ HandlerCurrent
       \/ Rotate \/ Answer \/ Cancel \/ FetchFail \/ HandlerRespond \/ Dead
    /\ UNCHANGED <<offset, recording, gaugeVars>>

GaugesNext ==
    \/ StoreAndRecord \/ RecordAt \/ RecordCount \/ RecordHas
    \/ TimePasses \/ ClockIsSet \/ CacheSteps

GaugesSpec == GaugesInit /\ [][GaugesNext]_gaugesVars

-----------------------------------------------------------------------------
(* Properties.                                                             *)

(* Every variable has its type, and no gauge is negative. *)
GaugesTypeOK ==
    /\ offset \in 1..(2 * Skew + 1)
    /\ recording \in {"none", "at", "count", "has"}
    /\ jwksUpdatedAt \in Nat /\ jwksKidCount \in 0..Versions
    /\ jwksHasValue \in BOOLEAN
    /\ JwksAgeSeconds \in Nat

(* How far setting the clock may move an age. *)
Shift == 2 * Skew

(* jwks_ready and Cache.Ready, which are computed apart, differ only       *)
(* around the end of the stale window: by the time a record takes and by   *)
(* what the wall clock was set, and without either only at its last        *)
(* instant, where the gauge still says ready.                              *)
GaugeTracksReady ==
    /\ (JwksReadyValue /\ ~Ready) =>
           now - updatedAt <= TTL + MaxAge + RecordDelay + Shift
    /\ (Ready /\ recording = "none" /\ ~JwksReadyValue) =>
           now - updatedAt > TTL + MaxAge - Shift

(* Between records jwks_keys is the size of the key set that is served, or *)
(* zero where jwks_ready is.                                               *)
KeysGaugeTruthful ==
    (jwksHasValue /\ recording = "none" /\ Ready) =>
        JwksKidCountValue \in {KidCount(current), 0}
            /\ (JwksKidCountValue = 0 <=> ~JwksReadyValue)
=============================================================================
