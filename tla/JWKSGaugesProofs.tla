-------------------------- MODULE JWKSGaugesProofs --------------------------
(***************************************************************************)
(* Proofs, for every delay of a record and every setting of the wall       *)
(* clock, that the JWKS gauges of metrics.go follow the cache.  The gauges *)
(* only watch: what is proved of the cache holds beside them.              *)
(***************************************************************************)
EXTENDS JWKSGauges, JWKSCacheProofs

(* A step of the gauges' specification is a step of the cache or leaves it *)
(* alone.                                                                  *)
LEMMA CacheStep == [GaugesNext]_gaugesVars => [Next]_vars
BY DEF GaugesNext, gaugesVars, StoreAndRecord, Record, RecordAt, RecordCount,
       RecordHas, TimePasses, ClockIsSet, CacheSteps, Next

(* Recording, scraping and setting the wall clock never change what the    *)
(* cache may do.                                                           *)
THEOREM GaugesOnlyWatch == GaugesSpec => Spec
<1>1. GaugesInit => Init
  BY DEF GaugesInit
<1> QED
  BY <1>1, CacheStep, PTL DEF GaugesSpec, Spec

-----------------------------------------------------------------------------
(* The inductive invariant.                                                *)

RecordTypes ==
    /\ offset \in 1..(2 * Skew + 1)
    /\ recording \in {"none", "at", "count", "has"}
    /\ jwksUpdatedAt \in Nat /\ jwksKidCount \in 0..Versions
    /\ jwksHasValue \in BOOLEAN

(* A record belongs to the latest store, by a loop that is not fetching,   *)
(* and ends in time; a stored value is recorded or being recorded.         *)
RecordInTime ==
    /\ recording # "none" =>
          loop = "idle" /\ current # None /\ now <= updatedAt + RecordDelay
    /\ jwksHasValue => current # None
    /\ (current # None /\ recording = "none") => jwksHasValue

(* The time recorded is that of the latest store, late by the delay of the *)
(* record and off by the setting of the clock.                             *)
Stamped ==
    (recording \in {"count", "has"} \/ (recording = "none" /\ jwksHasValue)) =>
        /\ updatedAt + 1 <= jwksUpdatedAt
        /\ jwksUpdatedAt <= updatedAt + RecordDelay + 2 * Skew + 1

Counted ==
    (recording = "has" \/ (recording = "none" /\ jwksHasValue)) =>
        jwksKidCount = current

GInv == RecordTypes /\ RecordInTime /\ Stamped /\ Counted

(* The cache's own steps, other than a store, are no store. *)
LEMMA CacheStepsStoreNothing ==
    ASSUME IInv, GInv, CacheSteps \/ TimePasses
    PROVE  /\ UNCHANGED <<current, updatedAt, offset, recording, jwksUpdatedAt,
                          jwksKidCount, jwksHasValue>>
           /\ recording # "none" => loop' = loop /\ now' <= updatedAt + RecordDelay
<1>0. now \in Nat /\ updatedAt \in Nat /\ RecordDelay \in Nat
  BY CacheAssumption DEF IInv, TypeOK
<1>1. CASE TimePasses
  BY <1>0, <1>1 DEF TimePasses, Tick, cacheVars, gaugeVars
<1>2. CASE CacheSteps
  <2>1. UNCHANGED <<current, updatedAt, now>>
    BY <1>2 DEF CacheSteps, BeginRefresh, Stop, HandlerCurrent, Rotate, Answer,
       Cancel, FetchFail, HandlerRespond, Dead, vars, cacheVars
  <2>2. UNCHANGED <<offset, recording, jwksUpdatedAt, jwksKidCount, jwksHasValue>>
    BY <1>2 DEF CacheSteps, gaugeVars
  <2>3. recording # "none" => loop' = loop /\ now <= updatedAt + RecordDelay
    <3> SUFFICES ASSUME recording # "none"
                 PROVE  loop' = loop /\ now <= updatedAt + RecordDelay
      OBVIOUS
    <3>1. loop = "idle" /\ now <= updatedAt + RecordDelay
      BY DEF GInv, RecordInTime
    <3> QED
      BY <1>2, <3>1 DEF CacheSteps, HandlerCurrent, Rotate, Answer, Cancel,
         FetchFail, Fetching, HandlerRespond, Dead, vars, loopVars
  <2> QED
    BY <2>1, <2>2, <2>3
<1> QED
  BY <1>1, <1>2

LEMMA RecordStep == IInv /\ GInv /\ [GaugesNext]_gaugesVars => GInv'
<1> SUFFICES ASSUME IInv, GInv, [GaugesNext]_gaugesVars PROVE GInv'
  OBVIOUS
<1>0. /\ now \in Nat /\ updatedAt \in Nat /\ current \in 0..Versions
      /\ updatedAt <= now /\ RecordDelay \in Nat /\ Skew \in Nat
      /\ reply \in 0..Versions /\ Versions \in Nat
  BY GaugesAssumption, CacheAssumption DEF IInv, TypeOK, Clocks
<1>1. CASE StoreAndRecord
  <2>1. /\ loop' = "idle" /\ current' = reply /\ reply # None
        /\ updatedAt' = now /\ now' = now
    BY <1>1 DEF StoreAndRecord, FetchOk
  <2>2. recording' = "at" /\ UNCHANGED <<offset, jwksUpdatedAt, jwksKidCount, jwksHasValue>>
    BY <1>1 DEF StoreAndRecord, gaugeVars
  <2> QED
    BY <1>0, <2>1, <2>2 DEF GInv, RecordTypes, RecordInTime, Stamped, Counted
<1>2. CASE RecordAt \/ RecordCount \/ RecordHas
  <2>1. UNCHANGED <<loop, now, current, updatedAt, offset>>
    BY <1>2 DEF RecordAt, RecordCount, RecordHas, Record, vars, loopVars, cacheVars
  <2>2. CASE RecordAt
    <3>1. /\ recording = "at" /\ recording' = "count"
          /\ jwksUpdatedAt' = now + offset
          /\ UNCHANGED <<jwksKidCount, jwksHasValue>>
      BY <2>2 DEF RecordAt, Record, Wall
    <3> QED
      BY <1>0, <2>1, <3>1 DEF GInv, RecordTypes, RecordInTime, Stamped, Counted
  <2>3. CASE RecordCount
    <3>1. /\ recording = "count" /\ recording' = "has"
          /\ jwksKidCount' = current
          /\ UNCHANGED <<jwksUpdatedAt, jwksHasValue>>
      BY <2>3 DEF RecordCount, Record, KidCount
    <3> QED
      BY <1>0, <2>1, <3>1 DEF GInv, RecordTypes, RecordInTime, Stamped, Counted
  <2>4. CASE RecordHas
    <3>1. /\ recording = "has" /\ recording' = "none" /\ jwksHasValue' = TRUE
          /\ UNCHANGED <<jwksUpdatedAt, jwksKidCount>>
      BY <2>4 DEF RecordHas, Record
    <3> QED
      BY <1>0, <2>1, <3>1 DEF GInv, RecordTypes, RecordInTime, Stamped, Counted
  <2> QED
    BY <1>2, <2>2, <2>3, <2>4
<1>3. CASE ClockIsSet
  <2>1. /\ UNCHANGED <<loop, now, current, updatedAt, recording,
                       jwksUpdatedAt, jwksKidCount, jwksHasValue>>
        /\ offset' \in 1..(2 * Skew + 1)
    BY <1>3 DEF ClockIsSet, vars, loopVars, cacheVars, gaugeVars
  <2> QED
    BY <2>1 DEF GInv, RecordTypes, RecordInTime, Stamped, Counted
<1>4. CASE CacheSteps \/ TimePasses
  BY <1>4, CacheStepsStoreNothing DEF GInv, RecordTypes, RecordInTime, Stamped, Counted
<1>5. CASE UNCHANGED gaugesVars
  BY <1>5 DEF gaugesVars, vars, loopVars, cacheVars, gaugeVars,
     GInv, RecordTypes, RecordInTime, Stamped, Counted
<1> QED
  BY <1>1, <1>2, <1>3, <1>4, <1>5 DEF GaugesNext

(* Throughout, what the gauges hold stems from the latest store. *)
THEOREM GaugesInvariant == GaugesSpec => [](IInv /\ GInv)
<1>1. GaugesInit => GInv
  <2> SUFFICES ASSUME GaugesInit PROVE GInv
    OBVIOUS
  <2>1. /\ offset = Skew + 1 /\ recording = "none" /\ jwksUpdatedAt = 0
        /\ jwksKidCount = 0 /\ jwksHasValue = FALSE /\ current = None
    BY DEF GaugesInit, Init
  <2>2. Skew + 1 \in 1..(2 * Skew + 1) /\ 0 \in 0..Versions
    BY GaugesAssumption, CacheAssumption
  <2>3. RecordTypes
    BY <2>1, <2>2 DEF RecordTypes
  <2>4. RecordInTime /\ Stamped /\ Counted
    BY <2>1 DEF RecordInTime, Stamped, Counted
  <2> QED
    BY <2>3, <2>4 DEF GInv
<1>2. IInv /\ GInv /\ [GaugesNext]_gaugesVars => GInv'
  BY RecordStep
<1>3. GaugesSpec => []IInv
  BY GaugesOnlyWatch, CacheInvariant, PTL
<1> QED
  BY <1>1, <1>2, <1>3, PTL DEF GaugesSpec

-----------------------------------------------------------------------------
(* What follows from it.                                                   *)

(* Every variable keeps its type, and jwks_age_seconds is never negative,  *)
(* however the wall clock is set.                                          *)
THEOREM GaugesTypeCorrect == GaugesSpec => []GaugesTypeOK
<1>1. IInv /\ GInv => GaugesTypeOK
  <2> SUFFICES ASSUME IInv, GInv PROVE GaugesTypeOK
    OBVIOUS
  <2>1. now \in Nat /\ offset \in Nat /\ jwksUpdatedAt \in Nat
    BY GaugesAssumption DEF IInv, TypeOK, GInv, RecordTypes
  <2>2. JwksAgeSeconds \in Nat
    BY <2>1 DEF JwksAgeSeconds, Wall
  <2> QED
    BY <2>2 DEF GInv, RecordTypes, GaugesTypeOK
<1> QED
  BY <1>1, GaugesInvariant, PTL

(* jwks_ready and Cache.Ready part only around the end of the stale        *)
(* window, by no more than the delay of a record and the setting of the    *)
(* clock.                                                                  *)
THEOREM GaugeFollowsReady == GaugesSpec => []GaugeTracksReady
<1>1. IInv /\ GInv => GaugeTracksReady
  <2> SUFFICES ASSUME IInv, GInv PROVE GaugeTracksReady
    OBVIOUS
  <2>1. /\ now \in Nat /\ updatedAt \in Nat /\ jwksUpdatedAt \in Nat
        /\ offset \in 1..(2 * Skew + 1) /\ jwksHasValue \in BOOLEAN
    BY DEF IInv, TypeOK, GInv, RecordTypes
  <2>2. /\ TTL \in Nat \ {0} /\ MaxAge \in Nat \ {0}
        /\ RecordDelay \in Nat /\ Skew \in Nat
    BY GaugesAssumption, CacheAssumption
  <2>3. ASSUME JwksReadyValue, ~Ready
        PROVE  now - updatedAt <= TTL + MaxAge + RecordDelay + Shift
    <3>1. CASE recording # "none"
      <4>1. now <= updatedAt + RecordDelay
        BY <3>1 DEF GInv, RecordInTime
      <4> QED
        BY <2>1, <2>2, <4>1 DEF Shift
    <3>2. CASE recording = "none"
      <4>1. jwksHasValue
        BY <2>3 DEF JwksReadyValue
      <4>2. /\ updatedAt + 1 <= jwksUpdatedAt
            /\ jwksUpdatedAt <= updatedAt + RecordDelay + 2 * Skew + 1
        BY <3>2, <4>1 DEF GInv, Stamped
      <4>3. now + offset - jwksUpdatedAt <= TTL + MaxAge
        BY <2>1, <2>2, <2>3, <4>1, <4>2
           DEF JwksReadyValue, JwksAgeSeconds, JwksStaleWindow, Wall
      <4> QED
        BY <2>1, <2>2, <4>2, <4>3 DEF Shift
    <3> QED
      BY <3>1, <3>2
  <2>4. ASSUME Ready, recording = "none", ~JwksReadyValue
        PROVE  now - updatedAt > TTL + MaxAge - Shift
    <3>1. jwksHasValue
      BY <2>4 DEF Ready, GInv, RecordInTime
    <3>2. updatedAt + 1 <= jwksUpdatedAt
      BY <2>4, <3>1 DEF GInv, Stamped
    <3>3. now + offset - jwksUpdatedAt > TTL + MaxAge
      BY <2>1, <2>2, <2>4, <3>1, <3>2
         DEF JwksReadyValue, JwksAgeSeconds, JwksStaleWindow, Wall
    <3> QED
      BY <2>1, <2>2, <3>2, <3>3 DEF Shift
  <2> QED
    BY <2>3, <2>4 DEF GaugeTracksReady
<1> QED
  BY <1>1, GaugesInvariant, PTL

(* Between records jwks_keys counts the key set that is served, and is     *)
(* zero only where jwks_ready is.                                          *)
THEOREM KeysGaugeIsTrue == GaugesSpec => []KeysGaugeTruthful
<1>1. IInv /\ GInv => KeysGaugeTruthful
  <2> SUFFICES ASSUME IInv, GInv, jwksHasValue, recording = "none", Ready
               PROVE  /\ JwksKidCountValue \in {KidCount(current), 0}
                      /\ JwksKidCountValue = 0 <=> ~JwksReadyValue
    BY DEF KeysGaugeTruthful
  <2>1. jwksKidCount = current /\ current # 0
    BY DEF Ready, None, GInv, Counted
  <2> QED
    BY <2>1 DEF JwksKidCountValue, KidCount
<1> QED
  BY <1>1, GaugesInvariant, PTL
=============================================================================
