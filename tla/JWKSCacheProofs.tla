--------------------------- MODULE JWKSCacheProofs ---------------------------
(***************************************************************************)
(* Proofs, for all durations, rounding and horizons, of the two bounds     *)
(* JWKSCache is about: how long a retired key set can live on in client    *)
(* caches, and which durations make one missed refresh harmless.           *)
(***************************************************************************)
EXTENDS JWKSCache, TLAPS

(* The header rounds down. *)
LEMMA WholeSecondsBound ==
    ASSUME NEW d \in Nat PROVE WholeSeconds(d) \in 0..d
<1>1. Second \in Nat /\ Second > 0
  BY CacheAssumption
<1>2. d = Second * (d \div Second) + (d % Second) /\ d % Second \in 0..(Second - 1)
        /\ d \div Second \in Nat
  BY <1>1
<1> QED
  BY <1>1, <1>2 DEF WholeSeconds

-----------------------------------------------------------------------------
(* Exposure.  A version is stored at most FetchTimeout after its           *)
(* retirement, because the answer that carries it was given during the     *)
(* fetch (Overtaken); the window then runs from the store (Exposed).       *)

(* Order of the instants the variables hold. *)
Clocks ==
    /\ Fetching => (fetchStart <= now /\ now <= fetchStart + FetchTimeout)
    /\ updatedAt <= now
    /\ req.at <= now
    /\ req # NoRequest => now <= req.at + HandlerDelay
    /\ reply # None => Fetching

(* Nothing holds a version the API server does not have yet. *)
Known ==
    /\ reply <= upstream
    /\ current <= upstream
    /\ req.ver <= upstream
    /\ resp.ver <= upstream

(* How old a version can be when it is answered, and when it is stored. *)
Overtaken ==
    /\ reply \notin {None, upstream} => fetchStart <= retiredAt[reply]
    /\ current \notin {None, upstream} => updatedAt <= retiredAt[current] + FetchTimeout

(* What the handler grants counts from the store; what is granted now of a *)
(* current version counts from now.                                        *)
Exposed ==
    /\ req.ver \notin {None, upstream} =>
          req.at + req.maxAge <= retiredAt[req.ver] + ExposureWindow
    /\ resp.expires <= now + MaxAge
    /\ BoundedExposure

IInv == TypeOK /\ Clocks /\ Known /\ Overtaken /\ Exposed

(* What Current() grants a client, and from when. *)
LEMMA RemainingBound ==
    ASSUME TypeOK, Clocks, Ready
    PROVE  /\ WholeSeconds(Remaining) \in 0..MaxAge
           /\ now + WholeSeconds(Remaining) <= updatedAt + MaxAge + TTL
<1>1. /\ Remaining \in Nat /\ Remaining <= MaxAge
      /\ now + Remaining <= updatedAt + MaxAge + TTL
  BY CacheAssumption DEF TypeOK, Clocks, Ready, Remaining, StaleRemaining
<1>2. WholeSeconds(Remaining) \in 0..Remaining
  BY <1>1, WholeSecondsBound
<1> QED
  BY <1>1, <1>2, CacheAssumption DEF TypeOK

(* Every action keeps the types. *)
LEMMA TypeStep == IInv /\ [Next]_vars => TypeOK'
<1> SUFFICES ASSUME IInv, [Next]_vars PROVE TypeOK'
  OBVIOUS
<1> USE DEF serverVars, loopVars, cacheVars, httpVars
<1>0. TypeOK /\ Clocks
  BY DEF IInv
<1>1. CASE Tick
  <2>1. now \in Nat /\ nextTick \in Nat /\ pending \in BOOLEAN /\ TTL \in Nat
    BY <1>0, CacheAssumption DEF TypeOK
  <2>2. now' \in Nat /\ nextTick' \in Nat
    BY <1>1, <2>1 DEF Tick
  <2>3. pending' = TRUE \/ pending' = pending
    BY <1>1 DEF Tick
  <2> QED
    BY <1>0, <1>1, <2>2, <2>3 DEF Tick, TypeOK
<1>2. CASE Rotate
  BY <1>0, <1>2, CacheAssumption DEF Rotate, TypeOK
<1>3. CASE Answer \/ Cancel \/ BeginRefresh \/ Stop
  <2>1. upstream \in 0..Versions /\ 0 \in 0..Versions
    BY <1>0, CacheAssumption DEF TypeOK
  <2> QED
    BY <1>0, <1>3, <2>1 DEF TypeOK, Answer, Cancel, BeginRefresh, Stop, None
<1>4. CASE FetchOk \/ FetchFail
  <2>1. now \in Nat /\ nextTick \in Nat /\ misses \in 0..2 /\ TTL \in Nat
    BY <1>0, CacheAssumption DEF TypeOK
  <2>2. nextTick' \in Nat /\ misses' \in 0..2 /\ loop' \in {"idle", "dead"}
    BY <1>4, <2>1 DEF FetchOk, FetchFail
  <2>3. 0 \in 0..Versions
    BY CacheAssumption
  <2> QED
    BY <1>0, <1>4, <2>2, <2>3 DEF TypeOK, FetchOk, FetchFail, None
<1>5. CASE HandlerCurrent
  <2>1. Ready => WholeSeconds(Remaining) \in 0..MaxAge
    BY <1>0, RemainingBound
  <2>2. req' \in [at : Nat \cup {-1}, ver : 0..Versions, maxAge : 0..MaxAge]
    BY <1>0, <1>5, <2>1, CacheAssumption DEF HandlerCurrent, TypeOK, None
  <2> QED
    BY <1>0, <1>5, <2>2 DEF HandlerCurrent, TypeOK
<1>6. CASE HandlerRespond
  BY <1>0, <1>6, CacheAssumption DEF HandlerRespond, NoRequest, NoResponse, None, TypeOK
<1>7. CASE UNCHANGED vars
  BY <1>0, <1>7 DEF vars, TypeOK
<1> QED
  BY <1>1, <1>2, <1>3, <1>4, <1>5, <1>6, <1>7 DEF Next, Dead

(* Fetches, requests and stores are never later than now. *)
LEMMA ClocksStep == IInv /\ [Next]_vars => Clocks'
<1> SUFFICES ASSUME IInv, [Next]_vars PROVE Clocks'
  OBVIOUS
<1>0. /\ now \in Nat /\ fetchStart \in Nat /\ updatedAt \in Nat /\ req.at \in Int
      /\ FetchTimeout \in Nat /\ HandlerDelay \in Nat
      /\ Clocks
  BY CacheAssumption DEF IInv, TypeOK
<1> USE <1>0 DEF Clocks, Fetching, serverVars, loopVars, cacheVars, httpVars
<1>1. CASE Tick
  BY <1>1 DEF Tick, NothingDue
<1>2. CASE Rotate \/ Answer \/ Cancel
  BY <1>2 DEF Rotate, Answer, Cancel
<1>3. CASE FetchOk \/ FetchFail
  BY <1>3 DEF FetchOk, FetchFail
<1>4. CASE BeginRefresh \/ Stop
  BY <1>4 DEF BeginRefresh, Stop
<1>5. CASE HandlerCurrent
  BY <1>5 DEF HandlerCurrent
<1>6. CASE HandlerRespond
  BY <1>6 DEF HandlerRespond, NoRequest
<1>7. CASE UNCHANGED vars
  BY <1>7 DEF vars
<1> QED
  BY <1>1, <1>2, <1>3, <1>4, <1>5, <1>6, <1>7 DEF Next, Dead

(* Versions only travel from the API server inwards. *)
LEMMA KnownStep == IInv /\ [Next]_vars => Known'
<1> SUFFICES ASSUME IInv, [Next]_vars PROVE Known'
  OBVIOUS
<1> USE DEF IInv, TypeOK, Known, None, serverVars, loopVars, cacheVars, httpVars
<1>1. CASE Tick \/ Rotate \/ Answer \/ Cancel
  <2>1. CASE Tick
    BY <2>1 DEF Tick
  <2>2. CASE Rotate
    BY <2>2 DEF Rotate
  <2>3. CASE Answer
    BY <2>3 DEF Answer
  <2>4. CASE Cancel
    BY <2>4 DEF Cancel
  <2> QED
    BY <1>1, <2>1, <2>2, <2>3, <2>4
<1>2. CASE FetchOk \/ FetchFail \/ BeginRefresh \/ Stop
  BY <1>2 DEF FetchOk, FetchFail, BeginRefresh, Stop
<1>3. CASE HandlerCurrent
  BY <1>3 DEF HandlerCurrent
<1>4. CASE HandlerRespond
  BY <1>4 DEF HandlerRespond, NoRequest, NoResponse
<1>5. CASE UNCHANGED vars
  BY <1>5 DEF vars
<1> QED
  BY <1>1, <1>2, <1>3, <1>4, <1>5 DEF Next, Dead

(* A rotation during a fetch, or between two, cannot make a stored version *)
(* older than the fetch that brought it.                                   *)
LEMMA OvertakenStep == IInv /\ [Next]_vars => Overtaken'
<1> SUFFICES ASSUME IInv, [Next]_vars PROVE Overtaken'
  OBVIOUS
<1> USE CacheAssumption DEF IInv, TypeOK, Clocks, Known, Overtaken, None,
        serverVars, loopVars, cacheVars, httpVars
<1>1. CASE Tick \/ Answer \/ Cancel
  <2>1. CASE Tick
    BY <2>1 DEF Tick
  <2>2. CASE Answer
    BY <2>2 DEF Answer
  <2>3. CASE Cancel
    BY <2>3 DEF Cancel
  <2> QED
    BY <1>1, <2>1, <2>2, <2>3
<1>2. CASE Rotate
  BY <1>2 DEF Rotate
<1>3. CASE FetchOk
  BY <1>3 DEF FetchOk
<1>4. CASE FetchFail \/ BeginRefresh \/ Stop
  BY <1>4 DEF FetchFail, BeginRefresh, Stop
<1>5. CASE HandlerCurrent \/ HandlerRespond \/ UNCHANGED vars
  BY <1>5 DEF HandlerCurrent, HandlerRespond, vars
<1> QED
  BY <1>1, <1>2, <1>3, <1>4, <1>5 DEF Next, Dead

(* The bound survives the rotation that starts it and the rounding and the *)
(* delay that stretch it.                                                  *)
LEMMA ExposedStep == IInv /\ [Next]_vars => Exposed'
<1>a. SUFFICES ASSUME IInv, [Next]_vars PROVE Exposed'
  OBVIOUS
<1>b. /\ ExposureWindow \in Nat /\ MaxAge \in Nat /\ HandlerDelay \in Nat
      /\ FetchTimeout \in Nat /\ TTL \in Nat
  BY CacheAssumption DEF ExposureWindow
<1>c. /\ now \in Nat /\ updatedAt \in Nat /\ upstream \in 1..Versions
      /\ Versions \in Nat
      /\ \A v \in 1..Versions : retiredAt[v] \in Nat
  BY <1>a, CacheAssumption DEF IInv, TypeOK
<1>d. /\ req.at \in Int /\ req.maxAge \in 0..MaxAge
      /\ req.ver \in 0..Versions /\ req.ver <= upstream /\ req.at <= now
      /\ req.ver \notin {0, upstream} => req.at + req.maxAge <= retiredAt[req.ver] + ExposureWindow
  BY <1>a, <1>b, <1>c DEF IInv, TypeOK, Clocks, Known, Exposed, None
<1>e. /\ resp.expires \in Nat /\ resp.ver \in 0..Versions /\ resp.ver <= upstream
      /\ resp.expires <= now + MaxAge
      /\ (resp.ok /\ resp.ver \notin {0, upstream}) =>
            resp.expires <= retiredAt[resp.ver] + ExposureWindow + HandlerDelay
  BY <1>a, <1>b, <1>c DEF IInv, TypeOK, Known, Exposed, BoundedExposure, None
<1> SUFFICES
      /\ req'.ver \notin {0, upstream'} =>
            req'.at + req'.maxAge <= retiredAt'[req'.ver] + ExposureWindow
      /\ resp'.expires <= now' + MaxAge
      /\ (resp'.ok /\ resp'.ver \notin {0, upstream'}) =>
            resp'.expires <= retiredAt'[resp'.ver] + ExposureWindow + HandlerDelay
  BY TypeStep, <1>a, <1>b DEF Exposed, BoundedExposure, None, TypeOK
<1> USE DEF serverVars, loopVars, cacheVars, httpVars
<1>1. CASE Tick \/ Answer \/ Cancel
  <2>1. UNCHANGED <<req, resp, upstream, retiredAt>> /\ now' \in {now, now + 1}
    BY <1>1 DEF Tick, Answer, Cancel
  <2> QED
    BY <1>b, <1>c, <1>d, <1>e, <2>1
<1>2. CASE Rotate
  <2>1. /\ UNCHANGED <<now, req, resp>>
        /\ upstream' = upstream + 1
        /\ retiredAt' = [retiredAt EXCEPT ![upstream] = now]
    BY <1>2 DEF Rotate
  <2>2. \A v \in 1..Versions :
           retiredAt'[v] = IF v = upstream THEN now ELSE retiredAt[v]
    BY <1>a, <2>1 DEF IInv, TypeOK
  <2>3. ASSUME req.ver \notin {0, upstream'}
        PROVE  req.at + req.maxAge <= retiredAt'[req.ver] + ExposureWindow
    BY <1>b, <1>c, <1>d, <2>1, <2>2, <2>3 DEF ExposureWindow
  <2>4. ASSUME resp.ok, resp.ver \notin {0, upstream'}
        PROVE  resp.expires <= retiredAt'[resp.ver] + ExposureWindow + HandlerDelay
    BY <1>b, <1>c, <1>e, <2>1, <2>2, <2>4 DEF ExposureWindow
  <2> QED
    BY <1>b, <1>c, <1>e, <2>1, <2>3, <2>4
<1>3. CASE FetchOk \/ FetchFail \/ BeginRefresh \/ Stop
  <2>1. UNCHANGED <<now, req, resp, upstream, retiredAt>>
    BY <1>3 DEF FetchOk, FetchFail, BeginRefresh, Stop
  <2> QED
    BY <1>d, <1>e, <2>1
<1>4. CASE HandlerCurrent
  <2>1. UNCHANGED <<now, upstream, retiredAt, resp>>
    BY <1>4 DEF HandlerCurrent
  <2>2. CASE Ready
    <3> DEFINE g == WholeSeconds(Remaining)
    <3>1. req' = [at |-> now, ver |-> current, maxAge |-> g]
      BY <1>4, <2>2 DEF HandlerCurrent
    <3>2. g \in 0..MaxAge /\ now + g <= updatedAt + MaxAge + TTL
      BY <1>a, <2>2, RemainingBound DEF IInv
    <3>3. /\ current \in 0..Versions
          /\ current \notin {0, upstream} => updatedAt <= retiredAt[current] + FetchTimeout
      BY <1>a DEF IInv, TypeOK, Overtaken, None
    <3> HIDE DEF g
    <3>4. ASSUME current \notin {0, upstream}
          PROVE  now + g <= retiredAt[current] + ExposureWindow
      BY <1>b, <1>c, <3>2, <3>3, <3>4 DEF ExposureWindow
    <3> QED
      BY <1>e, <2>1, <3>1, <3>4
  <2>3. CASE ~Ready
    BY <1>4, <1>e, <2>1, <2>3 DEF HandlerCurrent, None
  <2> QED
    BY <2>2, <2>3
<1>5. CASE HandlerRespond
  <2>1. UNCHANGED <<now, upstream, retiredAt>> /\ req' = NoRequest
    BY <1>5 DEF HandlerRespond
  <2>2. CASE Serves
    <3>1. resp' = [ok |-> TRUE, ver |-> req.ver, expires |-> now + req.maxAge]
      BY <1>5, <2>2 DEF HandlerRespond
    <3>2. now <= req.at + HandlerDelay
      BY <1>a, <1>5 DEF HandlerRespond, IInv, Clocks
    <3>3. ASSUME req.ver \notin {0, upstream}
          PROVE  now + req.maxAge <= retiredAt[req.ver] + ExposureWindow + HandlerDelay
      BY <1>b, <1>c, <1>d, <3>2, <3>3
    <3> QED
      BY <1>b, <1>c, <1>d, <2>1, <3>1, <3>3 DEF NoRequest, None
  <2>3. CASE ~Serves
    BY <1>5, <1>b, <1>c, <2>1, <2>3 DEF HandlerRespond, NoRequest, NoResponse, None
  <2> QED
    BY <2>2, <2>3
<1>6. CASE UNCHANGED vars
  BY <1>6, <1>d, <1>e DEF vars
<1> QED
  BY <1>a, <1>1, <1>2, <1>3, <1>4, <1>5, <1>6 DEF Next, Dead

(* The inductive invariant holds in every reachable state of the cache. *)
THEOREM CacheInvariant == Spec => []IInv
<1>1. Init => IInv
  <2> SUFFICES ASSUME Init PROVE IInv
    OBVIOUS
  <2>1. TypeOK
    <3>1. 1 \in 1..Versions /\ 0 \in 0..Versions /\ 0 \in 0..MaxAge
      BY CacheAssumption
    <3>2. NoRequest \in [at : Nat \cup {-1}, ver : 0..Versions, maxAge : 0..MaxAge]
      BY <3>1 DEF NoRequest, None
    <3>3. NoResponse \in [ok : BOOLEAN, ver : 0..Versions, expires : Nat]
      BY <3>1 DEF NoResponse, None
    <3>4. retiredAt \in [1..Versions -> Nat]
      BY DEF Init
    <3>5. /\ now \in Nat /\ fetchStart \in Nat /\ nextTick \in Nat /\ updatedAt \in Nat
          /\ misses \in 0..2 /\ upstream \in 1..Versions
          /\ reply \in 0..Versions /\ current \in 0..Versions
      BY <3>1 DEF Init, None
    <3>6. /\ loop \in {"prime", "idle", "fetch", "stopped", "dead"}
          /\ pending \in BOOLEAN /\ cancelled \in BOOLEAN
          /\ req = NoRequest /\ resp = NoResponse
      BY DEF Init
    <3> QED
      BY <3>2, <3>3, <3>4, <3>5, <3>6 DEF TypeOK
  <2> USE CacheAssumption DEF Init, NoRequest, NoResponse, None
  <2>2. Clocks /\ Known
    BY DEF Clocks, Fetching, Known
  <2>3. Overtaken /\ Exposed
    BY DEF Overtaken, Exposed, BoundedExposure
  <2> QED
    BY <2>1, <2>2, <2>3 DEF IInv
<1>2. IInv /\ [Next]_vars => IInv'
  BY TypeStep, ClocksStep, KnownStep, OvertakenStep, ExposedStep DEF IInv
<1> QED
  BY <1>1, <1>2, PTL DEF Spec

(* Every variable of the cache keeps its type, and no header ever exceeds  *)
(* MaxAge, whatever the durations.                                         *)
THEOREM CacheTypeCorrect == Spec => []TypeOK
<1>1. IInv => TypeOK
  BY DEF IInv
<1> QED
  BY <1>1, CacheInvariant, PTL

(* However rotation, failed or slow fetches, a stopped loop and slow       *)
(* handlers interleave, no client is told to keep a retired key set past   *)
(* ExposureWindow + HandlerDelay after its retirement.                     *)
THEOREM ExposureIsBounded == Spec => []BoundedExposure
<1>1. IInv => BoundedExposure
  BY DEF IInv, Exposed
<1> QED
  BY <1>1, CacheInvariant, PTL

-----------------------------------------------------------------------------
(* One missed refresh.  Due is the instant the refresh under way, or the   *)
(* next one, was due: with fetches and records that end within the         *)
(* interval it follows the last store by at most one interval more than    *)
(* there were misses, and is not due before that store is recorded.        *)

Due == IF loop = "fetch" \/ pending THEN nextTick - TTL ELSE nextTick

OnSchedule ==
    loop \in {"idle", "fetch"} =>
        /\ current # None
        /\ loop = "fetch" => (~pending /\ nextTick = fetchStart + TTL)
        /\ (loop = "idle" /\ pending) => nextTick = now + TTL
        /\ (loop = "idle" /\ ~pending) => now < nextTick
        /\ misses = 0 => Due <= updatedAt + TTL
        /\ misses = 1 => Due <= updatedAt + TTL + TTL
        /\ updatedAt + RecordDelay <= Due

(* The ticker does not exist before Prime has succeeded. *)
Primed == loop = "prime" => ~pending

(* The ticker keeps its phase whatever the fetches do. *)
LEMMA OnScheduleStep ==
    ASSUME FetchTimeout < TTL, FetchTimeout + RecordDelay <= TTL
    PROVE  IInv /\ Primed /\ OnSchedule /\ [Next]_vars => Primed' /\ OnSchedule'
<1> SUFFICES ASSUME IInv, Primed, OnSchedule, [Next]_vars
             PROVE  Primed' /\ OnSchedule'
  OBVIOUS
<1>0. /\ now \in Nat /\ fetchStart \in Nat /\ nextTick \in Nat /\ updatedAt \in Nat
      /\ misses \in 0..2 /\ pending \in BOOLEAN
      /\ loop \in {"prime", "idle", "fetch", "stopped", "dead"}
      /\ TTL \in Nat /\ TTL > 0 /\ FetchTimeout \in Nat /\ RecordDelay \in Nat
      /\ loop \in {"prime", "fetch"} =>
           (fetchStart <= now /\ now <= fetchStart + FetchTimeout)
  BY CacheAssumption DEF IInv, TypeOK, Clocks, Fetching
<1> USE <1>0 DEF OnSchedule, Due, Primed, serverVars, loopVars, cacheVars, httpVars
<1>1. CASE Tick
  BY <1>1 DEF Tick, NothingDue, Fetching
<1>2. CASE FetchOk
  BY <1>2 DEF FetchOk, Fetching
<1>3. CASE FetchFail
  BY <1>3 DEF FetchFail, Fetching
<1>4. CASE BeginRefresh
  BY <1>4 DEF BeginRefresh
<1>5. CASE Stop
  BY <1>5 DEF Stop
<1>6. CASE Rotate \/ Answer \/ Cancel
  BY <1>6 DEF Rotate, Answer, Cancel
<1>7. CASE HandlerCurrent \/ HandlerRespond \/ UNCHANGED vars
  BY <1>7 DEF HandlerCurrent, HandlerRespond, vars
<1> QED
  BY <1>1, <1>2, <1>3, <1>4, <1>5, <1>6, <1>7 DEF Next, Dead

(* One failed refresh never makes the cache unready, provided that a fetch *)
(* and the record of its store end within the refresh interval and that    *)
(* the header's MaxAge exceeds the interval by more than a fetch.  The defaults (60s, 60s) do not      *)
(* satisfy the second condition.                                           *)
THEOREM OneMissIsHarmless ==
    ASSUME FetchTimeout < TTL, FetchTimeout + RecordDelay <= TTL,
           MaxAge > TTL + FetchTimeout
    PROVE  Spec => []SingleMissTolerated
<1>1. Init => Primed /\ OnSchedule
  BY DEF Init, Primed, OnSchedule
<1>2. IInv /\ Primed /\ OnSchedule /\ [Next]_vars => Primed' /\ OnSchedule'
  BY OnScheduleStep
<1>3. IInv /\ OnSchedule => SingleMissTolerated
  <2> SUFFICES ASSUME IInv, OnSchedule, loop \in {"idle", "fetch"}, misses <= 1
               PROVE  Ready
    BY DEF SingleMissTolerated
  <2>1. /\ now \in Nat /\ fetchStart \in Nat /\ nextTick \in Nat /\ updatedAt \in Nat
        /\ misses \in 0..2 /\ pending \in BOOLEAN
        /\ TTL \in Nat /\ TTL > 0 /\ FetchTimeout \in Nat /\ MaxAge \in Nat
        /\ loop = "fetch" => now <= fetchStart + FetchTimeout
    BY CacheAssumption DEF IInv, TypeOK, Clocks, Fetching
  <2>2. now <= Due + FetchTimeout
    BY <2>1 DEF OnSchedule, Due
  <2>3. Due <= updatedAt + TTL + TTL /\ Due \in Int
    BY <2>1 DEF OnSchedule, Due
  <2> QED
    BY <2>1, <2>2, <2>3 DEF Ready, StaleRemaining, OnSchedule
<1> QED
  BY <1>1, <1>2, <1>3, CacheInvariant, PTL DEF Spec
=============================================================================
