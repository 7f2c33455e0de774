------------------------------ MODULE JWKSCache ------------------------------
(***************************************************************************)
(* The JWKS cache: internal/oidc/cache.go, the fetches it makes            *)
(* (fetcher.go), the JWKS route that reads it (handleJWKS of handler.go)   *)
(* and the start-up that primes it (startCache of main.go).                *)
(*                                                                         *)
(* Time is a clock all deadlines refer to.  Tick does not pass a deadline: *)
(* a fetch ends by its timeout, a due refresh starts as soon as the loop   *)
(* is idle and has recorded its last store, a handler answers within       *)
(* HandlerDelay.  A key set is a version number; the API server replaces   *)
(* it by the next one.                                                     *)
(***************************************************************************)
EXTENDS Integers

CONSTANTS
    TTL,           \* JWKS_CACHE_TTL: the refresh interval
    MaxAge,        \* JWKS_CACHE_MAX_AGE_HEADER
    FetchTimeout,  \* fetchClientTimeout
    RecordDelay,   \* longest time from a store to the end of its metrics and log
    HandlerDelay,  \* longest time between Current() and the response
    Second,        \* clock units in the second the header is rounded to
    Versions,      \* bound: key sets the API server ever has
    Horizon        \* bound: the last instant considered

ASSUME CacheAssumption ==
    /\ TTL \in Nat \ {0} /\ MaxAge \in Nat \ {0} /\ FetchTimeout \in Nat \ {0}
    /\ RecordDelay \in Nat /\ HandlerDelay \in Nat /\ Second \in Nat \ {0}
    /\ Versions \in Nat \ {0} /\ Horizon \in Nat

None == 0

VARIABLES
    now,
    upstream,    \* version the API server has
    retiredAt,   \* when it replaced each earlier version
    loop,        \* Prime, then the loop of Run
    fetchStart,  \* when the fetch under way, or the last one, began
    reply,       \* version the API server answered it with, if it did
    nextTick,    \* the ticker's next instant
    pending,     \* a tick waits in the ticker's channel (capacity one)
    cancelled,   \* ctx is done
    current,     \* c.current
    updatedAt,   \* c.updatedAt
    misses,      \* refreshes failed since the last store, counted up to 2
    req,         \* a handler between Current() and Ready()
    resp         \* the last response of the JWKS route

serverVars == <<upstream, retiredAt>>
loopVars == <<loop, fetchStart, reply, nextTick, pending, misses>>
cacheVars == <<current, updatedAt>>
httpVars == <<req, resp>>
vars == <<now, serverVars, loopVars, cacheVars, httpVars, cancelled>>

NoRequest == [at |-> -1, ver |-> None, maxAge |-> 0]
NoResponse == [ok |-> FALSE, ver |-> None, expires |-> 0]

(* Every variable has its type; a header never exceeds MaxAge. *)
TypeOK ==
    /\ now \in Nat
    /\ upstream \in 1..Versions
    /\ retiredAt \in [1..Versions -> Nat]
    /\ loop \in {"prime", "idle", "fetch", "stopped", "dead"}
    /\ fetchStart \in Nat
    /\ reply \in 0..Versions
    /\ nextTick \in Nat
    /\ pending \in BOOLEAN
    /\ cancelled \in BOOLEAN
    /\ current \in 0..Versions
    /\ updatedAt \in Nat
    /\ misses \in 0..2
    /\ req \in [at : Nat \cup {-1}, ver : 0..Versions,
               maxAge : 0..MaxAge]
    /\ resp \in [ok : BOOLEAN, ver : 0..Versions, expires : Nat]

Init ==
    /\ now = 0
    /\ upstream = 1
    /\ retiredAt = [v \in 1..Versions |-> 0]
    /\ loop = "prime" /\ fetchStart = 0 /\ reply = None
    /\ nextTick = 0 /\ pending = FALSE /\ misses = 0
    /\ cancelled = FALSE
    /\ current = None /\ updatedAt = 0
    /\ req = NoRequest /\ resp = NoResponse

-----------------------------------------------------------------------------
(* freshnessLocked.                                                        *)

(* Fault variant: no refresh interval of grace beyond MaxAge. *)
StaleRemainingWithoutGrace == MaxAge - (now - updatedAt)

(* What is left of the stale window. *)
StaleRemaining == MaxAge + TTL - (now - updatedAt)

Ready == current # None /\ StaleRemaining > 0

(* Fault variant: the header grants the whole stale window. *)
RemainingUncapped == StaleRemaining

(* What is left of it for clients: never more than MaxAge. *)
Remaining == IF StaleRemaining > MaxAge THEN MaxAge ELSE StaleRemaining

(* int(remaining.Seconds()): what the header can say of it. *)
WholeSeconds(d) == (d \div Second) * Second

-----------------------------------------------------------------------------
(* Time and the API server (external).                                     *)

Fetching == loop \in {"prime", "fetch"}

(* Nothing that must happen now is left undone. *)
NothingDue ==
    /\ (loop = "idle" /\ pending) => now < updatedAt + RecordDelay
    /\ Fetching => now < fetchStart + FetchTimeout
    /\ req # NoRequest => now < req.at + HandlerDelay

(* Time passes; the ticker drops a tick whose channel is still full. *)
Tick ==
    /\ now < Horizon
    /\ loop # "dead"
    /\ NothingDue
    /\ now' = now + 1
    /\ IF loop \in {"idle", "fetch"} /\ now' = nextTick
       THEN pending' = TRUE /\ nextTick' = nextTick + TTL
       ELSE UNCHANGED <<pending, nextTick>>
    /\ UNCHANGED <<serverVars, loop, fetchStart, reply, misses, cacheVars,
                   httpVars, cancelled>>

Rotate ==
    /\ upstream < Versions
    /\ upstream' = upstream + 1
    /\ retiredAt' = [retiredAt EXCEPT ![upstream] = now]
    /\ UNCHANGED <<now, loopVars, cacheVars, httpVars, cancelled>>

(* The API server answers the fetch; the answer is still on its way. *)
Answer ==
    /\ Fetching /\ reply = None
    /\ reply' = upstream
    /\ UNCHANGED <<now, serverVars, loop, fetchStart, nextTick, pending, misses,
                   cacheVars, httpVars, cancelled>>

-----------------------------------------------------------------------------
(* Prime and Run.                                                          *)

Cancel ==
    /\ ~cancelled
    /\ cancelled' = TRUE
    /\ UNCHANGED <<now, serverVars, loopVars, cacheVars, httpVars>>

(* Fetch succeeds and store runs.  The record that follows takes up to     *)
(* RecordDelay of the loop (NothingDue); that of Prime takes none, and Run *)
(* is called at once, whose ticker starts now.                             *)
FetchOk ==
    /\ Fetching /\ reply # None
    /\ current' = reply /\ updatedAt' = now
    /\ loop' = "idle" /\ reply' = None /\ misses' = 0
    /\ nextTick' = IF loop = "prime" THEN now + TTL ELSE nextTick
    /\ UNCHANGED <<now, serverVars, fetchStart, pending, httpVars, cancelled>>

(* Fault variant: a failed refresh renews the old value. *)
FetchFailRenews ==
    /\ Fetching
    /\ loop' = IF loop = "prime" THEN "dead" ELSE "idle"
    /\ reply' = None
    /\ misses' = IF misses < 2 THEN misses + 1 ELSE misses
    /\ updatedAt' = now
    /\ UNCHANGED <<now, serverVars, fetchStart, nextTick, pending, current,
                   httpVars, cancelled>>

(* Any of Fetch's errors, its timeout, or ctx: the old value is kept.  The *)
(* process does not start without a first value.                           *)
FetchFail ==
    /\ Fetching
    /\ loop' = IF loop = "prime" THEN "dead" ELSE "idle"
    /\ reply' = None
    /\ misses' = IF misses < 2 THEN misses + 1 ELSE misses
    /\ UNCHANGED <<now, serverVars, fetchStart, nextTick, pending, cacheVars,
                   httpVars, cancelled>>

(* The two cases of Run's select. *)
BeginRefresh ==
    /\ loop = "idle" /\ pending
    /\ loop' = "fetch" /\ pending' = FALSE
    /\ fetchStart' = now /\ reply' = None
    /\ UNCHANGED <<now, serverVars, nextTick, misses, cacheVars, httpVars, cancelled>>

Stop ==
    /\ loop = "idle" /\ cancelled
    /\ loop' = "stopped"
    /\ UNCHANGED <<now, serverVars, fetchStart, reply, nextTick, pending, misses,
                   cacheVars, httpVars, cancelled>>

-----------------------------------------------------------------------------
(* handleJWKS: Current() and Ready() take the lock one after the other.    *)

HandlerCurrent ==
    /\ loop \notin {"prime", "dead"}
    /\ req = NoRequest
    /\ req' = IF Ready
              THEN [at |-> now, ver |-> current, maxAge |-> WholeSeconds(Remaining)]
              ELSE [at |-> now, ver |-> None, maxAge |-> 0]
    /\ UNCHANGED <<now, serverVars, loopVars, cacheVars, resp, cancelled>>

(* The condition under which the route answers 200. *)
Serves == Ready /\ req.ver # None

HandlerRespond ==
    /\ req # NoRequest
    /\ resp' = IF Serves
               THEN [ok |-> TRUE, ver |-> req.ver, expires |-> now + req.maxAge]
               ELSE NoResponse
    /\ req' = NoRequest
    /\ UNCHANGED <<now, serverVars, loopVars, cacheVars, cancelled>>

-----------------------------------------------------------------------------
(* The process has ended: startCache failed. *)
Dead == loop = "dead" /\ UNCHANGED vars

Next ==
    \/ Tick \/ Rotate \/ Answer \/ Cancel
    \/ FetchOk \/ FetchFail \/ BeginRefresh \/ Stop
    \/ HandlerCurrent \/ HandlerRespond \/ Dead

Spec == Init /\ [][Next]_vars

-----------------------------------------------------------------------------
(* Properties.                                                             *)

(* A fetch overtaken by the rotation, then a whole stale window. *)
ExposureWindow == FetchTimeout + TTL + MaxAge

(* The stale window bounds how long clients keep a retired key set: no     *)
(* response lets a cache hold a version past the window that a store made  *)
(* at the last possible moment would open.  Rotation, a fetch overtaken by *)
(* it, failing refreshes, a stopped loop and the rounding of the header    *)
(* all push at this bound.                                                 *)
BoundedExposure ==
    (resp.ok /\ resp.ver \notin {None, upstream}) =>
        resp.expires <= retiredAt[resp.ver] + ExposureWindow + HandlerDelay

(* "so a single missed refresh does not immediately flip the service       *)
(* unhealthy" (freshnessLocked, cache.go:171-172).                         *)
SingleMissTolerated ==
    (loop \in {"idle", "fetch"} /\ misses <= 1) => Ready
=============================================================================
