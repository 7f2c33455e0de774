# TLA+ models of the AWS OIDC bridge

k8s-aws-oidc publishes a cluster's OIDC discovery document and JWKS to AWS
through a Tailscale Funnel. One Go process (`cmd/oidc-proxy`) does it: it keeps
a cache of the API server's JWKS, runs a tsnet node that serves two public
routes, answers probes on an internal port, and, with several replicas, elects
the one pod that runs the node. This directory models that process in TLA+,
checks the models with TLC and proves their main properties with TLAPS.

## 1. Inventory

| Part | Source | State | Operations | Hard because |
|---|---|---|---|---|
| tsnet runner | `internal/tsrunner/runner.go` | `server`, `verified`, back-off, the HTTP server, `publicReady` | the loop of `Run`: start and probe, reauthenticate, verify the issuer host, serve, watch, shut down, back off | cancelled at any await; node and control plane fail at any time; three goroutines and two selects |
| tsnet adapter | `internal/tsrunner/tsnet_adapter.go` | `srv`, `authKey` per instance | `Start`, `Close`, `BackendState`, `SetAuthKey`, `ListenFunnel`, `CertDomains` | lazily built node, repeated `Start`, state that outlives an instance (the Secret) |
| auth-key minter | `internal/tsrunner/minter.go` | none | `Mint` | fails at any time |
| JWKS cache | `internal/oidc/cache.go` | `current`, `updatedAt`, `ready` | `Prime`, `Run`/`refresh`/`store`, `Current`, `Ready` | real time, a stale window, a ticker that drops ticks |
| JWKS fetcher | `internal/oidc/fetcher.go` | none | `Fetch` | answers overtaken by a key rotation, timeouts |
| OIDC handler | `internal/oidc/handler.go` | none | the public routes, `/livez`, `/readyz`, `/leaderz` | reads the cache twice |
| process | `cmd/oidc-proxy/main.go`, `state.go` | context, channels, `runtimeState` | boot, select, health server, shutdown | who waits for whom, which error wins |
| leader election wiring | `cmd/oidc-proxy/ha.go` | `deferredErr`, `errCh`, `electionErrCh` | `OnStartedLeading`, `OnStoppedLeading`, the select | callbacks in goroutines nobody joins |
| elector | `internal/leader/elector.go` | the Lease | `Run` | crashes, expiry, lost answers, release before cancellation |
| JWKS validation | `internal/oidc/jwks.go` | none | `ParseAndValidate`, `validateKey` | fails in the middle of a document |
| discovery document | `internal/oidc/discovery.go` | none | `Render` | text put together out of a URL that was checked part by part |
| configuration | `internal/config/config.go` | none | `Load`, `validate` | the same settings are checked again elsewhere, over other defaults |
| allowlist and audit | `internal/netx/srcip.go` | source per connection, decision per request | `ConnContext`, `AuditMiddleware`, `Middleware` | kept-alive connections, a cache that changes during a request |
| metrics | `internal/metrics/metrics.go` | gauges and counters | setters, gauge functions | a second copy of state, written after the first, and a second clock |
| logging | `internal/logx` | none | output | |

How they interact. `main` primes the cache, then starts three things: the
cache's refresh goroutine, the health server and `processRunner`. The latter is
`tsrunner.Run` itself or, with leader election, `runWithLeaderElection`, which
runs client-go's elector in a goroutine; the elector runs `OnStartedLeading` in
another, and `tsrunner.Run` is called from there. The runner reports through
`SetPublicReady`, the callbacks through `SetLeader`; the probes and the JWKS
route read these flags and the cache. Everything is stopped by one context.
Replicas share a Lease, and a Secret with the Tailscale node identity.

What makes each part correct: the runner never leaks a node, never serves on an
unchecked one, never claims readiness it does not have, drains requests,
recovers, and returns when cancelled. The cache bounds how long a retired key
set can be trusted, and tolerates a missed refresh. The process answers
`/leaderz` only when it serves, exits with the right code, gives up its node
before it exits, and never lingers without a chance of serving. Two replicas do
not both mean to own the node. Public clients get whole, valid key sets at the
address the discovery document names, and only listed clients do; audit events
and gauges tell the truth about it. The hazards behind these properties are listed,
line by line, in `PROJECT.json`.

## 2. Modules

| Module | What it is |
|---|---|
| `EndpointPhases` | the phases of one call of `tsrunner.Run` as its caller can tell them apart |
| `PublicEndpoint` | abstract specification: what a call of `tsrunner.Run` promises |
| `FunnelRunner` | the runner in detail, shown to implement `PublicEndpoint` |
| `MCFunnelRunner` | the same with what comments of `runner.go` say |
| `JWKSCache` | cache, fetches, JWKS route, with an explicit clock |
| `BridgeProcess` | one process in its pod; uses the runner as `PublicEndpoint` promises it |
| `BridgeRunner` | the process with the runner it really runs: `FunnelRunner` inside `BridgeProcess`, shown to implement the latter |
| `BridgeHA` | two `BridgeProcess` instances on one Lease |
| `Probes` | `BridgeProcess` with the probes of its health server and the gauges that repeat its flags |
| `JWKSGauges` | `JWKSCache` with the gauges that describe it, on a wall clock |
| `Configuration` | `Load` and `validate`, and the later checks of the same settings, as operators |
| `JWKSValidate` | `ParseAndValidate`, one step per key, and a definition of acceptable key sets |
| `PublicPath` | start-up, refreshes and public requests through the whole handler chain; uses the two before |
| `MCPublicPath` | its environments and documents for TLC |
| `FunnelRunnerProofs`, `JWKSCacheProofs`, `JWKSGaugesProofs`, `BridgeProcessProofs`, `BridgeRunnerProofs`, `BridgeHAProofs`, `ProbesProofs`, `PublicPathProofs` | theorems |

The chain is: `FunnelRunner` implements `PublicEndpoint`; `BridgeProcess` moves
its `phase` by the same relation `MayMove`; `BridgeRunner`, the two together,
implements `BridgeProcess`; `Probes` only watches a `BridgeProcess`, and
`BridgeHA` composes two, each of which is shown to be the environment the
other's model assumes. What is shown of `BridgeProcess` is therefore shown of
the process that calls the real `Run`.

A definition named "Fault variant" in a comment is a plausible mistake in the
definition that follows it, used to see that a property would notice. No
specification uses one.

### FunnelRunner

`pc` is the point `Run` has reached; the others follow the code's variables.
Each call that blocks or fails is a step of its own: `StartOk`/`StartFail`,
`Poll` and the three cases of its select, `MintOk`/`MintFail`, `VerifyOk`,
`VerifyErr`, `VerifyMismatch`, `ListenOk`/`ListenFail`, the three cases of
`serveOnce`'s select, `Shutdown`/`ShutdownEnds`/`AwaitServe`, `CloseServer` and
`Exit`. Beside it run `ServeFails` (the Serve goroutine), `Request` and the
watcher. An instance from `Nodes` stands for a `realServer`; `up` are those with
a `tsnet.Server`, `keyed` those with an auth key. An id is used again once the
instance is neither held nor up, so `Nodes` bounds how many exist at once, not
how many there ever are. External are the node and the control plane: a node
logs in with the stored identity or its key, may ask for a login on the way,
may stop and resume; the identity may be revoked and a key refused. What the
runner's callers cannot tell apart (which error, log lines, metrics other than
the restart reason) is left out. Backend states the code does not name are
represented by "Starting" and "Stopped".

Durations are left out, except that the shutdown timeout is known to run from
the shutdown: `drain` says whether it ended with a request still in flight. The
watcher of a `serveOnce` that has returned is not followed.

### JWKSCache

Time is an integer; `Tick` does not pass a deadline, so a fetch ends within
`FetchTimeout`, an idle loop takes a pending tick as soon as it has recorded its
last store, which lasts at most `RecordDelay`, and a handler answers within
`HandlerDelay`. A key set is a version number. `Rotate` retires the
upstream's version, `Answer` fixes what a fetch will deliver, `FetchOk` and
`FetchFail` end it. `pending` is the ticker's channel, with room for one tick.
`HandlerCurrent` and `HandlerRespond` are the two reads of `handleJWKS`, and
`WholeSeconds` the rounding of the header. `Dead` is a process whose `Prime`
failed. Not modelled: the clock going back (`max(age, 0)`; Go's monotonic clock
does not), and which of `Fetch`'s checks failed.

### BridgeProcess and BridgeHA

`proc` is `main`, `returned` the value in `runErrCh`, `elect` where `leader.Run`
and client-go's elector are, `phase` `OnStartedLeading` and the runner inside
it. The elector's order of calls is client-go's: on loss or cancellation the
Lease is released, then the leading context is cancelled, then
`OnStoppedLeading` runs; `OnStartedLeading` is spawned and may run late. The
Lease is untimed: `LeaseExpires` may take it from a pod that is not renewing it
at any moment, and never from one that is, which `validate`'s LeaseDuration >
RenewDeadline gives a process that is not paused; a process frozen for longer
than a lease is outside the model. An update whose answer is lost is
`AcquireUnseen`. Crash, restart and signal come at any moment. JWKS readiness,
one more conjunct of each probe, is left to `Probes`.

`BridgeHA` has two pods, without failing health servers (they add states and
nothing that concerns the Lease).

### BridgeRunner

`setupProcess` makes `publicRunner` out of `tsrunner.Run`, `runCtx` and a callback
that writes `runtimeState.publicReady`. Here `cancelled` of `FunnelRunner` is
`BridgeProcess`'s `RunCtxDone`, `stateReady` is the flag of the state (Run's own
`publicReady` is the argument of its last call), and `phase` is `EndpointPhase`
while a call is under way. `Runs` is a step of the runner, its goroutines or its
node, with what the process sees of it: the callback, and an error sent to
`errCh`. `Beside` is a step of the process, which touches the runner only through
`runCtx`; when the process ends, everything of the runner is gone but the
identity in the Secret, which the control plane may also forget meanwhile
(`NodeForgotten`). The steps `BridgeProcess` assumes of its runner are not among
those of `BridgeRunner`: that they are all there is, is `ImplementsProcess`.

### Probes

A probe of `/readyz` (or `/healthz`, the same handler) or `/leaderz` begins with
`Cache.Ready()`, which may be either, and then reads the flags of `runtimeState`
one per step, in the order of `Ready` and `LeaderReady`, with any step of the
process in between. `held` remembers whether the pod was leader and ready at
some instant of the probe. The gauges `leader` and `public_ready` are set one
step after the flag, by whichever goroutine set it: `owed` is the write the
runner's goroutine still has to do, `owedOnStop` those of `OnStoppedLeading`,
which the model puts after `sendErr` and not before it; the two have nothing in
common. `/livez` is constant. A readiness probe torn by `OnStoppedLeading` can
answer 503 although the pod was ready before, as leader, and is afterwards, as
follower; the code promises nothing else.

### JWKSGauges

`updateJWKSState` takes three steps after a store, on `Wall`, which `ClockIsSet`
moves against the monotonic clock of the cache. Scrapes, that is states the
properties speak of, begin once `Prime` has returned. The gauge compares with
`>` where the cache compares with `<=`, so at the very end of the window it still
says ready; `GaugeTracksReady` states how far the two may differ: without delays
and clock settings, at this instant alone.

### Configuration, JWKSValidate and PublicPath

An environment is a record: each part of the issuer is absent, empty (only its
delimiter is there) or given, a duration is unset, malformed or a number, a CIDR
is the set of addresses it contains. `Accepted` is `Load` returning no error;
which of several errors it names is left out. The later uses of the settings are
`ElectorAccepts` (`validate` of `internal/leader`, over its own defaults),
`NewLeaderElectorAccepts` (client-go, external: RenewDeadline above 1.2 times
RetryPeriod) and `TickersStart`; `Outcome` of `PublicPath` is what becomes of an
accepted configuration that meets them.

`JWKSValidate` walks through a document as the loop does; `Acceptable` says
independently of it what may be published.

`PublicPath` puts them together: `Start`, refreshes with `Fetch`, `Validate`,
`Store` and `Discard`, and on each connection `Accept` (`ConnContext`), then for
every request `Receive` (audit state and recorder), `Gate` (the allowlist),
`MuxAnswers`, `ReadCurrent` and `RespondJWKS` (`handleJWKS`) and `Audit`. When a
cached set lapses is `JWKSCache`'s matter; here it may at any time. net/http's
mux is external: a GET pattern also takes HEAD, an unclean path is redirected
before its method is looked at, `*` is refused. The last two are audited as
"served", since `decisionFromStatus` names only 404 and 405. `OPTIONS *`, which
net/http answers before any handler and which therefore leaves no audit event,
is not modelled.

## 3. Runs

| Run | Properties | States | Shows |
|---|---|---|---|
| `runner` | `TypeOK`, `NoNodeLeaks`, `VerifiedBeforeServing`, `ReadyMeansServing`, `RequestsDrained`, `LoginLossNoticed`, `ImplementsEndpoint`, `Recovers` | 59 000 | one node at a time, closed on every path; served only when checked; readiness withdrawn before the listener; draining, the watcher, the refinement with its progress, and that the loop gets back to serving once faults stop |
| `cache_exposure` | `TypeOK`, `BoundedExposure` | 2 540 000 | how long a retired key set can be trusted, over overtaken fetches, dropped ticks, failed refreshes and the rounding of the header |
| `cache_gauges` | `GaugesTypeOK`, `SingleMissTolerated`, `GaugeTracksReady`, `KeysGaugeTruthful` | 4 170 000 | one miss is harmless if MaxAge > TTL + FetchTimeout, FetchTimeout < TTL and FetchTimeout + RecordDelay <= TTL; the gauges agree with the cache |
| `probes` | `TypeOK`, `ProbesTypeOK`, `LeaderzTruthful`, `LeaderzAnswersTrue`, `NilExitMeansSignal`, `LossEndsProcess`, `SurvivorServes`, `GaugesConverge` | 147 000 | one pod among candidates, with torn probes and late gauges |
| `bridge_single` | `ImplementsProcess`, `NoRequestCut`, `ExitLeavesNoNode`, `SignalEndsBridge` | 148 000 | the process without leader election and the real runner in it: it does what `BridgeProcess` says, no request is cut and no node left at an exit, a signal ends it wherever the runner is |
| `replicas` | `OverlapOnlyInHandover`, `OneLeaderzOutsideYielding`, `EachPodConforms` | 714 000 | two pods: two nodes, and two answers to `/leaderz`, only in a handover |
| `public_path` | `TypeOK`, `AcceptedStarts`, `OnlyListedAreAnswered`, `AuditMatchesAnswer`, `OnlyAcceptableKeysServed` | 971 000 | from the environment to the answer of every public request |

Five further runs end in a counterexample; each states a sentence of the
repository that the code does not keep.

| Run | The repository says | The code |
|---|---|---|
| `start_attempt_ends` | "keep polling until Running or timeout" (runner.go:388-391) | no timeout once a key is applied: a refused key is polled until cancellation |
| `flip_noticed` | the watcher detects "a flip out of Running" (runner.go:439-440) | it detects NeedsLogin only |
| `cache_single_miss_defaults` | "a single missed refresh does not immediately flip the service unhealthy" (cache.go:171-172) | with 60s and 60s the window closes when the second refresh begins |
| `one_funnel_owner` | "only one pod owns Funnel at a time" (chart/README.md:127-128) | the Lease is released before the runner is cancelled |
| `issuer_advertised` | other than host-only issuers "advertise endpoints this process will never serve" and are refused (config.go:294-298) | `https://host?`, `https://host#` and `https://:` are accepted; the path of `jwks_uri` becomes a query or a fragment, or there is no host |

Smaller disagreements have no run of their own.

- `ExitLeavesNoNode` and `NoRequestCut` hold without leader election only. With it,
  `runWithLeaderElection` returns on `ctx.Done` without waiting for the runner
  (ha.go:92), so a process that got a signal or whose health server failed exits
  with its node open and cuts its requests, although "a graceful shutdown of the other" is promised (main.go:293-295).
- The watcher's channel also closes on cancellation (the deferred close,
  runner.go:509), so `serveOnce` may record an ordinary shutdown as a
  `needs_login` restart, although the comment of `watchForLoginNeeded` names
  NeedsLogin alone; `WatchCancelled` and `SelectFlipped` allow it.
- The runner, which `OnStoppedLeading` does not wait for, may set `publicReady`
  once more after it was cleared (`ha_test.go:146-148` asserts it is not, with an
  elector that joins the runner first); this does no harm, since `/leaderz` also
  asks for `leader` and `LeaderzTruthful` and `LeaderzAnswersTrue` hold.
- `json.Decoder.More` does not count a closing bracket, so a document followed by
  one, and by anything after it, is not "trailing data" (jwks.go:64).
- client-go wants RenewDeadline above 1.2 times RetryPeriod; neither `validate`
  asks for it, and docs/reference/config.md:51 only for a greater one. With 7s, 6s
  and 5s the configuration is accepted and `leader.Run` fails at start-up.
  `AcceptedStarts` states this band as the only one in which that happens.
- `jwks_serving_stale_total` counts refreshes that failed while the cache was
  usable, not answers (metrics.go:324, cache.go:97-99). The error kinds of the
  token file never reach the metrics, since `Fetch` wraps them in an error of its
  own (fetcher.go:152-154).

### Bounds

- `Nodes`: two, an old instance and the one that replaces it. An instance that
  leaked would stay `up` beside the next one, so two are enough to see it; that
  no third can exist is `NodesNeverLeak`, for any number. `BackoffMax` lies off
  the doubling of `BackoffBase` (3 against 1).
- Cache: `CacheExposure.cfg` has a fetch timeout above the interval and half
  seconds, so that ticks are dropped, fetches overrun and the header is rounded;
  its horizon is a window of each kind after a store. `CacheGauges.cfg` has
  room for a window, two misses and a store after them, a record that takes one
  unit and a clock that is set by up to two; in `CacheExposure.cfg` a record
  takes one unit as well. Versions: two, one of them retired.
  The theorems need none of these bounds.
- `PublicPath`: one connection, since connections share only the cache, which
  changes at any time anyway; any number of requests on it. Environments differ
  from a good one in one group of settings at a time: issuer, allowlist, leader
  election (unset, zero, equal and the 7s, 6s, 5s that client-go refuses), the rest. `validate` looks at each
  group apart. Issuers with a delimiter and nothing behind it are the subject of
  `issuer_advertised`, and only there. Documents have at most one defect and up to one key more than
  `MaxJWKSKeys`, here 2.
- `BridgeRunner`: two nodes as for the runner, and no leader election; with it
  the state space is twenty times as large, and the theorems cover both modes.
- `BridgeProcess`: one other candidate stands for any number, since of the others
  only what they do to the Lease is seen. All else is finite in itself.

### Fairness

- `FunnelRunner`: weak fairness of the runner's goroutine (its calls return, its
  timers fire), of the watcher's poll and of the node's login. Strong fairness
  of `PollCancelled` and `PollTimeout`: Go's select picks among ready cases at
  random, and both stay ready. Nothing is assumed of requests, and nothing of
  faults except, in `Recovers`, that they stop. `Recovers` leaves out one case: a
  node with a key that never comes to Running is polled until cancellation
  (`start_attempt_ends`). It speaks of `publicReady`: a node that is Stopped while
  served counts as public, since the runner does not notice it (`flip_noticed`).
- `BridgeProcess`: goroutines run, kubelet restarts containers, a Lease nobody
  renews expires; weak fairness of each. Strong fairness of `Acquire`: client-go
  retries every RetryPeriod. Of the runner it assumes exactly
  what `Progress` of `PublicEndpoint` promises, and the run `runner` checks that of
  `FunnelRunner`: after cancellation it returns (strong fairness of `Retreat` and
  `RunnerStops`); it leaves every phase but "held" and "open" (weak fairness of
  `Proceed` outside "held"); an open endpoint is announced or left (weak fairness
  of `Announce`). It need not leave "held": a leader whose key is refused polls
  until cancellation, renewing its Lease, and nobody serves. `SurvivorServes` has
  this one exception, `StuckInAttempt`, and TLC refutes it without.
- `BridgeRunner`: that of the two, without what `BridgeProcess` assumes of its
  runner. `SignalEndsBridge` so rests on no assumption about `Run`, but on its
  goroutine running and its calls returning.
- `Probes`: the same, and weak fairness of the gauge writes: they are the next
  statements of a goroutine that runs.
- `JWKSCache` and `JWKSGauges` have no fairness; their deadlines are in `Tick`.
- `PublicPath` has none; its properties are invariants.

Deadlock is checked in every run; a `Run` that has returned and a process that
did not start stutter by explicit actions.

## 4. Proofs

All theorems hold for every value of the constants that satisfies the named
assumptions of the modules (ids are distinct, intervals positive, delays and clock
settings natural numbers, 0 < BackoffBase <= BackoffMax). Where a theorem needs
more of the durations, its statement says so: only `OneMissIsHarmless` does.

`FunnelRunnerProofs`. No property is inductive by itself: that nothing leaks
depends on which node is held, and that depends on `pc`. `IInv` is the type
invariant with: `HeldServer` (which points hold a server, and only that one is
up), `NodeAnswers` (where the backend state of the held node comes from),
`CheckedServer` (`verified` speaks of the held instance), `ServerAlive` and
`RequestAlive` (listener, readiness and requests belong to points of
`serveOnce`), `ExitCancelled`. Each has a lemma with one step per action. From it
follow `TypeCorrect`, `NodesNeverLeak`, `ServesOnlyVerified`, `ReadinessIsTrue`,
`NoRequestCutShort` and `RunnerImplementsEndpoint`, the step simulation of
`PublicEndpoint` under `EndpointPhase`.

`JWKSCacheProofs`. `IInv` adds the clocks (nothing lies in the future, a fetch is
no older than its timeout), what is known of each version, `Overtaken` (a stored
version was upstream's at some instant of its fetch) and `Exposed`, which bounds
the request under way as well as the response. `OneMissIsHarmless` has
the hypotheses FetchTimeout < TTL, FetchTimeout + RecordDelay <= TTL and MaxAge >
TTL + FetchTimeout, which `validate` does not ask for, and a strengthening of its
own that ties the ticker to the last store.

`JWKSGaugesProofs`. A step of the gauges is a step of the cache or none of it
(`GaugesOnlyWatch`), so the cache's invariant carries over. `GInv` adds that a
record belongs to the latest store, is made by a loop that is not fetching and
ends in time (`RecordInTime`), and how far the recorded instant can be from that
store (`Stamped`: the record's delay and the clock's setting). `GaugeFollowsReady`
is then arithmetic, apart for states inside a record, which lie within
`RecordDelay` of the store, and for those between records; so it needs no
assumption on `RecordDelay`, or on the fetch timeout against the interval.
`KeysGaugeIsTrue` needs `Counted` as well.

`BridgeProcessProofs`. `IInv` says which values the goroutines' places can have
together (`Fresh`, `RunnerPlace`, `Mode`), why an error was recorded (`Reasons`)
and that a leading pod holds the Lease (`LeaseKept`). It gives
`LeaderzIsTruthful`, `SuccessMeansSignal` and `SingleExitIsGraceful` (of the
assumed runner; `SingleExitClosesNode` is the same of the real one).

`BridgeRunnerProofs`. `BInv` is the runner's `IInv` with three ties: `SameContext`
(Run's context is `runCtx`), `ReadyBySay` (the state is ready only if Run's last
word was ready: `OnStoppedLeading` can only take it back) and `AtRest` (a runner
that was not called has no node). Neither side's invariant is kept without the
other's: a step of the process must not take back a cancellation that Run has
already acted upon (`ProcessTouches`, which needs the invariant of
`BridgeProcess`), and a step of Run must be one `BridgeProcess` allows
(`RunsRefines`, which needs that of `FunnelRunner`). So `BridgeInvariant` carries
both. Of Run's thirty-two actions the refinement uses nothing but `EndpointStep`:
a step that changes the phase is a `Move` of `PublicEndpoint`, hence one of
`RunnerMoves`, and one that does not is `Announce`, `Withdraw` or none.
`BridgeImplementsProcess` follows for both modes, and with it
`BridgeLeaderzIsTruthful` and `BridgeSuccessMeansSignal`; `ReadyStateStaysTrue`
is `ReadyBySay` with `IInv`. It matters with leader election, where
`OnStoppedLeading` is a second writer of the flag, and has no run: without leader
election it says what `ReadyMeansServing` says. Without leader election main waits for the return
of Run, which has then closed its node, and only a kill ends a call that has not
returned: `SingleExitClosesNode` and `SingleCutsNoRequest`.

`BridgeHAProofs`. Every step of one pod leaves the Lease as the other's
`OthersStep` or `LeaseExpires` would, or untouched, so `ReplicasConform` follows
and with it both pods' invariants; `ExclusionOutsideHandover` is then a matter of
one Lease having one holder. `LeaderzIsExclusive` narrows the window for
`/leaderz`: a pod whose `leader` flag outlives `OnStoppedLeading` has a runner that
was cancelled before it began, and is never ready.

`ProbesProofs`. Probes and gauges only watch (`ProbesOnlyWatch`), so
`BridgeProcessProofs` applies. `/leaderz` reads `publicReady` and then `leader`;
its 200 is true of one instant because of `BetweenReads`: if the process was not
ready at the first read, `publicReady` being true, it was no longer leader
(`leader` is set before the endpoint opens), and a process that lost leadership
never leads again (`LostForGood`), so the second read fails.

`PublicPathProofs`. The loop of `ParseAndValidate` has an invariant of the usual
kind (`Prefix`: what was copied so far is the document's, valid and without
duplicates, and `seen` holds its kids), which makes an accepted document
`Publishable`; `Bodies` says that all that is published, read by a handler or
sent is one of these or nothing. `Told` ties the audit's decision to the status
at every place of the chain, `Listed` says that whoever is past the gate is in
the allowlist, and `Quiet` that there is no connection before start-up is over,
so that the configuration cannot change under a request. `AcceptedAlwaysStarts`
says of every environment that an accepted one never panics in a ticker and is
never refused by the elector's own `validate`, whose defaults for zero periods
are others, and that it fails in client-go only in the band RetryPeriod <
RenewDeadline <= 1.2 RetryPeriod. `AdvertisedIsAlwaysServed` has a hypothesis on
the environments, that no issuer has a delimiter with nothing behind it; without
it `issuer_advertised` is the counterexample, so it shows that there are no
others.

Only model-checked: the liveness properties `LoginLossNoticed`, `Recovers`,
`LossEndsProcess`, `SurvivorServes`, `SignalEndsBridge`, `GaugesConverge` and
`Progress`, the liveness part of `ImplementsEndpoint`, liveness under fairness being out of
the prover's reach.

## 5. Plan

Done: runner, cache, process, replicas with their theorems; probes and gauges,
configuration, validation and the public path; the runner inside the process.

Left:

1. two pods with the real runner in each: `OverlapOnlyInHandover` of tsnet nodes
   instead of phases, by `BridgeImplementsProcess` of each pod;
2. the minter's and the fetcher's HTTP exchanges, if they ever keep state.

## 6. Not modelled

- Counters and histograms of the metrics, and logging: nothing reads them back.
  The one restart reason that a property speaks of is in `FunnelRunner`.
- The race between the un-joined watcher and `Close` on `realServer.srv`: the
  watcher is not followed beyond `serveOnce`.
- Rates and delays (back-off durations, reauthentication without delay).
- The HTTP exchanges of the minter and the fetcher beyond success, failure and
  timeout; TLS and token files.
- `Flush`, `Hijack` and `Push` of the audit's response writer, which no handler
  calls; the constant fields and headers of the responses.
- Helm chart, Terraform, end-to-end scripts: no behaviour of their own.
