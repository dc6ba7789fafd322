# local-inference-router in TLA+

TLA+ models of local-inference-router, from the configuration file to the exit
code, the TLC runs that
check them on small instances and the TLAPS proofs that hold for every
configuration and any number of requests. `PROJECT.json` lists components, runs,
mutants, the map from definitions to source lines, findings, hazards and theorems.

## The system

A Go reverse proxy in front of local inference servers. Clients post chat
completions to an *alias*; an alias has *routes*, each on a *backend* with a
bounded number of concurrent requests (`max_inflight`).

| Part | State | Operations | Interacts with |
|------|-------|------------|----------------|
| routing state (`router/state.go`, `select.go`) | per backend `checked`, `healthy`, `inflight` behind one mutex | `SetHealth`, `Reserve`, `SwapReservation`, `Release`, `Ready`, `Snapshot` | called by handlers, health loops and status endpoints; publishes gauges |
| proxy (`router/proxy.go`) | locals of one handler goroutine: route, attempted set, response | `Serve`, `attempt`, `forward` | reserves and releases; talks to upstream and client |
| relay and idle timeout (`router/stream.go`) | `timedOut`, `closed`, a timer, the upstream body | `Read`, `Close`, `expire`, `relay` | handler goroutine against timer goroutines |
| health checker (`backend/health.go`) | one loop per backend | probe at start and every 5 s, report | `SetHealth` |
| metrics (`metrics/metrics.go`) | gauges, counters, histograms | `Set...`, `Observe...`, `Failover` | written by state and proxy |
| HTTP API (`httpapi/`) | per request: the status written and the one returned | authentication, chat validation, status, models, request count | calls proxy and state |
| configuration (`config/`) | the maps of `Validate` while loading | reading, defaults, validation, canonical origins | input of `Build` and `NewState` |
| upstream clients (`backend/backend.go`, `client.go`) | connection pools | construction | timeouts of attempts and probes |
| process (`cli/app.go`) | signal context, wait group | start, drain, stop | starts health loops and server |

What is hard here: handlers and health loops interleave at every critical section;
a failover after a transport error releases and re-reserves in two sections while a
failover after a retryable status moves a reservation in one; gauges are written
after the unlock; probe results are old when they are reported; the client may leave
at any point; the idle timer races `Read`, `Close` and a blocked write; the deadlines of
an attempt leave a gap; a panic unwinds past a `Release` that is not deferred; the
configuration file may change while it is read; the status that is counted travels
through four return values apart from the one that is sent.

What makes each part correct: counters equal the reservations that exist and respect
capacity; a request ends with one answer, after trying each route at most once, and
never contacts an upstream after committing; only evidence against a backend
quarantines it, and probes bring it back; selection follows the documented order; an
upstream body is closed once and what was read is delivered; validation accepts exactly
what routing needs; a request is counted as it was answered, and only an authorized one
is served.

## Modules

| Module | Models | Notes |
|--------|--------|-------|
| `RoutingState` | `state.go`, `select.go`, gauges | one critical section = one action; gauge writes after an unlock are queued per goroutine in `pub` and done by `Publish` |
| `SelectLoop` | the loop of `selectLocked` | one step per route, against the declarative `selectLocked` of `RoutingState` |
| `HealthChecker` | `health.go` | probe sent, result known, result reported are three steps |
| `Proxy` | `Serve`, `attempt`, `forward`, the end of `handleChat` | `pc` names the program point; `Holding` the points with a reservation |
| `CapacitySlots` | abstract specification | slots without counters: take, move, give |
| `Router` | handlers + health loops over one state | `Spec`, fairness, the properties, the mapping to `CapacitySlots` |
| `ProbeHistory` | `Router` with a history variable | whether an unreported probe result is older than a quarantine |
| `IdleTimeoutReader` | `stream.go`, `forward` | ticks of time, timer, any number of expire goroutines |
| `Exchange` | one attempt: `attempt` over `client.go`, then the reader | phases connect, send, headers, body; which phase has a deadline is the code's decision, the phases are `net/http`'s |
| `Config` | `load.go`, `validate.go`, `url.go`, `Build`, `NewState` | one step per loop iteration; strings are records of what the code looks at |
| `HttpApi` | `httpapi/` around `Router` | `http[r]`: phase of the handler, token, status sent, status returned |
| `Lifecycle` | `cli/app.go`, the context of the health loops | from the command line to the exit code; `net/http` is external |
| `MCRouter`, `MCProbeHistory`, `MCSelectLoop`, `MCConfig`, `MCHttpApi` | constants for TLC | |
| `RouterProofs`, `HandlerProofs`, `SlotsProofs` | proofs about `Router` | counters, single requests, refinement; each of the last two extends the first |
| `ApiProofs` | proofs about `HttpApi` | extends `HandlerProofs` |
| `ConfigProofs`, `SelectLoopProofs`, `ReaderProofs`, `LifecycleProofs` | proofs about `Config`, `SelectLoop`, `Exchange`, `Lifecycle` | |

Correspondence worth knowing:

* `route` and `attempted` hold positions in the alias's route list, which identify a
  `*Route` (and are `Route.Order`); 0 is `nil`.
* Local code is merged into the critical section it precedes. In particular
  `isCanceled` and the `SetHealth(false)` after it are one step: a client that leaves
  between the two has the same effect as one that leaves just after, since nobody else
  reads its context.
* When `Serve` returns its locals are reset; `attempted`, `result`, `written`,
  `observed` and `failovers` are kept until the next request so that properties can
  speak of finished requests. `written` counts response headers, `observed` and
  `failovers` the metrics calls of one request.
* `AttemptFails` covers every error of `attempt`, the encoding of the body included;
  `timeout` and `transport` differ only in the final error code.
* `ForwardPanics`: the handler's goroutine unwinds through `Serve`, `handleChat` and
  `instrumented`. `forward`'s deferred `Close` runs; `Release` and the count do not.
  `Writable` says that no upstream sends such a status.
* In `Config` a name is an identity, a length, its kinds of bytes and the kind of the
  first; a URL is scheme, host (identity, case, form of an IP), port (digits and value)
  and what stands around the origin. So two spellings of one origin are different
  values and `canonicalOriginKey` has something to do.
* In `HttpApi` a chat request is read (`body`), served and answered; the other
  endpoints answer in one step. `ObserveHTTP` ends a request and counts it under
  `statusLabel(returned)`. Every step is a step of `Router` or leaves its variables alone.
* Unknown backends in `SetHealth`, `Release` and `SwapReservation` (`ok == false`), and
  nil routes, cannot occur: `NewState` resolves every route.
* The `timeout <= 0` branch of `newIdleTimeoutReadCloser` is unreachable for validated
  configurations (1000 to 900000 ms); `StateAsConfigured` checks that.
* `isEventStream` and `Flusher` are a nondeterministic choice: `ForwardUnsupported` is
  possible for every final response.
* In `IdleTimeoutReader` `Prompt` says that goroutines that can run do so before the
  next tick; `ClientStalls` that a write to the client may block for any time.

## Runs

Passing:

| Run | Instance | Shows |
|-----|----------|-------|
| `failover` | 2 handlers, 2 backends of equal priority, one slot each, an unknown name | types; no attempt after commitment; finished requests accounted; counters equal reservations; no old response stays open; no more attempts than routes, the running one included; quarantines justified; refinement of `CapacitySlots`, swaps between backends included |
| `progress` | 2 handlers, the only slot of one backend, 2 models, metrics on, statuses on which `WriteHeader` panics | capacity; a counter covers its reservations also after a panic; every admitted request is answered, unless one upstream keeps `client.Do` for ever while the client waits; backends, their gauge and readiness recover |
| `select_loop` | all lists of 1 to 3 routes over 2 backends and 2 priorities, all health, loads 0 to 2 of 2, all attempted sets | the loop computes the documented choice |
| `reader` | 3 chunks, timeouts of a few ticks, any delays of any goroutine; upstream takes the request, client keeps reading | the attempt ends; body closed once, nothing lost, everything cleaned up |
| `lifecycle` | 2 health loops, 2 keep-alive connections, signals at any time | the process ends whatever clients do; nothing is left behind; a drain without timeout cuts nobody off; exit code |
| `config` | limit of 2 bytes, file of 0 to 4; over 4300 documents | whole file or none; validation accepts exactly the documents of the documented form, every limit from both sides; each entry is in the routing state with its own values |
| `http_api` | 2 requests at a time, 1 backend, 1 slot, 1 route, token configured | counted as answered; only authorized requests served; every chat request is counted in the end unless its relay or one `client.Do` goes on while the client waits, and none waits for its body for ever |

Violated, each against a sentence of the repository (see `findings`):

| Run | What happens |
|-----|--------------|
| `gauge_race` | handlers publish in the opposite order of their critical sections; the in-flight gauge stays wrong |
| `stale_probe` | a probe answered before the failure restores the backend after it |
| `reader_slow_client` | the timer counts time blocked in a client write as upstream silence |
| `header_timeout` | an upstream that never reads the request: no deadline runs until it is written |
| `panic_leak` | `WriteHeader` panics on an upstream status below 100 and the reservation is never released |

Disagreements met while modelling that have no run: `Serve` observes an
attempt before its body is relayed (`proxy.go:153`), although the help text of the
histogram promises the body of a final attempt (`metrics.go:74`); `expire` sets
`closed` before it closes the body (`stream.go:79-83`), so `forward` may return a
moment before the body is closed (`CleanedUp` says that it is closed in the end);
`SwapReservation` frees the old slot before `resp.Body.Close()` (`proxy.go:159-161`), so one exchange more than
`max_inflight` per swapping handler may be open for a moment (`ExchangesBounded` says: no
more than that); "the attempt ends and its reservation is released" on silence
(`ARCHITECTURE.md:89`) needs a client that reads or leaves, since a blocked write has no
deadline (`stream.go:125`, acknowledged in `server.go:12-14`); `upstream_model` is
validated trimmed (`validate.go:157`) and used untrimmed (`state.go:82`); a host with a
trailing dot is another origin (`url.go:64`) although `ARCHITECTURE.md:54` speaks of one
runtime; the health gauge's help text (`metrics.go:83`) speaks of the last probe although
a quarantine sets it to 0; an upstream status above 599 is counted as `5xx`
(`metrics.go:179`); and "so no goroutine outlives serve"
(`app.go:150`) is true of the health loops (`ServeStopsEverything`), not of handlers
still running when the drain times out, nor of the goroutine of `ListenAndServe`, for
whose end nobody waits.

Bounds. Statuses are 200 (final), 503 (retryable) and 99 (refused by `WriteHeader`);
the code distinguishes only these classes. Two backends and two routes give failover
within a backend, between backends and none left. Handlers restart from `idle`, so runs
of unlimited length are covered. `Chunks` and the timeouts are the only caps of the
reader; the number of expire goroutines is bounded by them. In `config` the limit of 2
bytes leaves room for a file below, at and above it at every step; documents deviate in
one field from a good one, on both sides of each limit, or in a pair of entries, which is
as far as any check of `Validate` looks. In `http_api` metrics of the state are off: this
layer does not read the gauges, and `progress` has them on. One route is enough there,
because failover inside `Serve` is invisible to the handler around it. Handler symmetry is
used where no liveness is checked. `SelectLoop.cfg`, `Reader.cfg` and `Config.cfg` allow
deadlock: selection, an attempt and loading end.

Fairness. `FairSpec` assumes weak fairness of each handler except in `client.Do`, and of
each health loop: the Go scheduler is fair and probes have an overall timeout of 2 s. The
return of `client.Do` is fair only once the client has left and its context has ended
(`Awaiting`): an attempt has dial, TLS and response-header timeouts but no deadline while
the request is written, which is what `header_timeout` shows. So `EventuallyAnswered` and
`EventuallyCounted` make one exception: a request that stays in a single `client.Do` for
ever. It cannot be delayed for ever in any other way, also not by going from upstream to
upstream. That an attempt ends when the upstream takes the request (`UpstreamReads`) is
`AttemptEnds` of `Exchange`, where each phase has the deadline `client.go` gives it.
Nothing is assumed of clients nor of the length of a body: `RelayEnds` is not fair, and
`EventuallyAnswered` ends at the commitment. In the reader the handler, the expire
goroutines and time are fair; writes only when the client does not stall; the upstream
never answers out of fairness. `ApiFairSpec` assumes the same fairness of the handler
goroutines and of the end of a body read: `ReadTimeout` (30 s) ends it.

In `Lifecycle` the steps of `runServe`, probes and the return of a closed listener are
weakly fair; the return of a health loop is strongly fair, because Go's `select` picks
at random among the cases that are ready and so cannot prefer the ticker for ever. The
deadline of `Shutdown` is a step that may come at any time of the drain and eventually
does. Requests need never end, and an idle connection may begin one at any time until
`Shutdown` closes it, also after the listener has failed. `Lifecycle.cfg` allows deadlock: the process exits.

## Proofs

Every theorem holds for all values of the constants that satisfy the assumptions below:
any configuration, any number of handlers and backends, any statuses.

`RouterProofs`: `TypesHold`, `CapacityHolds`, `CoveredHolds`, `ReservationsHold`. Everything
rests on `Typed` (types, and `Routed`: each serving handler is on a route of its alias).
Capacity needs no more: selection looks for room in the critical section that takes the
slot. The accounts need a relation between a counter and its holders, because `Release`'s
floor at 0 makes a counter say nothing by itself. The argument: a step of handler `r` moves
only `r` between the sets `Holders(b)` (`HoldersChange`); a step keeps, takes, gives or
moves a slot (`KeepsBalance`, `TakesSlot`, `GivesSlot`, `MovesSlot`), and in each case
the counters change as the numbers of holders do (`Balanced`). A balanced step preserves
both `inflight = holders` and `inflight >= holders` (`BalanceKeeps`). Every step is
balanced except a panic in `WriteHeader`, which only loses a holder (`PanicCovers`). So
`CoveredHolds` needs no hypothesis, while `ReservationsHold` and `SlotsImplemented`
assume `Writable`, and `panic_leak` shows that they must. `SelectionFinds` says that
`selectLocked` returns a route exactly when one is eligible: among priorities, loads and
positions there is a least one (`LeastNatural`, from the well-foundedness of `<`).

`HandlerProofs`: `CommitIsFinal`, `FinishedAccounted`, `AttemptsAreBounded`,
`ExchangesAreBounded` and the action property `QuarantineIsJustified`. None of the invariants is inductive: what a request has written,
observed and tried makes sense only relative to the point of `Serve` it has reached.
`ServeInv` says for each handler what is known at its point: `AtPoint` (a failed attempt has
an error, only a swap leaves a response open), `Counted` (the number of attempted routes is
that of observations, plus one while an attempt is unobserved, and that of failovers plus
one or, after a swap, two), `Answering` (what is written and what is still to be) and
`Finished`. A step of one handler leaves the others `Untouched`. The bound on attempts
follows, because the attempted routes are a subset of the routes of the alias. The bound on
exchanges follows from `CoveredHolds` and `CapacityHolds`, because an exchange belongs to a
holder or to a handler between its swap and the `Close`.

`SlotsProofs`: `SlotsImplemented`, by the same four cases: a take or a move is
`Take`, a give is `Give`, everything else leaves `slots` alone and is
`ChangeUsable` or a stutter.

`SelectLoopProofs`: `LoopIsSelection`, from the loop invariant `LoopInv` (best is the
preferred one of the eligible routes seen so far) and the fact that `Preferred` is
asymmetric and transitive.

`ReaderProofs`: `ExchangeTypes`, `ClosedOnce` and `Delivered`, about a whole attempt, since
an exchange is the reader with idle steps before it (`ExchangeReads`), from `CloseOwed` (whoever sets `closed`
owes the one `body.Close`) and `Buffered` (read = written + the chunk in the buffer).

`LifecycleProofs`: `LifecycleTypes`, `StopsEverything`, `Drains`, `ExitCodeHolds`, from `LifecycleInv`.
The strengthening `StopIsOrderly` says which of the two ways led to `checks.Wait`: after
a drain the server refuses to listen again, after a failed listener there is none; without
it a listener that is still starting could accept a request after the drain.

`ApiProofs`: `ApiImplementsRouter`, step by step: a step of the HTTP layer is a step of
`Router` or leaves `vars` alone; so the theorems of `RouterProofs` and `HandlerProofs` are
theorems of the server. `ServedAuthorizedHolds`, `ApiTypes` and `CountedRight` come from
`ApiInv`, two facts per request. `Linked`: a handler is at `serve` exactly while `Serve`
runs, and only an admitted request gets to `body` and from there to `serve`. `Owed`: which
status has been sent and which one the layers above will count; while `Serve` runs it is
tied to `result` and `status` of the proxy, so `ServeInv` is needed to know what `Serve`
returns.

`ConfigProofs`: `WholeFileHolds`, `ValidatesRight`, `ConfigTypes`, `StateRight`, for
documents of any length. `LoadInv` says at each step of loading which prefix of backends,
aliases and routes is known to be valid and that each map holds exactly the keys of that
prefix. One iteration extends the prefix exactly when the entry passes (`BackendStep`,
`AliasStep`, `RouteStep`); the prefixes at full length are `Valid` (`ValidByPrefixes`), and
an invalid prefix rules it out (`ValidPrefixes`). That origins may be compared by key is
`KeyIsOrigin`: two URLs that `ParseBaseURL` accepts have one `canonicalOriginKey` exactly
when they are one origin. `Valid` shares no limit and no character set with the checks of
the code: it states the documented form of each value (`GoodBackend`, `GoodRoute` and so
on), and `FieldsAreGood` proves that the checks ask exactly for it. Unique names make the
maps of `NewState` as large as the lists, and each entry the one found under its name
(`UniqueNames`).

Assumptions: configurations as `config.Validate` accepts them (`ConfigAssumption`, which
`StateRight` proves of `NewState`'s result: known backends, positive capacities, natural
priorities), finitely many handlers (`GoroutineAssumption`), natural statuses
(`StatusAssumption`), no backend named "no slot" (`NoSlotAssumption`; names contain no
blank), natural loads, a positive timeout. Documents hold values of the types of `types.go`,
and the identity of a host, being what it denotes, tells an address from a name
(`DocumentAssumption`).

Only model-checked: the liveness properties (`EventuallyAnswered`, `EventuallyRestored`,
`EventuallyReady`, `HealthGaugeCorrected`, `HeadersOrFailure`, `AttemptEnds`, `CleanedUp`,
`ServeTerminates`, `EventuallyCounted`), since fairness and `ENABLED` are outside the prover.
Every invariant and every action property of a passing run is also a theorem.
`InflightGaugeSettled`, `OnlySilenceExpires` and `RestoredByLaterProbe` are only used in runs
that violate them, as is `HeadersOrFailure` without an upstream that reads.

## Not modelled

What `/router/status` shows (`Snapshot`) is left out: it reads the flags and counters of
one critical section, from which nothing follows. Header filtering (`headers.go`) is a difference of two sets of names, with no state, order
or other actor. Logging, the JSON rewriting of the `model` field, YAML and URL syntax and
the exposition of metrics are data conversions that no property here depends on; where
their outcome matters it is a choice (`Decode`, `ChatBodyRefused`, `AttemptFails`).
Connection pools, redirects and HTTP/2 belong to `net/http`. On SIGTERM a running probe is
canceled and may report its backend unhealthy during the drain: `HealthChecker` allows a
missed probe at any time, and nothing in the repository promises otherwise.

## Plan

1. Done: all modules above, with their runs.
2. Done: a theorem for every safety property of a passing run.
3. Left: theorems for what does hold of the violated properties, such as the in-flight
   gauge with a single handler (`InflightGaugeSettled`);
   shorter proofs where two lemmas share their cases.
