# A verification model of karpenter-provider-hcloud

TLA+ specifications of the parts of this repository whose correctness depends on
the order in which things happen or on arithmetic nobody tests at its edges, TLC
configurations that check them on small instances, and TLAPS proofs that hold for
every value of their constants. `PROJECT.json` maps each definition to its source
lines and lists the components, runs, mutants, hazards and theorems.

## The system

Karpenter core decides which NodeClaims exist; this provider gives each one a
Hetzner server.

| Part | Source | What it keeps | Who else touches it | Module |
|---|---|---|---|---|
| List cache | `providers/instance/list.go` | one listing | create, delete, sweep, core's reads | ListCache |
| Create, delete | `providers/instance`, `cloudprovider`, `hcloudapi/servers.go` | nothing | Hetzner, whose answers get lost; the sweep | Fleet |
| Orphan sweep | `controllers/instancegc` | nothing between sweeps | reads the list cache and the NodeClaim informer | Fleet |
| NodeClass controller, termination | `controllers/nodeclass` | status and finalizer | spec edits, other writers, launches | NodeClass, ClassContract |
| Sub-reconcilers | `controllers/nodeclass`, `hcloudapi/{resources,errors}.go` | conditions and resolved ids | Hetzner's answers | Resolvers |
| Hash controller, drift | `nodeclass/hash`, `cloudprovider/drift.go` | hash annotations | create stamps the same annotation | Drift, Placement |
| Catalog | `providers/catalog` | a snapshot and a wake-up channel | validation, offerings | CatalogWake |
| Offerings, candidates, validation | `providers/instancetype`, `instance.go`, `request.go`, `validation.go` | status.locations | catalog, suppressed pairs | Placement |
| Unavailable offerings | `instancetype/{unavailable,metrics_sync}.go` | suppressed pairs, a gauge | concurrent creates, a ticker | Suppression |
| Bootstrap | `providers/bootstrap` | discovered cluster-info, token Secrets | concurrent passes and creates | Bootstrap |
| Kubelet arguments, resources | `bootstrap/kubeadm.go`, `instancetype/resources.go` | nothing | the kubelet and core, which must agree | Packing |
| Reboot | `instance/reboot.go` | nothing; Hetzner's action log | core's retries, operators | Reboot |

Core, the API server, informers, Hetzner, hcloud-go, the kubelet and operators are
external. They are modelled from how the code calls them and marked so in the map.

## Modules

The modules meet where their components do. Fleet has the whole of Create; other
modules use the part of it that touches their state. NodeClass has when
sub-reconcilers run and how the result is stored; Resolvers, Placement and Bootstrap
have what they conclude.

### ListCache

| Model | Code |
|---|---|
| `cached`, `fetchedAt`; `flight` | the fields of `listCache`; the one key of its `singleflight.Group` |
| `call[c]` | the stack frame of a caller, with ghosts: when it began, and the newest change announced by then |
| `history`, `pending`, `settled` | the servers this cluster owns, version by version; changes not yet announced; a ghost, the newest change announced while no older listing was in transit |
| `Begin`, `DoChan`, `GiveUp`, `Deliver`, `PointRead` | the caller's side of `list`, and what `List` and `Get` do with the result |
| `FlightRecheck`, `UpstreamList`, `FlightFail`, `FlightStore`, `FlightDone` | the function passed to `DoChan`, split wherever another goroutine can run |
| `CreateServer`, `DeleteServer`, `Invalidate`; `ProjectChanges` | the change at Hetzner, then `invalidate()`; changes nobody announces |

A listing is the version it shows and the moment Hetzner computed it; one that comes
in pages is taken at one moment.

### Fleet

`Provider.Create` with `serverClient.Create` inside it, `CloudProvider.Delete` with
`Provider.Delete` inside it, and the sweep, sharing one Hetzner project. Each call to
Hetzner or to the API server is a step.

| Model | Code |
|---|---|
| `work[c]` | core's one reconcile of NodeClaim `c`, inside Create or Delete |
| `project` | Hetzner's servers: name, labels, type, age, whether the create action will fail |
| `claims`, `unseen` | the NodeClaims, and those the process's informer has not delivered |
| `unavailable`, `gc` | `Unavailable.items`; the sweep's local variables |
| `Begin` ... `Record` | candidates, POST (accepted, taken, refused, answer lost, repeated), action wait, clean-up, re-read, adoption, and core recording the result |
| `Finalize`, `FinalDelete` | the live ownership read, and the DELETE |
| `GcList`, `GcClaims`, `GcNext`, `GcDelete` | `Reconcile` of instancegc, call by call |
| `Disown`, `Vanish`, `Crash` | an operator at the console; the process dies and another takes over |

Core has one worker per NodeClaim, repeats a create until a providerID is recorded,
turns an InsufficientCapacityError into a deletion, and repeats a delete until not
found. `DeleteClaim` may come at any time. A request in flight when the process dies
has landed before it dies. NodeClaim names are not used twice. A read that fails and
is simply retried is a stuttering step. The `late` owner is a ghost: a server
disowned after a deletion had read it as ours, or during the create that made it.
`NotOursUntouched` is about all other servers.

### NodeClass and ClassContract

| Model | Code |
|---|---|
| `obj`, `seen` | the object in the API server, and the informer's copy that passes and Create read |
| `pass` | `Reconcile`: its copy, the copy as stored, the next sub-reconciler, the kinds of failure met |
| `claims`, `listed` | the NodeClaims of the class, and those the field index knows |
| `Begin`, `AddFinalizer`, `Resolve`, `Validate`, `PatchStatus` | a pass, one step per call; both patches carry an optimistic lock |
| `FinalizeList`, `Release` | `finalize`: the listing, then the locked removal of the finalizer |
| `CreateBegin`, `CreateEnd` | `resolveNodeClass` with its readiness gate, then what Create built from it |

A spec is its generation and a resolved reference the generation it was resolved
from. `ClassContract` is the abstract promise: each status write judges the spec
current at that moment, and True publishes only references resolved from it.
`KeepsContract` is the refinement, with the mapping from `obj`.

### Resolvers

| Model | Code |
|---|---|
| `res`, `pc` | per sub-reconciler its condition, reason, published value and the answers they came from; which one runs next |
| `loop` | the local variables of the loop over a list of selectors |
| `ResolveOne` | image, network or placement group: at most one lookup |
| `Enter`, `Look`, `Finish` | firewalls and SSH keys: the early return, one lookup of the loop, what follows the loop |
| `Classify`, `lookup`, `configFailure`, `noteUnreachable` | the operators of the same names |

A pass may be given any answers, and the next one starts from its result. Which
answers justify which condition is said in the properties.

### Placement

`locationScope`, `Build` and `offerings`, `orderedCandidates`, `baseRequest` and
`serverDrift` as operators; catalog refreshes, edits, passes and creates as steps.
Names are numbers in the order the code sorts them by. Of a NodeClaim's requirements
types, locations and one size are kept. A sorted list is given by the order it is in
(`InOrder`: the n-th element is the one that n - 1 others precede) and a filtered one by
the positions it keeps (`Kept`), so that what the code computes can be reasoned about
without induction. `Responses` (external) is what Hetzner may report of a server, with
its location or image left out, and `serverFromHcloud` what the code makes of it. A
network of the class may be absent or unresolved. The stable sort of the candidates falls back to the order of the
loops that list them. `WellFormed` is what is assumed of Hetzner's catalog: a server type
is listed once, and a location once per type.

### Drift

| Model | Code |
|---|---|
| `class`, `claims`, `seen` | annotations and conditions in the API server, and the informers' copies |
| `work` | the hash controller: `Reconcile`, `BackfillOne`, `BackfillEnd`, `Stamp` |
| `CreateBegin`, `CreateEnd` | Create reading the class and `toNodeClaim` stamping the NodeClaim |
| `Evaluate` | core calling `IsDrifted` |
| `Upgrade`, `Restart` | another build, with or without a new `HashVersion` |

A hash is the pair of generator version and revision of the hashed fields.

### Suppression

`items` is `Unavailable.items` and `gauge` the series at 1. `Begin`, `Place` and
`FallThrough` are Create's loop, from the candidate list (the set `open` of places in
`Order` still to be tried, the cheapest first) to `Mark` and the gauge write; `SyncReset`,
`Snapshot` and `SyncSet` are `SyncUnavailable`. `failed` and `quota` are ghosts. Orders
and core's waits take time, statements in memory none, but they interleave. Times are
kept as what is left or how old, so that time never stops.

### CatalogWake

`Refresh` and `Send` are the refresh loop and its channel of capacity one, `PumpTake`
and `PumpGive` are `pumpRefreshSignal`, then `enqueueCatalogWaiters`, the work queue
with its delayed and rate-limited parts, and passes reduced to the condition
ValidationSucceeded. `Restart` loses all that is in memory.

### Bootstrap

`Read` and `Store` are `Discovery.Refresh`, split at the lock; `Publish` is the
sub-reconciler's `Resolve` and the status patch, which may fail; `Render` mints the
token of a Create, and `Order`, `Cleanup` and `Reread` are its attempts. The POST and
the re-read have no deadline in the code and take up to `RequestTime` here; the wait
for the create action has `CreateTimeout` and the clean-up its own `CleanupTimeout`.
`Delete` is core's. `Rotate` and `Break` change cluster-info. A value is the version of
cluster-info that published it, or an override. A token has the time it has left, and
goes when that is over.

### Reboot

`GetServer`, `JudgeActions` and `Reset` are the three requests of a call; `Request` is
core committing an operation it then retries, with the time of its condition or, if there
is none, the zero time. `actions` is Hetzner's log, newest first, of which one page is
read, dated by a clock that is `skew` away from core's. An action is accepted first
(`Log`) and carried out or failed later (`Settle`): `Reset` returns nil on acceptance. An
answer may be lost, and hcloud-go may then ask again within the same call. `Other` is
whatever else happens to the server; the ghost `touched` says that something did after
the call in flight read it. A request whose caller has given up has landed by then or
never does: one delayed beyond that is not modelled.

### Packing

`Capacity`, `Overhead` and core's subtraction (`Allocatable`, external) compute what is
published, `kubeletArgs` what the kubelet is started with, `NodeAllocatable` (external)
what the kubelet makes of it
on a machine whose memory loss is one of the two extremes the source gives.

## Runs

Each run's cfg gives the constants; no definition is replaced.

| Run | Instance | Shows |
|---|---|---|
| `list_cache` | 2 callers, 1 mutator, 1 server, TTL 1, timeout 1, clock to 3, 2 changes, symmetric | `StalenessBounded`: no answer is as old as TTL + listTimeout. `NoCallWhileFresh`: one request per window. `GoneIsTrue`: a miss in a listing is never "gone". `AnnouncedIsListed`: a call that begins after a change was announced is answered with it, unless an older listing was in transit at the announcement |
| `fleet_create` | 1 NodeClaim, 3 candidates, 2 attempts, 2 servers, one undated, 3 faults | `ProviderIDIsOwn`, `NothingLeftBehind`, `NotOursUntouched`, `DeletionFinishes` |
| `fleet_sweep` | 2 NodeClaims, 1 candidate, 1 server, minAge 3, lag 1, sweep 1, 1 fault | `GCSparesLiveClaims`, `OrphansReaped` |
| `node_class` | 2 references, 1 NodeClaim, 2 generations, 1 fault | `VouchesForThisSpec`, `BuiltFromOneSpec`, `LaunchedKeepsItsClass`, `OutageSparesReady`, `KeepsContract`, `Settles`, `ReleaseFollows` |
| `drift` | 1 NodeClaim, 3 revisions, 2 generators, 1 fault | `BackfillIsComplete`, `CondemnedStaysDrifted`, `UpgradeNeverDrifts`, `StampFollows` |
| `resolvers` | all five kinds, 2 selectors each | `ReadyMeansWhole`: nothing partial is published as resolved. `RefusedForCause`: refused only over the class's own configuration, for the worst reason |
| `placement` | 3 catalogs, 3 specs, 3 sets of references, 2 attempts, 1 server | `ScopeIsExact`, `CheapestFirst`, `OrderSettles`, `FreshIsNotDrifted` |
| `suppression` | 2 creates, 2 pairs, 2 codes, TTL 3, interval 2, 1 attempt each, orders of up to 1, waits of up to 2, 1 fault | `SuppressionIsExact`, `GaugeFollowsSuppression`, `WalksToStock` |
| `catalog_wake` | 1 class, 2 refreshes, 3 faults | `ParkedIsWoken`, `Unparks` |
| `bootstrap` | 2 classes, 1 NodeClaim, 2 versions, 2 tokens of 5, 3 attempts of up to 1 and 1, registration 1, 1 fault | `JoinParametersArePaired`, `TokenOutlivesRegistration`, `Converges` |
| `reboot` | page of 2, 2 operations, 2 stops or halts by others, clock to 2, Hetzner's clock even or 1 behind, 1 failure | `ResetsOnce`: the resets of one operation that stand come from one call. `SparesHeldDown`: a server that is off or held down is not reset, unless someone touched it behind the call's back. `OperationEnds` |
| `packing` | 2 server types, 54 kubelet blocks, 1 lost answer, 1 edit, 1 withdrawal | `NeverOverPacks` |

Why the bounds suffice for the interesting cases:

- Two callers are one that starts a flight and one that joins it or comes too late.
  Times of one tick have an instant inside, at and past each limit.
- Three candidates with two attempts leave one beyond the bound. Three faults are a
  lost answer, a crash and a failed delete in one life. Two NodeClaims are the one
  whose server is at stake and the one that keeps the sweep from refusing to act;
  minAge 3 is the least that exceeds lag plus sweep, so both may be used up. Ages stop
  growing where no comparison tells them apart, so Fleet has no bound on time.
- Two references are one that is resolved and one still pending; two generations are
  a spec and its edit, which may come between any two steps of a pass.
- Two generators are an upgrade; three revisions are the one a node was built from, the
  edit that condemned it, and an edit after that, each before or after the upgrade.
- Two selectors tell the first answer from a later one. Per kind, the answers are one
  of each class that kind can meet; the image meets all of them.
- The catalogs of `placement` have a price tie, an unpriced pair, an unreported zone, a
  type of another architecture, a phased-out type and no location at all.
- With one attempt per Create, reaching the dearer pair needs what an earlier Create
  remembered. One order and one wait use up the TTL of 3, the least for which memory
  outlasts the walk (`MemoryOutlastsTheWalk`), and suppressions expire and start again
  without end.
- Two refreshes are the one that parks a class and the one that must wake it.
- A token of 5 covers a Create that returns on its first or second attempt and not one
  that returns on its third, so both sides of the condition are met. A class overrides
  nothing, or the endpoint with malformed pins; other mixtures of override and discovery
  are in the theorem only.
- A page of two is filled, and overfilled, by two actions of others and a reset. Others'
  power-on, rescue and reset are in the theorems only.
- The kubelet blocks have every form of threshold (absolute, 0, fractional, 100,
  above 100, unparsable), defaults and partial maps, and an argument that repeats a flag.

Deadlock is checked except where a bounded run may really stop: `node_class` (a
released class), `drift` (a terminated class and no NodeClaim), `reboot` (a refusal is
final) and `packing` (one life of one node).

### Fairness

Fairness is assumed only where the code's scheduling gives it: goroutines that can
run do (weak fairness of the passes, the pump, the ticker and a Create's steps), work
queues are served and core requeues unfinished work, informers deliver, and delays run
out. In Fleet time is strongly fair, since a sweep must not stop the clock by being
always about to end. In NodeClass the refresh loop keeps trying for a catalog. In
CatalogWake nothing is assumed of the refresh loop but that it sends what it stored.
Nothing is assumed about operators, edits, deletions or failures. Failures are
finitely many (`MaxFaults`, in Reboot `MaxFailures`): an API that never answers again justifies no promise.

## Where comments promise more than the code does

The properties above are stated for what the code does. In these places a comment
says more; a property that touches the place is stated with that exception. One more
limit has no comment: with eight or more cheaper pairs out of stock and orders that use
up their time-outs, the five minutes of a suppression end before a walk of several
Creates is over, and the code does not guarantee that it reaches the pair in stock
(`WalksToStock` assumes a memory that outlasts the walk).

| Code | Comment | What happens |
|---|---|---|
| `list.go:124` | `list.go:120`: "the very next List reflects a change" | a flight in progress may store a listing computed before the change and serve it for a TTL (`AnnouncedIsListed` excepts it). `Get` confirms a miss with a point read, `List` does not |
| `instance.go:155` | `servers.go:183`: "The action is waited on rather than assumed successful" | an adopted server's create action is not waited for |
| `cloudprovider.go:263` | `cloudprovider.go:261`: "status is only trustworthy once the roll-up says so" | Ready may be about the previous generation: Create builds from one spec (`BuiltFromOneSpec`), not always the current |
| `hash/controller.go:105` | `hash/controller.go:97`: "re-stamping would un-drift it" | the condition is read from a cache that may not have it yet; `CondemnedStaysDrifted` is about NodeClaims that were rightly Drifted when the process started and were not evaluated since |
| `hash/controller.go:106` | `hcloudnodeclass_hash.go:11`: the annotation is the hash "a node was created from" | the back-fill writes the class's present hash |
| `drift.go:120` | `drift.go:21`: the spec changed "in a way that would produce a different server" | an edit undone before the stamp is not seen, one undone after it is drift of whatever was built in between |
| `types.go:70` | `validation.go:49`: "the locations a node may actually be placed in" | offerings are filtered by spec.locations, not by status.locations, so with spec.locations empty ("every location in the network's zone", `hcloudnodeclass.go:74`) a pair outside the zone may be ordered, and is refused; `CheapestFirst` counts it as acceptable |
| `drift.go:151` | `drift.go:149`: "the catalog moving is not" intent | with spec.locations set, a catalog that loses a location narrows status.locations and drifts its nodes |
| `instance.go:144` | `errors.go:76`: maintenance should suppress "the whole datacenter" | one pair is suppressed (`SuppressionIsExact` leaves open whether its location is) |
| `instance.go:186` | `errors.go:25`: quota should "suppress all offerings" | none is (`SuppressionIsExact` leaves open whether all are) |
| `clusterinfo.go:121` | `clusterinfo.go:65`: a rotation is "picked up on the next refresh" | a slower pass may store an older read over it for a while; `Converges` says it does not last |
| `provider.go:44` | `provider.go:30`: minted "ONCE per NodeClaim" | once per Create, and core repeats Create; `TokenOutlivesRegistration` does not cover a server adopted with an earlier Create's token |
| `token.go:34` | `token.go:30`: a token "expiring before core gives up" is what the TTL rules out | the token is minted before the first of 8 attempts. An attempt may take 90 seconds of wait and 30 of clean-up besides its requests, so with instant requests the eighth may return 15 minutes and a half after the Mint, and its token expires half a minute before core's 15 minutes are over; the first seven are covered (the first six if a request takes 15 seconds). `TokenOutlivesRegistration` is about the attempts the TTL has room for |
| `reboot.go:71`, `servers.go:253` | `reboot.go:25`: a server "that is off, or that someone stopped ... is refused" | within one page of 50 actions, and as of the call's reads (`SparesHeldDown`) |
| `reboot.go:63` | `reboot.go:53`: "a reset from an earlier call counts as issued" | if the request has a time, Hetzner's clock dates the reset no earlier, and the page still holds it (`Recognisable`); if Hetzner's clock is behind, a retry may reset again |
| `kubeadm.go:132`, `instance.go:167` | `kubeadm.go:112`: reservations "MUST be the values the instancetype package subtracts" | an extra argument may repeat a reservation, and an adopted server may be published from an edited block (`NeverOverPacks` excludes both) |

## Proofs

Eight modules prove, for all constants that satisfy the named assumptions of the
component's module, what is listed under "theorems". Each argument is an inductive
invariant, preserved by one lemma per action or group of actions.

**ListCacheProofs.** `CacheInv`: a stored listing shows a version that exists and was
computed at most a timeout before it was stored. `FlightInv`: the clock has not passed
the deadline of an upstream call, a listing in transit was computed inside that call,
and one about to be handed out is young enough for whoever joins now. `CallInv`: a
running call holds no listing, and began at a version that exists. `NewsInv`: what is
cached or in transit shows the newest settled announcement. The properties themselves are the rest of `IInv`.

**FleetProofs.** `ClaimOK(c)`: a busy worker belongs to a NodeClaim that exists and was
delivered; an id it holds or has recorded belongs to a server labelled for that
NodeClaim, of the type published; what it is about to delete was ours when it looked.
`ServerOK(s)`: a server is no older than its NodeClaim. `SweepOK` is the heart: a
listed server whose NodeClaim exists and is not in `live` is at most `MaxLag + gc.age`
old. Servers are listed before NodeClaims and matched by name, so a NodeClaim is
missing only when the informer had not delivered it; `MaxLag + SweepMax < MinAge`
keeps its server too young to delete. That inequality is an assumption the code does
not enforce: `minAge` is five minutes, and nothing bounds a sweep's length.

The module also holds the two theorems about Reboot, another user of the provider's
servers; the two specifications share no state. `LogInv`: the log is newest first and
within Hetzner's clock, and what is ours in it is a reset. `OnceInv`: while calls can
recognise each other (`Visible`, which is `Recognisable` without counting), a call about
to reset has seen no reset of the operation that stands, so those there are it asked for
itself, and all that stand are of one call. `HeldInv`: until someone touches the server,
its status is what the call read, and a call about to reset has no action that holds it
down within the page. `SparesHeldDown` is an action property and follows from `HeldInv`,
since only `Reset` logs an action of ours.

**NodeClassProofs.** `SpecInv`: no copy claims a condition for a generation it has not
seen, a resolved reference is of the generation its condition names, and a copy the
API server would still accept a patch of has the object's generation. `TermInv`: a
NodeClaim with a create under way is in the index before Create reads the class, so a
release that found none is right. The refinement of `ClassContract` follows step by
step, and `BuiltFromOneSpec` from the contract alone: Create copies a status that
satisfied it. `SpareInv` is for the action property `OutageSparesReady`: on every copy
Ready is the roll-up of the other conditions (`Rolled`); a copy of the object's present
version has its conditions (`Current`), so what a locked patch replaces is what the
pass started from; and a pass that met no configuration failure has turned nothing
False, nor, without a useless catalog, anything that was True for this generation.

**DriftProofs.** `FillInv`: a NodeClaim of an earlier build is listed as such by the
informers, so a pass has it still to do or has failed on it, and the class is not
stamped. `QuietInv`: until the first edit all annotations agree with the first
revision. Together they give `BackfillIsComplete` and `UpgradeNeverDrifts`. `HashInv`:
no copy of the class is of a later revision than the spec, the class's two annotations
are of one generator, and a NodeClaim's hash is of a generator and a revision that have
been. `CondemnedInv`: every copy made since the process started shows a condemned
NodeClaim as Drifted, so the back-fill leaves its hash alone; and a hash of the running
build is of an earlier revision than every copy of the class shows, so no stamp meets
it. `CondemnedStaysDrifted` follows, for NodeClaims that were rightly Drifted: one that
has the hash of the present spec, and is Drifted only because the class's stamp lags
behind, is cleared by that stamp.

**SuppressionProofs.** `Link`: what an entry of the map has left and the age of the
pair's last failure add up to the TTL, and a pair without an entry has no younger failure. `GaugeInv`:
a rebuild starts on time and is over before the clock moves on; every series that
stands, or that the rebuild is about to set, was justified by the map less than an
interval before the next rebuild; and a suppressed pair is shown, or the rebuild or the
Create that marked it is about to show it. `GaugeFollowsSuppression` follows.

**PlacementProofs.** All four properties are proved, for every catalog, spec, set of
references and NodeClaim. The argument starts with two facts about
order: `InOrder` runs through a finite, totally ordered set (`InOrderEnumerates`), and
nothing else does (`EnumerationIsInOrder`). Then, along the code:

- Validation. `Once` keeps exactly the names that are in a set, none twice, so what
  `locationScope` puts in scope is the set of usable locations, and `ValidatedFacts` says
  what each outcome of `Validated` means. `ScopeIsExact` follows, since only a pass
  changes the status.
- Candidates. `OfferingsFacts` and `BuildFacts` say what the two filters keep.
  `Menu` is the set of (type, location, price) that a NodeClaim may get, without the order
  of any list. Price, type and location together tell any two of them apart
  (`CheaperOrders`), so the stable sort never falls back on the listing, and the
  candidates are `InOrder` of the menu (`CandidatesAreMenu`). Two listings of a catalog
  have the same menu and hence the same candidates (`ListingDoesNotMatter`);
  `OrderSettles` is the case of the catalog read backwards. The menu's pairs are the
  acceptable ones, each at its price plus one and the same surcharge, which gives
  `CheapestFirst`.
- Drift. `PlacementInv` says that a fresh server has the request the class would make now
  and, if the spec names locations, is in a published one. A create establishes the
  second part because an offering passes the same filters as validation, except for the
  network's zone, which Hetzner enforces (`Attaches`). With it `serverDrift` finds
  nothing to complain of, in any answer of Hetzner's.

`WellFormed` is needed: if a type were listed twice, the two entries could differ in price
and the order of the listing would decide.

**BootstrapProofs.** `CacheInv`: the cache's two values are of one read. `TokenInv`: a
step of a Create has not outrun its limit, and the token of a NodeClaim on its way has
lost no more than the attempts before, at their longest, and the time spent in this one.
Nothing is assumed of the timeouts: `TokenOutlivesRegistration` says itself for which
attempts the TTL has room.

The module also holds the two theorems about Resolvers, the other sub-reconcilers of the
pass that publishes cluster-info; the two specifications share no state. `LoopInv` says what the
loop's variables tell of the answers so far: `resolved` has the places of the found
ones in order, `reason` is empty exactly if all were found, and it is other than a miss
exactly if `closed`, exactly if some answer was neither found nor a miss. `Sound(k, r)`
is what a result of kind `k` says of its answers; every way to leave a sub-reconciler
establishes it, or leaves the earlier result as it was.

**PackingProofs.** The invariant ties what was published, the server's flags and the
node to one server type and one block. The arithmetic is in lemmas: the estimate's 7%
and 2% are at least what a machine loses, and a percentage rounded up on the smaller
estimate and down on the larger machine leaves the estimate smaller. It holds for
every catalog and every block, and for the two extremes of measured memory loss.

The module also holds the theorems about CatalogWake, which shares no state with Packing.
`PassInv`: a pass works on what the informer shows, or its key is queued again. With it
`ParkedIsWoken` is inductive.

`TypeOK` is proved of ListCache, Fleet, NodeClass, Drift, Suppression, Bootstrap and
CatalogWake. `CapacityIsReal` (Fleet) is proved and in no run.

Every safety property of every run is proved. Only model-checked are the liveness
properties (`DeletionFinishes`, `OrphansReaped`, `Settles`, `ReleaseFollows`,
`StampFollows`, `WalksToStock`, `Unparks`, `Converges`, `OperationEnds`): they rest on
fairness, which is out of this prover's reach.

## Not modelled

- cloud-init text, redaction of logs, the wording of conditions and events
  (`events.go`): nothing reads them back.
- Metrics other than `offering_unavailable`, start-up wiring, flags, generated deep
  copies and declarations of API types: no state or order of their own.
- The conversions from hcloud-go's structures, but for the server's, the parsing of a kubeconfig and the
  computation of CA pins: modelled by their result.
- `zone.go`'s table of legacy datacenter names, and labels of instance types other than
  type and location: constants.
- `nodeAgeDrift`: a comparison of a creation time with a limit.
- `MarkLocation`, `Code`, `Len` and `Revoke`: no caller in the program.
- The taint that keeps pods off a node until core has labelled it: one line of
  `kubeadm.go`, heeded and lifted by others.
- That a flight survives the context of the caller that started it
  (`context.WithoutCancel`), and that `singleflight` answers everyone who joined.
