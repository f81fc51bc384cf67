# HAMi-DRA in TLA+

HAMi-DRA moves HAMi's device-plugin resources (`nvidia.com/gpu`, `huawei.com/Ascend310P`, ...) to
Kubernetes Dynamic Resource Allocation. Admission *webhooks* turn container resources into
ResourceClaims or ResourceClaimTemplates and delete them with their Pod or Job; a *monitor* keeps the
usage of every device in memory for Prometheus; a *fake driver* publishes made-up devices for clusters
without hardware. This directory models the parts of all three in which the order of events matters,
and the conversion of resources and configurations. TLC checks the models on small instances, TLAPS
proves the safety properties that hold for every value of the constants.

## 1. Inventory

| Component | State | Operations | Talks to |
|---|---|---|---|
| Pod mutating webhook `pkg/webhook/dra/mutating.go` | none of its own; the claims of the request at hand | `Handle`, `handleContainer`, `deleteResourceClaims`, `handleUpdate` | API server: Create, Delete, List |
| Pod validating webhook `pkg/webhook/dra/validating.go` | none | `Handle` (DELETE), `deleteResourceClaimTemplate` | API server: Delete, Get + Delete with uid |
| Volcano Job webhooks `pkg/webhook/volcano` | none | `Handle`, `handleTask`, `handleContainerTemplate`, `deleteResourceClaimTemplates` | API server: Create, Delete |
| Claim names `pkg/utils/claimname.go` | - | `OwnsClaimName`, the truncation with a hash | all four webhooks |
| Device configuration and conversion `pkg/config` | the configuration, read once | `DRADevices`, `ConvertCores`, `ConvertMemory`, device types | mutating webhooks, collector |
| Monitor cache `pkg/cache` | `Nodes` (per node: slices, device list, usage counters), `Claims`, `ready` | `Start`, `Stop`, claim handlers, slice handlers, getters | informers (two goroutines), collector |
| Collector `pkg/metrics` | none between two scrapes | `Collect`, `podDevices` | the cache's getters, Prometheus |
| Monitor process `cmd/monitor` | two HTTP servers, readiness | `Run`, `/readyz` | cache, collector, kubelet |
| Fake driver `cmd/fake-driver` | the devices of the run, published slices | `DevicesForNode`, `NewDriver`, prepare, unprepare, `HandleError` | ConfigMap, kubelet plugin helper |
| Extended resource warnings `pkg/webhook/dra` | none | reads DeviceClasses, warns | - |
| Webhook process `cmd/webhook` | - | `Run` | registers the four handlers |
| Configuration web UI, options, clients, versions | - | - | - |

What is hard in it:

* **The monitor's two informer goroutines** change the same counters in several critical sections per
  event. The slice handler recomputes what the claim handler maintains by increments, from a copy of
  the claims taken before the lock. A scrape reads all of it in many small critical sections.
* **The webhooks have side effects before the admission is decided.** A creation makes several API calls
  that fail one by one, whose context is cancelled after ten seconds, and whose process may die; the
  Pod may be refused afterwards; the same Pod may be created again meanwhile. The only state is shared:
  the objects in the API server, addressed by names built from owner, container and device type.
* **Deletion happens on the request to delete**, by names found in the object, and must tell what the
  webhook made from what a user made by the spelling of a name that may be cut and hashed.
* **Processes start and stop around other goroutines**: the monitor waits for informers, registers
  handlers late and shuts its servers down in an order; the fake driver restarts over old claims and
  edited configurations.

What makes each part correct:

* Monitor: a counter shows the claims charged to its device; the claims cache mirrors what the informer
  delivered; what is released was charged; the device list is that of the last slices.
* Scrape: no series twice, no share lost, every Pod series has its device's.
* Monitor process: it becomes ready, its cache catches up with the API server, it stops when told to,
  and answers as ready until it is closed.
* Creation: a denied request leaves nothing behind and takes nothing that is not its own; a stored Pod
  or Job keeps its claims. All of the claims or none, and no claim after the answer: `Reservation`.
* Deletion: everything made for the deleted object goes, nothing of a user goes.
* Conversion: what is requested is what HAMi would have reserved; resource names and claim name
  suffixes of two device types never collide.
* Fake driver: it serves what its documentation says of the configuration, prepares what it has
  published, and does not stay up without answering.

The hazards at their lines are in `PROJECT.json` (`hazards`), each with the properties that cover it or
the reason why none does.

## 2. Modules

```
ClaimServer, ClaimNames --> Admission --> PodAdmission --> MCPodAdmission       TLC
                                     \--> JobAdmission --> MCJobAdmission       TLC
Reservation <-- implemented by PodAdmission and JobAdmission
Admission --> AdmissionProofs; PodAdmission --> PodAdmissionProofs              TLAPS
                               JobAdmission --> JobAdmissionProofs              TLAPS
Quantities, VendorConfig --> Conversion --> MCConversion                        TLC
                                       \--> ConversionProofs                    TLAPS
MonitorCache --> MCMonitorCache                                                 TLC
            \--> MonitorCacheProofs                                             TLAPS
Collector --> MCCollector                                                       TLC
         \--> CollectorProofs                                                   TLAPS
MonitorProcess --> MCMonitorProcess                                             TLC
              \--> MonitorProcessProofs                                         TLAPS
FakeConfig --> FakeDriver --> MCFakeDriver                                      TLC
                         \--> FakeDriverProofs                                  TLAPS
```

`PodAdmissionProofs` and `JobAdmissionProofs` also extend `AdmissionProofs`, which has what both share.

### MonitorCache: `pkg/cache/nodedevices.go`, `pkg/cache/cache.go`

One action is one critical section (a lock held), so every interleaving of the two goroutines is there.

| Code | Model |
|---|---|
| the informer's last object per claim and slice | `delivered`, `handed` |
| `Claims.Claims` | `claims` (key -> results) |
| position of the claim handler: releasing, charging, node looked up but not booked | `phase`, `key`, `todo`, `current`, `held` |
| pending calls of `setSliceDevices`, its copy of the claims | `calls`, `copied`, `snapshot` |
| `info.slices`; `NodeDevice` objects with `CoresUsed`, `MemoryUsed` | `listed`; `used` |
| `onAddClaim`, `onUpdateClaim`, `onDeleteClaim` | `OnAddClaim`, `OnUpdateClaim`, `OnDeleteClaim`, then `ForgetClaim`, `StoreClaim` |
| `increaseNodeUsage`, `decreaseNodeUsage` | `LookupNode` (under `n.mu`), `Apply` (under `info.mu`) |
| `onAddSlice`, `onUpdateSlice`, `onDeleteSlice` | `OnAddSlice`, `OnUpdateSlice`, `OnDeleteSlice` |
| `setSliceDevices` | `CopyClaims`, then `SetSliceDevices` |

Abstractions. The code treats cores and memory alike and independently, so a result has one amount,
`Total[{r}]`. The results of a claim are handled in any order, a superset of the code's. Devices carry
no UUID or totals: nothing here depends on them. `held` says whether the `NodeDeviceInfo` a handler
looked up has left `Nodes`; the code then books on an object nobody reads.

`drifted` is a history variable: the nodes whose last rebuild was *disturbed*. A rebuild is undisturbed
when no claim of the node is in the handler, its copy of the node's claims is current, and the devices
it keeps show no usage. On other nodes the counters can be wrong (see 4), so the counter properties
speak of the nodes that are not drifted. A single-slice node is drifted only by a race.

### Collector: `pkg/metrics/collector.go`

A scrape as the reads of the cache it makes, one after the other. What the handlers of `MonitorCache` do
to the device lists meanwhile is `ChangeDevices`: any node may get any list between any two reads, which
is more than they can do.

| Code | Model |
|---|---|
| `collectNodeMetrics`: the node names, then each node's devices | `ListNodes`, `ReportNode`; `unread`, `nodeSeries` |
| `podDevices`: the copy of the claims, then each claim with a copy of its node's devices | `CopyAllClaims`, `SumClaim`; `copied`, `unread`, `podSeries` |
| the map from device and Pod to its sums | `podSeries`: the UUID label and the results that were added up |
| the emission of the sums and the end of the scrape | `EndScrape` |

Amounts are the sets of results that were added up, so that a result counted twice or not at all shows.
`reshaped` is a history variable: the nodes whose device list changed during the scrape. On those the
code mixes states, and can emit a series twice, when an update gives one device's UUID to another.

### MonitorProcess: `pkg/cache/cache.go`, `cmd/monitor/app/monitor.go`

| Code | Model |
|---|---|
| `Run`, its position; `GiveUp` for its early errors | `main` |
| `Cache.Start`: request, start, wait, register, wait | `StartInformers`, `RegisterClaimHandler`, `BecomeReady` |
| `Cache.ready`, `Cache.Stop` | `ready`, `StopCache` |
| the goroutines of the metrics and health servers, their `Shutdown` | `ListenAndServe`, `Shutdown`; `listening`, `broken` |
| the handlers of `cache.go` | `Handle`; `cached` |
| client-go's informers (external) | `informer`, `store`, `queue`; `FirstList`, `Watch`, `Relist`, `Deliver` |
| the signal | `Signal`, `signalled` |

What a handler does with an object is in `MonitorCache`; here the object is in the cache or not. Updates
that keep an object are left out: they change neither. A new store is told to a registered handler object
by object, in any order (`Announce`): additions, deletions that the watch has seen, and for those that it
missed and a later list does not show, tombstones.

### ClaimNames: `pkg/utils/claimname.go` and `resourceClaimName`

Texts are sequences of characters. `ClaimName` joins namespace, owner and rest, and cuts a long name to
`PrefixMax` characters before a hash; `OwnsClaimName` compares the prefix, cut at the same place.

### ClaimServer, Admission, PodAdmission, JobAdmission: the webhooks

`ClaimServer` is the API server's stored claims and its calls. A call is done, refused, or lost (it took
effect but the caller sees an error). The server's timeout cancels a handler's context: one call may
still be on its way, later ones fail. Dry-run requests send dry-run writes.

`Admission` adds the life of a Pod or Job around the webhooks, from the webhook registrations in
`charts/`: a creation whose webhook fails is rejected (`failurePolicy: Fail`), an admitted object is
stored or refused, a deletion goes on whatever the webhook does (`failurePolicy: Ignore`). Handlers
crash at any point.

`PodAdmission` and `JobAdmission` add the handlers, one action per API call.

| Code | Model |
|---|---|
| objects in the API server, with their creator | `objects` |
| Pods or Jobs in the API server | `workloads` |
| a request in `Handle`: which container resource, which names are left to delete | `stage`, `pos`, `todo`; `dstage`, `target`, `dtodo`, `uid` |
| `handleContainer`: a conversion error; `Client.Create` | `ConversionFails`; `CreateClaim` |
| `cleanup` in `handleContainer`, the second pass in `Handle` | `StartCleanup`, `DeleteCreated`, `EndPass` |
| `ValidatingAdmission.Handle` | `ReclaimPod`, `SkipClaim`, `DeleteClaim`, `AllowDelete` |
| `deleteResourceClaimTemplate` | `GetTemplate`, `DeleteTemplate` |
| Volcano: `handleContainerTemplate`, `deleteResourceClaimTemplates`, `ValidatingAdmission.Handle` | `CreateTemplate`, `StartRollback`, `DeleteCreated`, `Deny`, `ReclaimJob`, `SkipTemplate`, `DeleteTemplate` |

Abstractions. A claim name is a record of owner and slot (task, container and suffix); `Spelled` makes its
text, and the deletion webhooks look at the text (`Owns`). Two records have different texts
(`SpellingAssumption`): in the code Pod `a` with container `b-c` and Pod `a-b` with container `c` ask for
the same name, which is left out here and listed under `hazards`. A user's claim may be called like a
generated one: a Pod that lists such a claim has it deleted in ResourceClaim mode, as in the code
(`Mistaken`, `Taken`). Only a name that the webhook itself wants is never one of those. What a claim requests is in
`Conversion`. Deletion removes an object at once; the API server keeps a ResourceClaim in use until its
finalizer is gone, during which a Create of that name fails as it does here for an existing name. The
uid of an object is its creating request.

`failed` and `contended` are history variables: handlers with a failed call, a cancelled context or a
crash, and the names of Pods or Jobs on which two handlers worked at the same time. The code has no
protection against the latter; the finding of `pod_rollback` is one consequence.

### Reservation: what the webhooks promise

An abstract specification of what a creation request does with its claims: while it is open it makes
them one by one; it is granted with all of them, or takes all of them back and is denied; after its
answer no claim comes and none goes. Requests that are *excused* (a fault of their own, another handler
on their workload, a refusal after the webhook's answer, a deletion) may lose claims or leave some
behind, but still make none after the answer. Both webhooks implement it: `Promise` instantiates it with
`phase`, `held` and `excused` computed from their state, and the property is `Reserves`.

### Quantities, VendorConfig, Conversion: `pkg/config/dra_device.go` and the contents of the claims

`PodAdmission` says which claims exist; `Conversion`, what they ask for. It follows one container through
`handleContainer`, or `handleContainerTemplate` when it is one of a Volcano task, with the ResourceSlices
changing between its two reads of them, and then sends the created Pod to `handleUpdate` again.
`Quantities` is the arithmetic, on machine integers. `VendorConfig` is `DRADevices`: from the sections of
a configuration file and the vendor flag to the device configs or an error, with the default names, the
Ascend chips and the checks for repeated names.

| Code | Model |
|---|---|
| what `DRADevices` returns | `cfgs`, from `DRADevices(c, flag)` where `Accepts(c, flag)` |
| which handler runs | `volcano`; `ForTask` is what the Volcano handler uses of a config |
| `container.Resources.Limits` | `limits`; as the user wrote them, `manifest` |
| the loop over the configs, the step of its body | `at`, `stage` |
| the claim being built; the claims created | `draft`; `claims` |
| devices in the ResourceSlices; `deviceCapacities` | `published`; `ComputeUnits`, `MemorySizes` |
| the body of the loop | `SkipConfig`, `TakeCount`, `NoCores`, `RequestCores`, `RequestMemory`, `RequestShare` (`requestMemoryPercentage`), `CreateClaim` |
| its errors | `CoresDenied`, `MemoryDenied`, `ShareDenied`, `CallFails` |
| `handleUpdate`, `stripConverted` | `HandleUpdate`, `StripConverted`; the answer in `answer` |
| `ConvertCores`, `ConvertMemory` | the same |

Abstractions. Limits map a resource to an amount. A CEL selector is the driver and device type it names
and, in a subrequest, the memory size. The selectors made from the Pod's annotations matter only where
they fail (`MemoryDenied`). There is one container: containers share nothing but the order of their
claims. `claims` and `draft` also remember which compute units and sizes were read.

### FakeConfig, FakeDriver: `cmd/fake-driver`

`FakeConfig` is `DevicesForNode`: which devices a node gets from its groups and its own entry, how a later
entry overrides an earlier one field by field, what is refused. It also states what
`docs/fake-dra-driver.md` promises, `AsWritten`, without any merging: each field has the value of the last
line that gives it. The loops over groups and entries are recursive functions here (`MergedDevices`,
`MergeInto`), and so is the concatenation of what is written (`Lines`). `FakeDriver` is the process around it.

| Code | Model |
|---|---|
| the ConfigMap; the devices of the run; the ResourceSlices | `configMap`; `devices`; `slices` |
| `runPlugin`: load, start, wait, exit | `Load`, `FailToLoad`, `StartHelper` and `NewDriver` (inside and at the end of `NewDriver`), `FailToStart`, `Shutdown`; `process`, `exit` |
| the main context, its cause, `ExitError` of it | `cause`; `Cancel`, `ExitError` |
| the callback `HandleError`; a signal | `HandleError`; `Signal` |
| the helper's goroutines and server (external) | `BackgroundError`, `HelperStops`; `failing`, `answers` |
| the process is killed | `Crash` |
| `PrepareResourceClaims`, `UnprepareResourceClaims` | `Prepare`, `Release`; `prepared`, `refused` |
| the helper's publication; the scheduler (external) | `PublishResources`; `Allocate` |

The helper fails in one step, its callback cancels the context in a later one, and `runPlugin` ends in a third;
signals and further errors come in between, and from the moment the process is up, also before `NewDriver` has
returned. `fresh` and `first` are history variables: the claims allocated while the slices were those of the
present run, and what the run was told first, a signal or a fatal error.

## 3. Runs

| Run | Instance | Shows |
|---|---|---|
| `monitor_slices` | 2 claims, 1 node, 2 slices with device lists {d1}, {d1,d2}; `MaxUsage` 1 | `TypeOK`, `UsageExact`, `ReleaseWithinUsage`, `SlicesListed` with a device name repeated across slices |
| `monitor_nodes` | 2 claims sharing a device, one with two results of different amounts, 2 nodes, 1 slice; `MaxUsage` 2 | `ClaimsMirrorDelivered`, `UsageExact`, `SlicesListed` when claims and slices move |
| `scrape` | 2 nodes, 2 devices, 1 UUID or none, 2 Pods, 3 claims: two of one Pod on one device, one of them shared by both Pods and on two devices, one on the other node | `SeriesOnce`, `PodSharesComplete`, `PodSeriesHasDevice` |
| `startup` | 1 slice, 2 claims, present or not at the start; `MaxChanges` 3 | `BecomesReady`, `CacheFollows`, `StopsOnSignal`, `ReadyWhileServed`, `NothingMissed` |
| `pods` | both modes; 2 creations of one Pod (claims in two containers; two in one), one of a Pod with a generated name, a deletion; all dry runs or none; a user's claim in a Pod, one in another Pod that is called like its own, and one under a wanted name | `TypeOK`, `RollbackComplete`, `PodKeepsClaims`, `UserClaimsKept`, `NamedPodReclaimed`, `Reserves` |
| `jobs` | 2 creations of one Job over one or two tasks, 2 deletions, the second of each a dry run or not; a shared template, one in conflict | `RollbackComplete`, `JobKeepsTemplates`, `RollbackSparesOthers`, `NamedJobReclaimed`, `Reserves` |
| `conversion_create` | 7 configuration files, 7 vendor flags, 8 manifests, as a Pod or a Volcano task; AMD devices of 3 memory sizes and 2 numbers of units, a partition of another type; `MaxInt` 2047, `Mib` 4, `MaxSizes` 2 | `TypeOK`, `ShareOfOwnMemory`, `CoresCoverShare`, `ManifestConverted`, `UpdateKeepsPod` |
| `fake_driver` | several hundred configurations of two groups and a node entry over 2 devices, 3 edits, 1 claim; `MaxTrouble` 2 | `FreshClaimPrepared`, `ServedAsWritten`, `FatalReported`, `ClaimServed` |
| `monitor_rebuild`, `monitor_counted`, `pod_rollback`, `pod_generated` | parts of the instances above | a counterexample each, see 4 |

Names in `pods` and `jobs` have up to 7 characters, of which 4 stay beside a hash of 2. Short and cut names
both occur, a cut falls on a dash, and a prefix is cut inside its owner.

Bounds in guards. `MaxUsage`: no slice event starts once a counter exceeds it; counters only grow without
limit through repeated disturbed rebuilds, which it stops after the first wrong value. `MaxChanges`: how
often objects come and go at the API server. `MaxTrouble`: signals, fatal errors and crashes of the fake driver. The
other models are finite without one: a request is sent once, a scrape ends before the next begins.

Why they are enough. The monitor's two goroutines handle one event each, so two claims (one in the
handler, one at rest) and two slices or two nodes (one rebuilt, one kept) give every pair of an event
with the state it can meet. In a scrape two nodes are one that changes and one that keeps its list, and
three claims meet in one sum by Pod, by device and not at all. Three changes of the API server are one in
each of the windows of `Start`: before the first list, between list and registration, and after. In the
webhooks a handler meets the others only through objects of equal name, so two creations and one or two
deletions of one name, with another name beside, show each step of one between each two steps of the
other; two claims per request, in one container and in two, separate the two rollback passes. In the
conversion three configs show what one takes from another; a third memory size exceeds `MaxSizes`, one
size is below a MiB and one between two; the percentage 300 times 8 or 12 units overflows 12-bit
integers, and 600 MiB exceed them. In the fake driver three lines for a device (two groups and the node)
are one that is overridden, one between and one that is last, of which the node's has no attributes: attributes
are merged by the same rule as capacities; two troubles are a fatal error and a signal, in either order and
before or after the callback.

Deadlock. `scrape`, `conversion_create` and `fake_driver` check it; in the first two the drivers change the
devices forever, so it tells little. It is off in the monitor's cache, where handlers rest when no event comes,
in `pods` and `jobs`, where a bounded set of requests is used up, and in `startup`, where the monitor exits.

### Fairness

`MonitorProcess` assumes weak fairness of `Run`, of each informer and handler and of each server's
`ListenAndServe`: these are goroutines, which are scheduled, and the API server answers in the end. Nothing
is assumed of objects and signals, which need not come. `ListenAndServe` may fail instead of listening.

`FakeDriver` assumes weak fairness of `Load`, `HandleError`, `Shutdown`, `PublishResources` and `Prepare`: the
kubelet restarts a process that ended and asks again for a claim that was not prepared, the process and the
helper's callbacks run, the API server answers. `StartHelper` and `NewDriver` have strong fairness: a start may
fail any number of times but not always. Edits, errors, signals and crashes are not fair, and `ClaimServed` speaks only of claims whose devices stay configured.

The other specifications state safety only. A scrape and a webhook call end because their loops are finite;
a claim handler has nothing to wait for but locks it takes one at a time.

## 4. Findings

Four runs end in a counterexample to what a comment or test says.

* `monitor_rebuild`: `RebuildRecomputesUsage`. `setSliceDevices` says it recomputes usage from the
  cached claims (`nodedevices.go:166`), but adds to devices of other slices that kept their counters.
  On a node with two slices, each event for one of them (an hourly resync is enough) counts the claims
  of the other again.
* `monitor_counted`: `CachedClaimsCounted`. The comment at `nodedevices.go:209` says that claims seen
  before their slice are counted as soon as the devices exist. The copy of the claims is taken before
  the lock (`:170`); a claim handled in between finds no node, is cached, and is never counted.
* `pod_rollback`: `RollbackSparesOthers`. The second rollback pass (`dra/mutating.go:89`) deletes by name
  what the first one already deleted; when another creation of the Pod made those claims again in
  between, it loses them (`mutating_test.go:631` says what the rollback must not delete).
* `pod_generated`: `DeletedPodReclaimed`. Claims of a Pod with `generateName` carry a random owner part,
  which the deletion takes for a user's (`dra/validating.go:66`), although the comment says that the
  claims of a DRA-managed Pod are deleted with it. In template mode Pods are not affected: there the
  label decides. The tasks of a Job with `generateName` are a second case of the same cause
  (`volcano/mutating.go:144`).

Two more divergences are exceptions in properties and notes in `hazards`. An update strips cores,
memory and percentages that the creation did not convert because the vendor's count was missing
(`Complete` in `UpdateKeepsPod`; `dra/mutating.go:149`). The product of a core percentage and the
reference units is not guarded against overflow (`dra_device.go:154`): `CoresCoverShare` then only says that
a unit is asked for.

## 5. Proofs

The theorems below hold for every value of the constants under the named assumptions, which TLC evaluates
on each instance: `NamesAssumption` (sets of names are disjoint where they must be, slices are numbered),
`TotalAssumption` (`Total` adds up amounts), `CollectorAssumption` (claims name known nodes, Pods and
devices; `DistinctUuids`: the drivers give the devices of a node different UUIDs, which the collector does not
check), `LengthAssumption` (a hash fits into a name), `ServerAssumption` and `RequestsAssumption`
(requests, deletions and users differ; users list claims of their own), `SpellingAssumption` (names are
texts, spelled apart, owners not empty and not ending in a dash, and a name the webhook wants is not that of a
listed claim of a user), `OwnerAssumption` (a random owner part is no Job's name), `ModeAssumption`, `WidthAssumption` and
`ConversionAssumption` (machine integers are wide enough, capacities and limits are numbers),
`VendorAssumption` (names in a configuration are texts, vendors are a list), `ProcessAssumption` (the informers
are those of slices and claims; each has finitely many objects), `DriverAssumption` (two drivers have two
names) and `ConfigAssumption` (groups and the devices in them are lists).

### The monitor: `MonitorCacheProofs`

`SpecMirror`, `SpecTypeOK`, `SpecUsageExact`, `SpecReleaseWithinUsage`, `SpecSlicesListed`.

`ClaimsMirrorDelivered` is inductive only with `HandlerInv`, which ties the claim handler's phase to its
claim: what it releases is a part of the cached allocation, what it charges a part of the delivered one,
and the node it looked up is that of a result still to do. Together with `TypeOK` they form `MirrorInv`.
The counters need two more facts: a device exists only on a node that is listed (`ObjectsListed`), and
when the `NodeDeviceInfo` the handler holds has left `Nodes`, its node is either still unknown or came
back drifted (`GoneInv`). `UsageInv` adds these and `UsageExact`, stated between any two critical sections
with the results already charged, `Charged`. Its steps are: booking one result moves it in or out of
`Charged` and moves the counter by its amount; an undisturbed rebuild books `Due(claims)`, which is what
is charged, on counters at zero; every other step leaves counters and charges alone or marks the node
drifted. `ReleaseWithinUsage` follows since the result to be released is still among the charged ones.
`SlicesListed` speaks of moments without pending calls; `SliceInv` says what holds between: the calls are
all for one slice, the last brings its object, and every other slice is listed.

### The scrape: `CollectorProofs`

`SeriesReportedOnce`, `PodSharesAddUp`, `PodSeriesJoins`, from `ScrapeInv`: the variables are typed, a series
on a node that kept its list has the UUID its device has now (`Labelled`), and the nodes gone through are
reported (`Reported`). Two sums with equal labels are then of one device, since the drivers give the devices of
a node different UUIDs (`DistinctUuids`, which is assumed).

### The monitor process: `MonitorProcessProofs`

`ServedReady`, `CacheMissesNothing` and, as its consequence, `QuietCacheInLine`: a handler
that is registered and has nothing queued has cached exactly its informer's store. All of them follow from
`ProcessInv`. Its part `Phases` ties the position of `Run` to what is started, registered, ready and served.
Its part `Kept` says, per informer, that nothing comes before its start and its registration, and that every
object satisfies `Follows`: if no notification about it is queued, cache and store agree on it, and if some are,
the last one says what the store holds. This is inductive because a step of the informer only appends
notifications for exactly the objects in which the old and the new store differ (`NotifyTells`, from
`AnnounceEach`: the notifications of one type are a sequence without repetition over a finite set), a
registration is told of all that is in the store, and a handler takes the first notification, which is the
last word on its object only if no other is queued.

### Claim names and webhooks: `AdmissionProofs`, `PodAdmissionProofs`, `JobAdmissionProofs`

`GeneratedNameOwned`: a name generated for an owner is recognised as its own, cut or not, for every alphabet,
length and hash. Cutting and trimming the prefix keeps less of it than cutting and trimming the name,
because both are cut at the same place.

`AdmissionProofs` has the invariant that both webhooks share. It takes the table of claim names as a
parameter `N`, of which it needs that only requests for the same workload share a name and that none is a
listed claim of a user that looks generated (`NamesFit`), and sorts the handlers' actions into kinds of steps (`Steps(N)`). `Control` is about positions: where a request is and
what it may still delete. `Claims` is about objects: a request creates only what it asks for, and nothing
in a dry run; without a fault it holds nothing but what it has been through (`Undone`), and while nobody
disturbs it, all of that (`Whole`); what it has been through belongs to nobody else (`Fresh`); an earlier
object of the same workload has left nothing among the claims of a later one (`Apart`). The last is what
makes a stored Pod's claims its own. The `contended` workloads are excepted in `Whole`, `Fresh` and `Apart`,
and `Contended` shows that every pair of handlers on one workload is recorded there.

From it follow, for Pods, `Types`, `DeniedLeavesNothing`, `StoredPodKeepsClaims` and `UserClaimsStay`, and for
Jobs `DeniedLeavesNothing`, `StoredJobKeepsTemplates` and `RollbackTakesItsOwn`. Deletions need `ReclaimInv` in
addition, that what is left of the target's claims is still on the deletion's list; that no name is skipped
rests on `GeneratedNameOwned`: `NamedPodLeavesNothing`, `NamedJobLeavesNothing`.

`UserClaimsStay` has one exception, which is what the code does: in ResourceClaim mode a user's claim goes when a
Pod that lists it is deleted and its name begins like those generated for that Pod. `Claims` keeps every other one
(`UsersKept`); in template mode, where the label decides, an invariant of its own keeps all (`TemplatesKept`).

`PodsReserve` and `JobsReserve` are the refinement of `Reservation`: `StepsReserve` shows for each kind of
handler step, and for the steps around the handlers, that every request makes a step of `Reservation` or
none; `Undone` and `Whole` are what `Deny` and `Grant` need there.

### The conversion: `ConversionProofs`

* `ConvertCoresCovers`: as long as the product fits the machine integer, a core percentage becomes the
  fewest compute units that cover it, at least one.
* `SpecTypeOK`, and `SpecCoresCoverShare` from `CoresInv`: a claim made for units read from the devices was
  made for one value of them, and asks for `ConvertCores` of it, which is positive whatever overflows and the
  fewest units that cover the percentage if nothing does. A count of cores that is no percentage may be zero.
* `SpecShareOfOwnMemory`: at least a MiB, and never more than the device has unless it has less than a MiB,
  for which the code asks a whole one (`dra/mutating.go:442`). The bounds are those of the whole MiBs of a
  share (`ShareBounds`). `ShareInv` says that a claim that is or will be created has one subrequest for
  every size read and was asked for a percentage between 1 and 100. A published device then fits a
  subrequest if and only if its size was read, and exactly one, since each subrequest is of one size.
* `SpecUpdateKeepsPod` needs to know what is left in the container at each position of the handler,
  `LimitsInv`: `Kept` (the container keeps a part of its manifest, and all that no config names; no two
  configs share a name, from `Accepted`), `Progress` (of a config left behind whose count was asked for
  nothing is left, of one ahead everything) and `Current` (of the config at hand, what the steps so far
  have taken). At the end each name of a config is gone or was not in the manifest, so removing all
  configured names removes nothing (`StripGivesLimits`).
* `SpecManifestConverted` adds `FillInv`: what the draft holds of the config at hand (`Filling`), and that a
  config left behind has a complete claim or had nothing taken (`Left`).

The configs that `Init` starts with are lists of well-formed configs (`InitConfigs`) by induction over the
vendors that are selected (`SelectedTyped`). The reference compute units of a config are any integer, as in
the code: without a positive one a percentage is refused or the devices are asked.

### The fake driver: `FakeDriverProofs`

`FreshIsPrepared` from `ServeInv` (only a process that is up answers, and while it is, the devices of fresh claims
are among its own). `FatalIsReported` from `CauseInv`, which ties the cause of the context to the history `first`:
there is none until the run was told something, and a cause that reads as clean or names a signal means that a
signal came first, since the first cancellation gives the cause and no later one changes it.

`ServedIsWritten` is about data of any size: any number of groups, of entries in a group and of lines about a
device. `AllMerged` says of a list of lines and a map of devices that the map has a device for every name in the
list and each field is the last word of the lines. One more line and one more merged entry keep that
(`EntryMerged`, from `NewWord` and `NoWord` on what a line adds to the last word of each field); a list of entries
keeps it by induction over its length (`ListMerged`), and the groups by another (`MergedAsLines`). The request
policy that makes a device shared comes after the merge (`ServedDevice`), so a policy that any line gives
counts, wherever the line stands. The induction is over a set of numbers (`Induction`), from the minimum of a
well-founded relation; the recursive functions are unfolded with lemmas of their own (`MergeIntoSteps`,
`GroupSteps`, `LineSteps`).

### What is not proved

Liveness is out of the prover's reach and stays with TLC: `BecomesReady`, `CacheFollows`, `StopsOnSignal` and
`ClaimServed`. What a proof can say about them are their safety parts: a cache with nothing queued is in line with
its informer (`QuietCacheInLine`), and what a driver has published it prepares (`FreshIsPrepared`). Every other property that a passing run checks is a theorem. The findings are counterexamples
and cannot be.

## 6. Order of work

The modules were written in this order: the monitor cache and its proofs, the webhooks, the conversion and
its proofs, the claim names, the scrape, the start of the monitor, the fake driver, the refinement, the
proofs of the webhooks, the scrape, the monitor process and the fake driver. What could follow:

1. The selectors made from a Pod's annotations, in `Conversion`.
2. `MonitorProcess` on top of `MonitorCache`, so that readiness speaks of counters and not of objects.

## 7. Not modelled

* Extended resource warnings: they read DeviceClasses and change nothing.
* Of the device configuration: request names, device classes, annotations, and the device types that only
  label metrics (`device_type.go`). They are strings that no other part compares.
* Of the collector: the legacy series and the values of the node series.
* The webhook process registers the handlers and serves; the configuration web UI renders a form; options,
  clients, feature gates and versions keep no state that another part depends on.
* client-go's informers, the kubelet's plugin helper, the scheduler and the API server are modelled as far as
  this code relies on them.
