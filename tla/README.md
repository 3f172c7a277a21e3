# Formal models of the ACI virtual-kubelet provider

TLA+ models of `src/pkg/provider/aci.go`, the Azure Container Instances
provider for virtual-kubelet, with TLC runs on small instances and TLAPS
proofs of the main safety facts for every instance.

## 1. The system and its parts

The provider sits between two systems. The **orchestrator** is
virtual-kubelet's pod controller. It binds pods to the node and calls the
provider's handlers from several worker goroutines at once. The **ACI
backend** holds *container groups*. Its reads are eventually consistent:
a created group becomes readable some time after the PUT, and a deleted
one stays readable for a while.

| Part | Source | State | Operations |
|---|---|---|---|
| Pod lifecycle handlers | `aci.go` `CreatePod` 274-364, `DeletePod`/`deleteContainerGroup` 386-441, `CleanupPod` 705-710, `NotifyPods` 659-671 | the backend's groups; `p.tracker` | create (PUT) a group; delete it, then report its running containers terminated through the tracker; install the tracker |
| Reconciliation tracker | not in this repository; spec section 4.2. Its fetch is `GetPodStatus`/`FetchPodStatus` 596-611, 697-702 | tracked identifiers, one status fingerprint each | a poll cycle: fetch each identifier, report changed statuses, report a vanished group as terminated, then drop it |
| Translation engine | `getContainers` 936-1070, `getInitContainers` 891-934, `getImagePullSecrets` and the credential readers 719-849, `getProbe` 1090-1146, `getGPUSKU` 1072-1088, `getACIEnvVar` 1185-1200, `filterWindowsServiceAccountSecretVolume` 1151-1183, ports in `CreatePod` 322-346 | none (a pure function) | pod spec -> container group request, or a validation error |
| Diagnostics metadata | `getDiagnostics` 366-374 | the provider's `diagnostics`, whose `Metadata` map is shared | write the pod UID into the map; the request is serialized at `CreateContainerGroup` (363) |
| Exec stream | `RunInContainer` 492-592 | websocket, stdin goroutine, output loop | dial; send the password; copy stdin to the socket and socket frames to stdout |
| Pod listing | `GetPods` 614-653, `ListActivePods` 674-694 | none | list the groups, keep those of this node |
| Metrics cache | `src/provider/metrics/cache.go` | TTL cache keyed by pod UID | `getPodStats`: Get, else fetch and Set |

How they interact. `CreatePod` runs the translation and then the backend
PUT. `DeletePod` deletes the group, then, if the tracker exists, calls
`tracker.UpdatePodStatus` with a closure that marks running containers
terminated. That closure reaches the orchestrator through the same callback
the tracker uses. The tracker polls `FetchPodStatus` for every pod the
orchestrator has. A NotFound answer is a group deleted out of band, and is
reported as terminated.

The behaviours that make the code hard to test:

- concurrent handler calls sharing provider state (the diagnostics map);
- a delete and its status report racing the tracker's poll, which is served
  by a lagging read;
- a create that errors after the backend accepted it, then is retried or
  overtaken by a delete;
- a failed backend call in the middle of a handler;
- the exec stream's three actors (the handler, the stdin goroutine and the
  remote) against the caller's context cancellation;
- integer quantization at its boundaries;
- concurrent `getPodStats` misses for one pod whose Sets land out of order,
  and a pod re-created under its old name while the old one's stats are
  cached.

## 2. Modules

| Module | Models | Kind |
|---|---|---|
| `PodsTracker` | lifecycle handlers + tracker + backend + orchestrator | state machine, with fairness |
| `MCPodsTracker` | model values for pods and containers, symmetry set | TLC instance |
| `PodsTrackerProofs` | `TypeCorrect`, `NoOrphan` | TLAPS |
| `TrackerAbstract` | what the tracker promises about its entries, each poll atomic | abstract specification |
| `TrackerRefinementProofs` | `Refinement`: `PodsTracker` implements `TrackerAbstract` | TLAPS |
| `Translate` | translation engine as operators; `CreatePod` as one step | pure algorithm + one action |
| `MCTranslate` | input pod specs and secret stores | TLC instance |
| `TranslateProofs` | quantization theorems, `WellFormedRequests`, `RejectsExactly`, `RejectsInvalidHolds` | TLAPS |
| `Diagnostics` / `MCDiagnostics` | concurrent `getDiagnostics` writes and sends | state machine |
| `Exec` / `MCExec` | `RunInContainer` | state machine, with fairness |
| `ExecProofs` | `GoroutineSeesClose`, `NoLateWrite` | TLAPS |
| `ListPods` / `MCListPods` | `GetPods`/`ListActivePods` against a changing backend | state machine |
| `MetricsCache` / `MCMetricsCache` | `getPodStats` and its go-cache, concurrent callers | state machine, with fairness |
| `MetricsCacheProofs` | `OwnPodServed`, `MetricsTypeCorrect` | TLAPS |

### PodsTracker

**Variables.**

- Backend: `groups` are the groups that exist. `readable` are the groups a
  read finds; it lags both creates and deletes. `cstate` holds each group's
  container states.
- Orchestrator: `pods` are the pods bound to the node, and `view` is the
  status the orchestrator holds for each. `creq` holds the creates still to
  be retried. `del` is each pod's `DeletePod` progress.
- Provider: `started` (`p.tracker != nil`) and `cancelled` (the tracking
  context).
- Tracker: `loop`, `tracked`, the fingerprints `fp`, `todo`, and the fetch
  registers `cur`, `res` and `snap`.
- `ncb` counts callbacks per pod in the current cycle. It is auxiliary,
  kept only for `OneCallbackPerCycle`.

**Actions.**

- `CreatePod(p)` is `CreatePod` (274-364). The PUT succeeds, or errors.
  An error may come after the backend accepted the group, and the
  orchestrator retries it.
- `DeleteCall(p)` is the `DeleteContainerGroup` call (403-407). An error
  returns to the orchestrator, which retries; that is a stutter.
- `DeleteUpdateStatus(p)` is the `UpdatePodStatus` half (409-441).
  `MarkDeleted` is the closure (414-431).
- `NotifyPods` is lines 659-671.
- The tracker's fetch, `TrackerFetchAnswer` and `TrackerFetchFail`, is
  `GetPodStatus` (596-611).
- The other tracker steps are written from spec 4.2. These are
  `TrackerCycle`, `TrackerNotifyChange`, `TrackerNoChange`, `TrackerGone`,
  `TrackerCycleEnd` and `TrackerStop`. They are marked `spec_modelled` in
  `PROJECT.json`.
- The orchestrator (`Orch*`) and the backend (`Backend*`) are environment
  actions.

### TrackerAbstract, and the refinement

`TrackerAbstract` says what the tracker does to its own entries, with
every poll a single atomic step: `Track` creates entries with no status
for the orchestrator's pods; `Poll(p)` sets an entry's fingerprint to the
container states a read returns; `Drop(p)` removes an entry whose group a
read does not find. The pods, the readable groups and their container
states are the environment, free to change in any step that leaves the
entries alone.

`PodsTracker` splits a poll into the fetch (`TrackerFetchAnswer`) and the
step that applies its answer (`TrackerNotifyChange`, `TrackerNoChange`,
`TrackerGone`), with handlers, the orchestrator and the backend running
in between. The refinement mapping (`TrackedBar`, `FpBar` in
`PodsTracker`) applies a returned answer at the moment it returns: while
`loop = "Fetched"`, a NotFound answer is already dropped and an Ok answer's
snapshot is already the fingerprint. So the fetch is the abstract `Poll`
or `Drop`, and the apply step is a stutter. A failed fetch, and every
other step, leaves the mapped entries unchanged. `ImplementsTrackerAbstract`
is the abstract `Spec` under that mapping.

### Translate

The translation is a pure function, so the module has one action,
`CreatePod`, which applies `CreatePodResult` to a pod drawn from `PodSpecs`.

Data is abstracted as follows:

- a command is whether it is non-empty;
- a string compared with `strings.EqualFold` is a pair `<<word, variant>>`;
- an error is one value;
- a decoded registry auth is a sequence over `u`, `p` and `:`, which is
  what `strings.Split` looks at;
- quantities are integers, in millicores and bytes.

Each Go helper has an operator of the same name or role, and `PROJECT.json`
"map" names the lines of each.

The properties compare the code's result with a reference written from the
spec. `SpecInvalid` is what spec 4.1 and section 7 reject. `SpecCpuRequest`
and `SpecMemRequest` are spec 8's `max(0.01, round(m/10)/100)`.

### Diagnostics

Each `CreatePod` call goes `start -> writing -> built -> sent`. The map
write is split into two steps, so that two writes can overlap. Go's map is
unsafe for concurrent writes, and the runtime may or may not detect an
overlap. So each overlap chooses nondeterministically whether the process
aborts (`crashed`). This is the undefined-behaviour rule: every outcome the
build can produce is allowed.

### Exec

- `mainPc` follows the handler: `Setup` (lines 498-523), `Dial`,
  `AuthFail`/`AuthOk` (532-537), then the output loop of `MainTop`
  (the select), `MainFrame`/`MainReadErr` (`NextReader`) and `MainCopy`.
- `inPc` follows the stdin goroutine: `InTop`, `InRead` and `InWrite`.
- The remote terminal sends frames (at most `MaxFrames` queued) and may
  close the stream. The caller types input, ends it, or cancels the
  context.
- `OrphanGoroutineSeesClose`: once the handler has returned, a stdin
  goroutine still in its loop finds the websocket closed (the deferred
  `Close`, 537). `NoWriteAfterReturn`: the goroutine never completes a
  write (556) after the handler has returned; its write fails instead.

### MetricsCache

`src/provider/metrics/cache.go` wraps the stats getter in a go-cache keyed
by the pod's UID. Each caller (`pc`, `pod`, `got`, `out`) goes through
`getPodStats`:

- `GetHit(c, u)` is a Get that finds an item (lines 27-30);
- `GetMiss(c, u)` is a Get that misses (27-28), so the wrapped getter is
  called (31);
- `FetchOk(c)` is the getter reading the backend's current stats;
  `FetchErr(c)` is it failing, which returns the error and caches nothing
  (31-34);
- `SetAndReturn(c)` is `Set(key, stats, DefaultExpiration)` and the return
  (35-36). Set overwrites whatever the key holds.

`CacheKey(u)` is `string(pod.UID)` (26). `EntryExpires` is go-cache's rule
for the TTL given at line 15: an item gets an expiry only when the default
is positive; a TTL of zero or less means `NoExpiration`.

Time is abstracted. `Expire(k)` removes an item that has an expiry at any
step, which covers every TTL and every timing of the clock against the
callers. The backend's stats for a pod are a version number `ver[u]` that
`Advance(u)` increments (cumulative counters), up to `MaxVer`. Pod names
are a constant operator `PodName`, so that two UIDs can share a name.

### ListPods

The backend's groups, each with a name, a `NodeName` tag and whether it
validates, change freely. One `GetPods` call reads one listing.
`NodeTagIsSelf` is the pointer comparison at line 636, and it is always
false.

### Exec: the stdin goroutine

The goroutine checks the context only at the top of its loop and then
blocks in `in.Read` (550). After the handler returns (and closes the
websocket through its defer) the goroutine stays blocked until stdin
yields; it then exits through the read error or the failing write.

## 3. Runs

Every cfg sets its constants to small sets of model values.
Pass/violation is the expected outcome; each violation is a finding
(section 5). Three more disagreements met while modelling have no run of
their own and are listed as hazards in `PROJECT.json`: limits sent below
their requests (proved by `LimitBelowRequestIff` instead), a registry
password containing `:` (characterised by `RejectsExactly` instead), and the websocket leaked when the password write
fails.

| Run | Property | Expect | What it shows |
|---|---|---|---|
| `tracker` | `TypeOK`, `NoOrphanGroup`, `GoneConverges`, `ImplementsTrackerAbstract` | pass | No group outlives its pod's deletion, across failed deletes, creates that error after being accepted, out-of-band deletes and lagging reads. A group gone for good is eventually reported as terminated. Every behaviour is one of `TrackerAbstract`. |
| `tracker_delete_revived` | `DeletedStaysTerminated` | violation | After `DeletePod` reports termination, a lagging read lets the tracker report the containers running again. |
| `tracker_callback_once` | `OneCallbackPerCycle` | violation | The callback is called twice for one pod in one cycle: once by `DeletePod`, once by the tracker. |
| `translate_validation` | `RejectsInvalid`, `RequestWellFormed` | pass | `CreatePod` errors exactly on the specs the spec calls invalid (on pods without a colon in a registry password; see `RejectsExactly`). Every request it does build is well formed. |
| `translate_quantize` | `RequestsMatchSpec` | violation | 150 MB becomes 0.1 GB, where the spec says 0.2. |
| `translate_windows` | `MountsReferToVolumes` | violation | An init container still mounts the token volume that was stripped. |
| `translate_ports` | `ExposedPortsMatch` | violation | A UDP port is exposed as TCP. |
| `list_pods` | `ListsNodeGroups` | violation | `GetPods` returns no pod of this node. |
| `diagnostics_uid` | `RequestCarriesOwnUID` | violation | Two concurrent creates race on the shared map: an abort, or a request carrying the other pod's UID. |
| `exec_remote_close` | `OrphanGoroutineSeesClose`, `ReturnsOnRemoteClose`, `StdinGoroutineEnds`, `NoWriteAfterReturn` | pass | The handler returns once the remote closes the stream; after it has returned, the stdin goroutine sees the websocket closed, never completes a write, and exits as soon as stdin yields data or its end. |
| `exec_cancel` | `ReturnsOnCancel` | violation | After cancellation the loop goes on while the remote keeps the stream open. |
| `metrics_cache` | `TypeOK`, `ServesOwnPod`, `EventuallyCurrent` | pass | A caller never gets stats of another pod, even one that had its name; once the backend's counters stop, the cache ends up holding the current stats or nothing, although an overlapping miss can Set an older snapshot over a newer one. |

Each property of a passing run has a mutant in `PROJECT.json`: a plausible
bug in a mapped definition, which TLC finds under that run's cfg. The
mutants are:

- `DeleteCallIgnoresError`: the delete error is dropped. This breaks
  `NoOrphanGroup`.
- `TrackerGoneKeepsFp`: the fingerprint is left behind after the entry is
  dropped. This breaks `TypeOK`.
- `TrackerFetchNotFoundAsError`: NotFound is treated as a transient error.
  This breaks `GoneConverges`.
- `InitErrorNoLimits`: the init-container limits check is missing. This
  breaks `RejectsInvalid`.
- `CpuRequestNoFloor`: the 0.01 floor is missing. This breaks
  `RequestWellFormed`.
- `MainReadErrNoBreak`: the read error's break only leaves a select. This
  breaks `ReturnsOnRemoteClose`.
- `TrackerGoneOnError`: the entry is dropped on a transient fetch error as
  well as on NotFound. This breaks `ImplementsTrackerAbstract`.
- `InWriteIgnoresClose`: a write on the closed websocket is not reported.
  This breaks `StdinGoroutineEnds` and `NoWriteAfterReturn`.
- `MainReadErrNoClose`: the handler returns on a read error without the
  deferred close of the websocket. This breaks `OrphanGoroutineSeesClose`.
- `FetchErrCaches`: the failed result is cached. This breaks `TypeOK` of
  `MetricsCache`.
- `CacheKeyByName`: the cache is keyed by pod name. This breaks
  `ServesOwnPod`.
- `EntryExpiresNever`: items never expire (a TTL of zero). This breaks
  `EventuallyCurrent`.

### Bounds, and why they are enough

- **Tracker.** One pod with two containers. The tracker's hazards are all
  about one identifier: its create, its delete, its polls and its reads.
  Pods interact only through the serialized tracker loop, which processes
  them one at a time. Two containers let a status differ in one container
  but not another, which is what `MarkDeleted` distinguishes. The safety
  run reaches about 356,000 distinct states. `MCSymmetry` is available for
  two-pod instances.
- **Translate.** The input sets are built around the code's boundaries:
  - CPU of 5, 12, 15, 250 and 1000 m: below, at and across the 10 m step
    and the half step;
  - memory of 5e7, 1.5e8 and 1e9 bytes;
  - every validation branch of containers, init containers, probes and
    GPU;
  - every secret-store shape: missing, opaque, no key, bad base64, no
    colon, empty JSON, no user, and a password with a colon (the last is
    left out of `translate_validation`'s pods, because the code rejects
    it where the spec does not; `RejectsExactly` covers it);
  - EqualFold case variants (`windows`/`Windows`, `p100`/`P100`);
  - TCP and UDP ports.
- **Diagnostics.** Two pods: the race needs two calls.
- **Exec.** `MaxFrames = 2`, so a frame can be queued while another is
  copied.
- **Metrics cache.** Two callers, so two misses for one pod overlap and
  their Sets land in either order; two pods with one name, so a lookup of
  one can meet the other's item if the key confused them; `MaxVer = 2`, so
  an older snapshot can overwrite a newer one and the counters then stop.
  The run reaches 9,600 distinct states.

### Fairness

- **`PodsTracker`.** The tracker loop runs on a timer, so each of its steps
  is weakly fair. Its fetch of a polled group is strongly fair: a backend
  read does not fail forever. `NotifyPods` is called at start-up.
  `DeleteUpdateStatus` follows a successful delete in the same call. The
  backend's reads catch up (`BackendSettle`). The orchestrator and the
  backend's container transitions get no fairness.
- **`Exec`.** The handler and the goroutine are weakly fair: the Go
  scheduler runs unblocked goroutines. The remote and the caller get none.
- **`MetricsCache`.** A call in flight is weakly fair: the wrapped getter
  answers or fails, and Set is a local step. `Expire` is weakly fair: the
  clock runs, so an item with an expiry passes it. Callers and the
  backend's counters get none.
- `Translate`, `Diagnostics` and `ListPods` check only safety.
  `CHECK_DEADLOCK FALSE` is set where a behaviour really ends: a call has
  returned.

## 4. Proofs (TLAPS)

- **`PodsTrackerProofs`.**
  - `TypeCorrect` proves `Spec => []TypeOK` for all non-empty `Pods` and
    `Ctrs`, using `PodsAssumption`.
    - `TypeOK` alone is not inductive. The tracker reads `fp[cur]` after a
      fetch, which is defined only if `cur` is still to poll and hence
      tracked. So the invariant is `TInv == TypeOK /\ FetchedIsPending`.
    - The proof has one step per action. It rests on lemmas about
      `NoPod`, `MarkDeleted`, `Bump` and `Notify`.
  - `NoOrphan` proves `Spec => []NoOrphanGroup`.
    - The strengthening `CreateRequestsLive` says a pending create is for a
      bound pod that is not being deleted. Without it, a retried
      `CreatePod` could recreate the group of a pod whose delete has
      returned.
    - TLC checked the strengthened invariants before they were proved.
- **`TranslateProofs`.**
  - `CpuRequestVsSpec` and `MemRequestVsSpec` state, for every quantity,
    exactly how far the code's request is from the spec's rounding: one
    step below when the remainder is at least half a step, otherwise equal.
  - `LimitBelowRequestIff` states that a limit of at least its request is
    sent below the request exactly when it is under 10 m (CPU) or under
    1e8 bytes (memory).

  TLC exhibits one instance of each; these theorems cover every input.
  - `RejectsExactly` characterises the handler's errors for every pod
    of the admitted shape. `CreatePod` fails exactly when `SpecInvalid`
    holds or a dockercfg secret has a username-less auth with two or more
    colons (`ColonInPassword`). It splits into containers, init
    containers and secrets, and rests on lemmas:
    - `NamedPortMissing`: `getProbe`'s named-port lookup fails exactly
      when no port has that name;
    - `GpuSkuMissing`: `getGPUSKU` returns no SKU exactly when none
      matches;
    - `ColonCount`: the colon count is zero exactly when there is no
      colon.

    The first two use `MinOfNats`: a non-empty set of naturals has a
    least element, from `WFMin` and `NatLessThanWellFounded` (no
    induction).
  - `RejectsInvalidHolds` proves `Spec => []RejectsInvalid` for every
    configuration whose pods have no such password. It uses the
    invariant `ResultInv`: the result is not yet there, or it is
    `CreatePodResult` of the pod. The hypothesis is exactly the
    disagreement that `RejectsExactly` names, and it is no weaker.
  - `WellFormedRequests` proves `Spec => []RequestWellFormed`, also from
    `ResultInv`. `GroupWellFormed` shows each conjunct for the group the
    handler builds. `RequestFloor` gives the 0.01 floor, `FilterKeeps`
    shows that the Windows filter keeps resources and ports, and
    `GpuSkuChosen` shows the chosen SKU is the one matched.
  - Assumptions. `PodSpecsAssumption` says every pod has the admitted
    shape (`PodShape`). Quantities are naturals or absent. Ports are
    positive numbers (the API server validates 1..65535). Every
    referenced secret name is in the store's domain: the store answers
    "not found" through its `found` field. `SecretStoreAssumption` says
    auths are strings. TLC evaluates both on every Translate run.
- **`TrackerRefinementProofs`.** `Refinement` proves
  `Spec => ImplementsTrackerAbstract` for every `Pods` and `Ctrs`.
  - `InitRefines`: the initial state maps to the abstract one.
  - `NextRefines`: under `TInv`, every step maps to an abstract step or a
    stutter. It has one case per group of actions. The fetch is `Poll`
    or `Drop`; the apply steps are stutters because the mapping has
    already applied their answer.
  - `TInv` is needed twice: `fp`'s domain is exactly `tracked`, so
    restricting it to `tracked` gives it back (`RestrictWhole`), and the
    fetched identifier is tracked, so `[fp EXCEPT ![cur] = snap]` changes
    a real entry.
- **`MetricsCacheProofs`.** `OwnPodServed` proves `Spec => []ServesOwnPod`
  for every set of callers, pods and names. The inductive invariant adds
  that each cached item is stored under its own pod's UID
  (`CachedUnderOwnKey`) and that a fetched result is the asking pod's
  (`GotOwnPod`): a hit returns what the cache holds, and Set stores what
  the fetch returned.
  `MetricsTypeCorrect` proves `Spec => []TypeOK` from the same invariant.
- **`ExecProofs`.** `GoroutineSeesClose` proves
  `Spec => []OrphanGoroutineSeesClose`, and `NoLateWrite` proves the
  action property `Spec => NoWriteAfterReturn`.
  - The invariant `IInv` adds to the type invariant that no goroutine
    runs while the handler is still in setup, dialing or authenticating
    (`NotStartedBeforeAuth`). It is needed because `Setup`, `Dial` and
    `AuthFail` return without closing the websocket. That is safe only
    because the goroutine starts after authentication (line 541).
  - A completed write needs an open websocket. Under `IInv`, an open one
    after the handler has returned means no goroutine is in its loop.

**Only model-checked.** Liveness (`GoneConverges`,
`ReturnsOnRemoteClose`, `StdinGoroutineEnds`, `EventuallyCurrent`) needs
fairness and ENABLED, which TLAPS does not handle here. The
`Diagnostics` and `ListPods` runs are violation runs. They have no
invariant that holds and is worth proving. `RequestsMatchSpec`, `MountsReferToVolumes` and
`ExposedPortsMatch` are violated by the code; their quantitative content
is in `CpuRequestVsSpec`/`MemRequestVsSpec`.

## 5. Findings

The findings are listed in `PROJECT.json`. In short:

- **Tracker.** DeletePod's synthesized status can be undone by a lagging
  poll, and it doubles the callback in one cycle.
- **Quantization.** Requests are truncated, not rounded.
- **Windows filter.** Init containers are ignored.
- **Ports.** Every port is exposed as TCP.
- **`GetPods`.** It compares pointers, so it never returns a pod.
- **Diagnostics.** The metadata map is shared and races.
- **Exec.** Cancellation does not stop the output loop.

## 6. Not modelled

- `NewACIProvider`/`isValidACIRegion`: start-up configuration, run once
  and sequentially; its checks are string comparisons.
- `GetPod`, `GetContainerLogs`, `Ping`, `UpdatePod`: single pass-through
  calls with no state of their own. (`GetContainerLogs` returns
  `nil, nil` when the backend sends no log content, line 482; that is a
  contract with its caller, outside this repository.)
- The CI workflows and build files.
- **Group-name collision** (`containerGroupName`, line 377): pods `a/b-c`
  and `a-b/c` map to one group. The tracker model keys groups by pod; a
  model with a name map from pods to groups is left open (hazard in
  `PROJECT.json`).
- The `metrics_cache` run uses a TTL of 30 s. With a TTL of zero or less
  (`cache.go:15`) items never expire, and `EventuallyCurrent` fails, as the
  `EntryExpiresNever` mutant shows. No run fixes a non-positive TTL: it is
  a deployment setting, and nothing in the repository says which way it
  should go.
- What the tracker does with a changed status is modelled from spec 4.2
  (the tracker loop is not under `src/`). The callback and the fingerprint
  update are one step there by construction, so no property is stated
  about them.
