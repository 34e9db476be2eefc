# A specification of provider-osb

provider-osb is a Crossplane provider that manages, from Kubernetes, service
instances and service bindings of a broker that speaks the Open Service Broker
API.  This directory holds TLA+ models of its controllers, alone and together,
the TLC runs that check them, and TLAPS proofs about them.  Line numbers are those of the
repository's `src/`.

## The system

| part | state it keeps | operations | talks to |
|---|---|---|---|
| ServiceInstance controller (`internal/controller/serviceinstance`, `apis/instance/v1alpha1`) | nothing of its own between reconciles; the object's finalizer, annotations, `status.atProvider` (last operation state and key, context) and conditions | Connect, Observe, Create, Update, Delete | API server (status saves), broker |
| ServiceBinding controller (`internal/controller/servicebinding`, `apis/binding/v1alpha1`) | the same, plus the external-name annotation and the connection secret | Connect, Observe, Create, Update (rotation), Delete | API server, broker, secret |
| utilities (`internal/controller/util`) | none | gone test, re-read of an object, status from a last operation, finalizer helpers, client construction | both controllers |
| common types (`apis/common`) | none | JSON of parameters and context | both controllers |
| crossplane-runtime (library) | the reconcile in progress | reads the object from the informer cache, calls the five operations, writes finalizer, creation annotations, credentials and the last status | controllers, API server |
| ProviderConfig controller (`internal/controller/config`, `apis/v1alpha1`) | nothing of its own; the configurations' finalizer, and a usage for each object that connects | holds a configuration, which gives `Connect` address, credentials and timeout, while usages of it are left | API server, both controllers |
| OSB broker (external) | instances, bindings, operations | provision, update, deprovision, bind, unbind, rotate, get, poll | controllers |
| `cmd/provider`, features, store config, generated code | configuration | registration, flags | - |

One reconcile of an object runs at a time, but everything around it moves: the
user edits and deletes, the informer cache lags behind the API server, a write
from an old copy is refused, the broker answers now or later, twice or not at
all, and the process can die between any two requests.  What is hard to test in
the code is where these meet:

* an object read from the cache, or read again in the middle of `Observe`
  (`serviceinstance_methods.go:495`), used after it changed;
* what is known in memory only (an asynchronous answer, a new external name)
  when the process dies or the write is refused;
* a request repeated because its answer was lost;
* an operation whose outcome has to be learnt by polling, and a key that says
  which one;
* clocks: a renewal window that opens and closes while the controller looks at
  it only now and then (`servicebinding_methods.go:936`);
* several objects: a configuration deleted while others depend on it, an
  instance deleted while a binding of it exists, a worker held by a broker that
  does not answer;
* a write that the API server refuses for what is in it: a condition without
  `lastTransitionTime` (`servicebinding_methods.go:806`);
* deletions, which must end, and must not end too early.

For each component, what makes it correct: the external resource is asked for
only on behalf of a stored object that will remember it; it is given back only
for an object being deleted, and before the object goes; what the user asked
for reaches the broker or the failure is reported; the status tells what
happened; requests stop when nothing changes; credentials that stay published
are current or reported not to be; a configuration stays for those it serves
and no longer.  `PROJECT.json` lists the
hazards one by one, with the properties that watch them.

## The modules

| module | what it is |
|---|---|
| `ManagedObject` | one object's three copies (`obj` stored, `cache`, `mem`), and a write with its optimistic lock (`memFresh`, `cacheFresh`) |
| `ServiceInstance` | the instance controller, its broker and its user; properties; the inductive invariant |
| `ServiceBinding` | the binding controller likewise |
| `ManagedLifecycle` | the abstract specification both implement: create only while held, destroy only while leaving, at most once around |
| `BindingRenewal` | time: a binding's dates, the controller that compares them with its clock, and the credentials it publishes |
| `ProviderConfigs` | several objects, the configurations they connect with, the usages that keep those, and the workers they share |
| `InstanceWithBinding` | `ServiceBinding` composed with an instance of `ServiceInstance`, which share the broker |
| `ServiceInstanceProofs`, `ServiceBindingProofs`, `BindingRenewalProofs`, `ProviderConfigsProofs`, `InstanceWithBindingProofs` | the theorems about the five modules of these names, with the inductive invariants they need |
| `ServiceInstanceDeletionProofs` | on top of the first: how a deletion of an instance ends |
| `MCServiceInstance`, `MCServiceBinding` | the modules TLC runs, with the symmetry sets; the three modules before need none and are run themselves |

### State

`obj`, `cache` and `mem` are records of what the controllers read and write:
`deleted` (deletion timestamp), `finalizer` (the runtime's), `create` (the
newest `external-create-*` annotation), the spec, and the status.  For an
instance the status is `lastOp`, `key`, `ready` and `ctx`
(`LastOperationState`, `LastOperationKey`, the Ready condition, `Context`); for
a binding `lastOp`, the Ready and Synced conditions and `untimed`, and the
object has its external `name`.  `untimed` says that a copy has been given the
Healthy condition of `MarkBindingIfExpired` or `MarkBindingAsExpiringSoon`
(`MarkBinding`), which has no `lastTransitionTime`.  The CRD requires that field
of every condition, so the API server refuses the whole status of such a copy
(`Storable`); in `BindingRenewal` it is `healthy` that says so.  `memFresh` says that `mem` still has the stored
resourceVersion: a write from it is accepted; otherwise it is a conflict.
`sent` and `inStep` of `ServiceInstance` are history, for the properties alone:
the last request made for the stored object, and whether the running reconcile
began with all that was stored (`cacheFresh` at its start).

`pc` is the next request the running reconcile makes.  Each request to the API
server or to the broker is one action, named after the function that makes it,
and includes everything the function does until the next one:

| source | actions of `ServiceInstance` |
|---|---|
| `ObserveState`, `HandleLastOperationInProgress` | `PollLastOperation`, `GetLatestKubeObject`, `SavePolledStatus` |
| `ObserveState`, deleted branch | `HandleDeletionWithActiveBindings` |
| `ObserveState`, `CompareSpecWithOSB` | `GetInstance` |
| `Provision`, `Update`, `Deprovision` | `Provision`/`SaveProvisioned`, `Update`/`SaveUpdated`, `Deprovision`/`SaveDeprovisioned` |
| runtime | `StartReconcile`, `AddFinalizer`, `RemoveFinalizer`, `MarkCreatePending`, `UpdateCriticalAnnotations`, `FinishReconcile` |

| source | actions of `ServiceBinding` |
|---|---|
| `handleLastOperationInProgress`, `handlePollError` | `PollBindingLastOperation`, `GetLatestKubeObject` |
| `ObserveState`, `HandleRenewalBindings`, the parameters' comparison | `GetBinding` |
| `Bind`, `TriggerRotation`, `UnBind` | `Bind`, `Rotate`, `Unbind` |
| runtime | as above; `secret` is the connection secret it publishes |
| the ServiceInstance it names | `InstanceComes`, `InstanceGoes`, `InstanceDeleted`: the broker refuses binds without it and drops bindings with it |

The controllers save status differently, and the models keep that: the instance
controller calls `Status().Update` itself; the binding controller leaves it to
the runtime's last one, and a metadata write in between has the API server's
answer decoded over the in-memory status (`Decoded`).

The broker is the environment.  It may answer at once or later, refuse, lose an
instance or a binding, and fail an operation; any request or reply may be lost.
Its answers are those of the Open Service Broker specification that the code
tells apart: `GetBinding` and `GetInstance` are 404 until the creation has
ended, `Poll` of a deprovision that ended is 410 or "succeeded".

`InstanceWithBinding` puts a `ServiceInstance` and a `ServiceBinding` side by
side.  The objects know nothing of each other; what they share is whether the
broker has the instance, `iBroker.present` on one side and `instance` on the
other, which change together: `InstanceStep` takes a step of the instance's
side and, when that makes or destroys the instance, the binding's share of it.

`BindingRenewal` has the dates `ServiceBinding` reduces to a flag.  `now` moves
between any two steps of a reconcile, so also between the two `time.Now()` of
`HandleRenewalBindings`; `site` is what the provider was started with and how
its broker behaves, and never changes.

| source | actions of `BindingRenewal` |
|---|---|
| `ObserveState` | `PollBindingLastOperation`, `GetBinding` |
| `HandleRenewalBindings`, `MarkBindingIfExpired`, `MarkBindingAsExpiringSoon` | `CheckRenewal`, `CheckExpiry` |
| `Bind`, `TriggerRotation` | `Bind`, `Rotate` |
| runtime | `StartReconcile`, `MarkCreatePending`, `Annotate`, `PublishObserved`, `PublishRotated`, `FinishReconcile` |

`ProviderConfigs` has what comes before: `object`, `usage` and `config` are
stored, `usageCache` is what the ProviderConfig controller sees of the usages.
`relied` is a history variable for the properties: which objects a
configuration was serving when the user deleted it, as far as its controller
knew.

| source | actions of `ProviderConfigs` |
|---|---|
| `Connect` of both controllers | `Track`, `ResolveProviderConfig` (with `NewOsbClient`) |
| the rest of a reconcile | `Call`, `TimeOut`, with the finalizer it writes |
| `config.Setup` | `Account`, `Settle`, for ProviderConfigs; it registers no controller for ClusterProviderConfigs (`config.go:48`) |
| `MaxConcurrentReconciles` in `main` | `StartReconcile` |

### Abstractions

* Plans, parameters and contexts are values that are compared; `NoParams` is
  the empty string and `BadParams` one that is not JSON.  The build functions'
  checks for empty fields cannot fail on objects the CRD schemas admit.
* In the modules of the controllers, `Connect` may fail before anything
  happened: that is a crash of the reconcile.  `ProviderConfigs` models it, and
  in turn reduces the rest of a reconcile to one call of the broker and the
  finalizer that is then written.  Its objects are created with the default
  reference and may be edited to name another.
* `BindingRenewal` leaves out edits and deletions, and with them the cache: the
  reconcile is then the only writer of the object.  `disableAsync` is set, so
  that a bind is answered at once; a rotation need not be, as the code asks for
  it with `AcceptsIncomplete` all the same (`servicebinding_methods.go:284`).
  A failed reconcile comes again within the poll interval: the delays of the
  rate limiter end at 60 s, the default poll interval is 1 m.
* `InstanceWithBinding` runs a broker that provisions asynchronously with
  operation keys, since an instance provisioned at once is never deprovisioned,
  and that binds at once.
* The cache jumps to the stored version in one step; a reader can still see any
  version that was once current, because it may be arbitrarily late.
* The default initializer writes the external name when the object is first
  seen; the model gives it at creation, so it is never empty.
* The runtime's creation grace period only delays a reconcile.
* The parameters in a binding's status are those of the `GetBinding` reply of
  the same `Observe`, so they are compared from the reply and not stored.
* The async deletion finalizer of bindings is never on an object: the API
  server forbids adding one to an object being deleted, which is the only time
  `handleUnBindRequest` tries.
* The secret is written in the step that obtained the credentials, except
  those of `Create`, which are published after the annotation is written.
* `disableAsync` is not applied to unbind and rotation
  (`servicebinding_methods.go:284`, `:758`), and neither is it in the model.
* The Synced condition is kept for bindings only.

## The runs

| run | checks | shows |
|---|---|---|
| `instance_safety` | `TypeOK`, `DeletionOpsOnlyOnDeleted`, `IInv`, `DeprovisionOnlyWhenDeleted`, `FinalizerUntilDeprovisioned`, `ProvisionLeavesEvidence`, `Lifecycle` | safety under every interleaving of faults, edits and stale copies, and the refinement |
| `instance_live_keyless` | `SpecReachesBroker`, `RequestsCease` | the parameters reach a broker that sends no operation key, and requests stop |
| `instance_live_keyed` | `DeletionCompletes`, `OutcomeReported` | deletions end, and outcomes are reported, with operation keys |
| `binding_safety` | `TypeOK`, `BindLeavesEvidence`, `RotateOnlyHeld` | bind and rotation only for a stored, held object; both kinds of broker |
| `binding_sync` | `NoOrphan`, `UnbindOnlyWhenDeleted`, `Lifecycle` | nothing left behind, and the refinement, for brokers that answer at once |
| `binding_live` | `CredentialsPublished`, `MismatchReported`, `RequestsCease`, `UneditedDeletionCompletes` | bindings converge, whatever becomes of their instance |
| `binding_renewal` | `TypeOK`, `NeverExpired`, `RenewalFailureReported`, `DatesShown` | published credentials are current when rotated in time; a renewal that cannot succeed is reported, and without rotation the dates are shown |
| `bound_instance` | `BoundOnceProvisioned`, `BothDeletionsComplete` | instance and binding created in any order end up bound; both deleted, in any order, both go |
| `provider_configs` | `TypeOK`, `KeptForUsers`, `BothDeletionsComplete`, `ConfigDeletionCompletes`, `EveryObjectServed` | configurations stay for their users and no longer, and a timeout frees the workers |

Three runs end in a violation, each of a statement of the repository's
documents or comments that the code does not keep:

| run | statement | what happens |
|---|---|---|
| `instance_orphan` | `NoOrphan` | an instance created synchronously has no key; its object is reported absent at deletion and `DeprovisionInstance` is never called (`serviceinstance_methods.go:651`).  With `BrokerModes` {"async"} and `DisableAsync` FALSE the same comes about by `:502`: `IsDeletable` (`:78`) does not ask which operation succeeded, so a deleted object with a key is reported absent because its provision did |
| `instance_edit_keyed` | `SpecReachesBroker` | the key is never cleared: after one asynchronous operation every `Observe` polls it and never compares the spec (`:641`) |
| `instance_active` | `ActiveBindingsKeepInstance` | an object deleted while its operation runs takes the branch of the poll (`:641-647`), which answers NothingToDo; the runtime goes on to `Delete` and the instance is destroyed under its bindings.  The check for active bindings is on another path (`:650-656`), and the flag that `Deprovision` looks at (`:449`) is never set |

The models contain more such deviations, which the properties above except or
accept, and which have no run of their own:

* the operation a reconcile polls is the one named by the copy it started from,
  and the answer is put on the copy it reads then
  (`serviceinstance_methods.go:495`).  If it starts before the cache has the key
  of a deprovision, it polls the provision, which succeeded, and `IsDeletable`
  takes that for the end of the deprovision, which still runs: the finalizer
  goes and the instance is there.  `FinalizerUntilDeprovisioned` therefore
  speaks of reconciles that began with all that was stored (`inStep`);
* `Observe` sets Available over the condition of a failed operation
  (`serviceinstance.go:179`);
* a different plan counts as up to date (`serviceinstance_methods.go:178`);
* the comparison of parameters fails for deleted bindings too, so that `Delete`
  of an edited one is never reached (`servicebinding_methods.go:473`);
* the rotated binding's name is set in memory and never stored (`:625`): every
  reconcile rotates the first binding again, and nothing unbinds the others.
  `NeverExpired` says what holds nevertheless;
* `DeletionCompletes` says that the object of a deleted instance goes, by
  whichever of the ways above;
* an asynchronous rotation is polled under the old name, and its credentials
  are never published (`servicebinding.go:287`); `RenewalFailureReported`
  bounds how long that stays unsaid;
* no binding ever warns of its expiry, as the comments of `MarkBindingIfExpired`
  and `MarkBindingAsExpiringSoon` promise (`servicebinding_methods.go:802`,
  `:817`): without `lastTransitionTime` the Healthy condition cannot be stored,
  and with it the whole last status of the reconcile is refused, of a due binding that is not rotated and of every expired one: the dates
  just read, a parameter mismatch and a `Synced=False` are lost with it.
  `DatesShown` and `RenewalFailureReported` say within which windows the status
  is still written, `MismatchReported` is checked for a broker without
  metadata;
* a binding that is due is rotated by every reconcile for ever, as its new name
  is lost; `RequestsCease` of the binding speaks of binds and unbinds and is
  checked without rotation;
* a bind that was running when its instance went is polled for ever
  (`servicebinding_methods.go:311`); `CredentialsPublished` says that this is
  reported.

### Bounds

`MaxEdits` counts creations and edits of the object by the user (deletions are
bounded by them), `MaxFaults` crashes, lost requests or replies, failed
operations and resources the broker lost, `Uuids` the identifiers rotations may
draw.  Two edits give a re-created object of the same name or an edited one;
two faults give a crash during the recovery from a lost reply.  Two parameter
values and two plans make every comparison come out both ways, and the
controllers do nothing with them but compare.  `binding_safety` replaces the
second parameter value by `NoParams`, since the outcome of the comparison
matters there only as one error among others.

`binding_renewal` counts time in units of which a poll interval and a reconcile
take one each.  `Slack` is the longest the controller can take to notice a
date: a wait and a reconcile for each that may fail, one more that succeeds,
and one that had read its clock just before.  With one fault that is 5, and
`Window` is 5 too: `NeverExpired` fails when it is 4, so the bound is exact.
So is `Life >= Slack + Wait`, with `Wait` an interval and a reconcile: with a
window of 5 it fails when `Life` is 6 and holds when it is 7.  `DatesShown`
needs `Life - Window >= Slack`, so `Life` is 10.  `MaxTime` is three lives:
a binding is made, renewed several times, expires, is dropped by the broker and
made again.

`provider_configs` has two objects, so that one can be edited away from a
configuration that the other keeps, and one worker, so that they compete for
it; one configuration of each kind.  `Timeouts` is {1}: with 0, which the code
takes when the configuration sets none, a call that hangs holds its worker for
ever and `EveryObjectServed` is violated (`util.go:126`).

`bound_instance` allows either user one edit, which is the creation of their
object, and no faults: each side meets them alone in the other runs, and the
new thing here is the order of the two.  In `ServiceBinding` alone, `MaxEdits`
also bounds how often the instance is deleted.

With the bounds used up and the object gone, nothing is left to do: the runs do
not check deadlock, and the liveness properties say instead what must come
about.  A rotation needs a fresh identifier; when `Uuids` is used up the
reconcile waits there, which only the safety runs can meet (`Metadata` is
"none" in the liveness run).

### Fairness

`FairSpec` assumes weak fairness of a reconcile's steps (the runtime requeues
after every reconcile, at the poll interval or with the rate limiter's delay,
`Setup` in both controllers), of the informer's events and of the broker ending
what it began.  Nothing is assumed of the user, of crashes or of lost
messages beyond their bound.  Each choice inside a reconcile is unfair: a
broker may always pick the same of several permitted answers.

`FairSpecBoth` has these for each side of its own, since each controller has
its own queue and workers.  In `ProviderConfigs` the objects of a controller
share its workers: `StartReconcile(x)` is strongly fair, because the queue is
first in, first out and an object is passed over only while others hold every
worker; that they let go of them is what has to be shown.  `binding_renewal`
checks invariants only, and its clock cannot pass the time by which a reconcile
has to begin or end.

What the liveness properties except is what the code excepts: an object
whose creation was interrupted between the two annotations
(`create = "pending"`) is left by the runtime to its user.  `binding_live`
assumes that the broker keeps bindings while it keeps the instance
(`Forgets = FALSE`), and that it sends no metadata.  The properties of
`binding_renewal` except brokers that tell no `renewBefore`, as
`HandleRenewalBindings` then never looks at `expiresAt`.  The hazards in
`PROJECT.json` say what happens otherwise.

## The proofs

`ServiceInstanceProofs` proves, for every value of the constants that meets
`ConstantsAssumption` (and so for any number of plans, parameters, edits and
faults):

| theorem | states |
|---|---|
| `Inductive` | `Spec => []IInv` |
| `TypeCorrect`, `DeletionOps` | `[]TypeOK`, `[]DeletionOpsOnlyOnDeleted` |
| `Deprovisions`, `Provisions` | the two action properties of `instance_safety` |
| `Refines` | `Spec => Lifecycle`: the controller implements `ManagedLifecycle` |

Type correctness is not inductive alone.  `IInv` adds four things: the broker
has one operation in progress and knows its target (`BrokerInv`), or a record
could leave its type; the stored object is deleted, or has requests made for
it, only with its finalizer (`StoredInv`); a copy at the stored version agrees
with it on what only the user and the API server write, and on the key until it
is acted on (`FreshInv`); and what a reconcile established by an accepted write
still holds when it uses it (`StepInv`): an object found deleted stays deleted,
an object marked "pending" keeps mark and finalizer until the annotation is
written.  The last is why requests made from stale copies are harmless: each
way into `provision` and into a deprovision passes through a write that only a
fresh copy gets accepted, and from there on nobody but this reconcile takes the
finalizer away.  The proof has a lemma for each part of the invariant and each
group of actions; `Inductive` combines them.  The refinement maps deletion
timestamp and finalizer to the phases of `ManagedLifecycle`; each action maps to
one abstract step or to none, and the lemmas per action say which.

`ServiceInstanceDeletionProofs` proves, for every value of the constants too,

| theorem | states |
|---|---|
| `Finalizers` | `Spec => FinalizerUntilDeprovisioned` |

The property compares the finalizer with the broker, and between them lie the
key, the poll, and the copy the answer is applied to.  `DepInv` follows them:
a key that names a deprovision, stored or in a copy that can still be stored,
names one the broker has taken on (`StoredKeyInv`, `FreshKeyInv`), which means
that until the instance is gone the broker tells of it "in progress" or "failed"
(`Deprovisioning`); the operation polled by a reconcile that began in step is
the one the stored object names, and the answer "succeeded" still holds when it
is applied (`PollInv`); and if such a reconcile can remove the finalizer, the
instance is gone (`AbsentInv`).  The keys are followed through all reconciles,
in step or not: what an earlier one did from a stale copy is what this one
finds.  That nothing creates the instance again meanwhile is `StepInv` of the
first module.

`ProviderConfigsProofs` proves, for any number of objects, configurations,
workers, edits and faults:

| theorem | states |
|---|---|
| `KeptInductive` | `Spec => []KInv` |
| `KeptForAllUsers` | `[]KeptForUsers` |
| `ConfigTypeCorrect` | `[]TypeOK` |

`KeptForUsers` relates a configuration to objects that its controller knows
only by their usages, through a cache.  `KInv` therefore says that nothing on
the way from a relied-on object to that cache names another configuration: not
its reference, not the copy a running reconcile is about to record, not the
usage nor the cached usage (`CountedFor`); that the controller is not about to
free the configuration (`ReliedInv`, with `AccountInv`: what it is about to
write fits what it read, for it is refused otherwise); and that a running
reconcile has a copy of an object (`CopyInv`), without which the type of the
usage it writes is not known.

`ServiceBindingProofs` proves, for any number of parameters, identifiers, edits
and faults, with metadata and without:

| theorem | states | for brokers |
|---|---|---|
| `BindingTypes` | `[]TypeOK` | all |
| `BindsLeaveEvidence`, `RotatesOnlyHeld` | `BindLeavesEvidence`, `RotateOnlyHeld` | all |
| `NothingOrphaned` | `[]NoOrphan` | that bind at once (or are never allowed otherwise: `spec.disableAsync`) |
| `UnbindsOnlyDeleted` | `UnbindOnlyWhenDeleted` | that answer everything at once |
| `BindingRefines` | `Spec => Lifecycle`: the controller implements `ManagedLifecycle` | that answer everything at once |

The hypotheses on the broker are needed, and TLC shows why: while an
asynchronous bind runs, `GetBinding` answers 404, the binding counts as absent,
and the finalizer of a deleted object is dropped before the bind ends
(`servicebinding_methods.go:758` leaves even a broker that must bind at once
free to unbind and rotate later, which `NothingOrphaned` admits).  The proof is in
four layers, and each theorem uses no more of them than it has to.

1. `Typed`: types, the identifiers in use (an object goes by its name or by a
   drawn identifier, which is what tells the binding under `Name` from rotated
   ones), and the versions (a fresh cache is the stored object, and a copy is at
   the stored version only of an object that is stored).
2. `CopiesInv`: a copy at the stored version agrees with it on deletion and
   finalizer (`FreshInv`), and `Trails(c)` says what an arbitrarily old copy `c`
   still guarantees: an object it shows as held and not deleted is held, and
   one that is held is being deleted if `c` shows a deletion.  With `StepInv` (marked "pending" means held until the annotation
   is written) this gives the two theorems for all brokers.
3. `KeptInv`: no binding under `Name` without the finalizer, and one found
   absent really is.
4. `SyncInv`: nothing is ever in progress, a deletion seen in a copy on which
   the reconcile acts is the stored object's, and what was given back is not
   asked for again.

The layers were invariants of TLC runs first, with `binding_safety`,
`binding_sync` and `binding_safety` with `DisableAsync`.  The theorems assume of
names that the external name and the drawn identifiers differ from each other
and from none (`ConstantsAssumption`): identifiers are random UUIDs.

`BindingRenewalProofs` proves, for every poll interval, latency, life, renewal
window, number of faults and end of time:

| theorem | states | if |
|---|---|---|
| `RenewalTypes` | `[]TypeOK` | |
| `ShowsDates` | `[]DatesShown` | `Life - Window >= Slack` |
| `NeverExpires` | `[]NeverExpired` | `Window >= Slack`, `Life >= Slack + Wait` |
| `ReportsRenewalFailure` | `[]RenewalFailureReported` | `Window >= Slack` |

The hypotheses say of the broker's dates what an operator has to see to, and TLC
finds each of the properties violated without its own.  With a narrower window
the date falls between two looks at it, or a failed rotation is first polled
when the binding has expired and its status is refused.  `Life` needs one `Wait`
more than `Slack`, because the broker may drop the binding just before it is
rotated: then a reconcile fails that met no fault.  And dates that are due
before a reconcile has surely stored them are not stored at all.

The properties compare dates with `now`; the invariants hardly do.  `Base` is
the time by which the controller will have been through one whole reconcile:
the start of the running or the next one, its latency, and a `Wait` for each
fault left.  `Budget` says how a step moves it: a fault costs a `Wait` that was
already counted, and only the end of a reconcile without a fault moves it on, by
one `Wait`.  Each invariant bounds the dates that the controller has yet to act on by
`Base`, and by `Base + Wait` from the step on at which the running reconcile can
no longer act.  `Flows` (types, `TimeInv`, and `FlowInv`: what each step of a
reconcile has in hand) is shared; to it `ShownInv` adds how old the dates in the
status can be, `RenewInv` which dates can still be unrenewed at each step, and
`NotedInv` and `StuckInv` how far the report of a malformed date and of an
asynchronous rotation has come.  They were invariants of TLC runs first, for
several choices of `Life` and `Window` and up to two faults, on either side of
the hypotheses.

`InstanceWithBindingProofs` carries the results over to the composition:

| theorem | states | for brokers |
|---|---|---|
| `BoundInstanceSafe` | `[]TypeOK`, `BindLeavesEvidence` and `RotateOnlyHeld` of the binding | all |
| `BoundInstanceLeavesNothing` | `[]NoOrphan` of the binding | that bind at once |
| `BoundInstanceRefines` | `Lifecycle` and `UnbindOnlyWhenDeleted` of the binding | that answer binding requests at once |

On the binding's side the composition is not `ServiceBinding`, which bounds the
deletions of its instance by the edits of its own user; here the instance's user
makes them.  `ServiceBindingProofs` therefore proves everything of `OpenSpec`,
in which the instance may also go uncounted, and `Spec` is a case of it.  The
instance's side takes the steps of `ServiceInstance` and no others, so nothing
about it has to be proved again.

Only model-checked: all liveness (ENABLED and fairness are out of the prover's
reach), which includes both properties of `bound_instance`.


## Not modelled

Management policies other than the default and pausing are switches of the
runtime, which then skips actions.  Endpoints, volume mounts, dashboard URLs,
descriptions and the originating identity are carried through unchanged and no
decision depends on them.  The cache through which `Connect` reads a
configuration only delays it.  Flag parsing, metrics, leader election, store
configurations and the registration of schemas are start-up code; deep copies
and mocks are generated.

## Plan

Done: all modules of the table above.  Next:

1. Runs for the hazards that have none yet: the stale key after a lost instance
   (`serviceinstance_methods.go:388`), parameters that are empty (`:153`) and
   metadata without `renewBefore` (`servicebinding_methods.go:453`).
2. What is still promised with brokers that bind asynchronously, for which
   `NoOrphan` fails: a weaker property that names the binds it excepts, checked
   and then proved.
3. `KeptForUsers` as one side of a refinement: `ProviderConfigs` implements a
   reference count that no lagging cache stands in front of.
