--------------------------- MODULE ServiceInstance ---------------------------
(***************************************************************************)
(* The ServiceInstance controller of provider-osb, reconciling ONE managed *)
(* object against one OSB broker.                                          *)
(*                                                                         *)
(* The object's three copies are those of ManagedObject.  Every request to *)
(* the API server or to the broker is a step of its own, so a user, the    *)
(* broker or a crash can act between any two of them.                      *)
(***************************************************************************)
EXTENDS Naturals, ManagedObject

CONSTANTS
    Plans,          \* values of spec.forProvider.planId
    Params,         \* values of spec.forProvider.parameters
    NoParams,       \* the empty parameters string
    BadParams,      \* a parameters string that is not a JSON map
    Contexts,       \* values of spec.forProvider.context
    NoContext,      \* the zero context of a status never written
    NoSpec,         \* the absent spec / absent broker data
    BrokerModes,    \* how the broker may answer a request: "sync", "async"
    DisableAsync,   \* ProviderConfig spec.disableAsync
    ReturnsKey,     \* does the broker send an operation key with a 202
    MaxEdits,       \* bound: creations and edits of the object by the user
    MaxFaults       \* bound: crashes, lost requests, lost replies, failed ops

ASSUME ConstantsAssumption ==
    /\ BrokerModes \subseteq {"sync", "async"}
    /\ DisableAsync \in BOOLEAN
    /\ ReturnsKey \in BOOLEAN
    /\ MaxEdits \in Nat
    /\ MaxFaults \in Nat

-----------------------------------------------------------------------------
(* Data *)

Specs  == [plan: Plans, params: Params, ctx: Contexts]
Kinds  == {"provision", "update", "deprovision"}
States == {"in progress", "succeeded", "failed"}

\* Status.AtProvider and the Ready condition.  "key" is LastOperationKey,
\* written as the kind of the operation the broker issued it for.
Statuses == [lastOp: {"", "deleting"} \cup States,
             key: {""} \cup Kinds,
             ready: {"", "Creating", "Available", "Unavailable", "Deleting"},
             ctx: Contexts \cup {NoContext}]

NoStatus == [lastOp |-> "", key |-> "", ready |-> "", ctx |-> NoContext]

\* "create" is the newest of the external-create-* annotations.
LiveObjects == [exists: {TRUE}, deleted: BOOLEAN, finalizer: BOOLEAN,
                create: {"", "pending", "succeeded", "failed"},
                spec: Specs, status: Statuses]

NoObject == [exists |-> FALSE, deleted |-> FALSE, finalizer |-> FALSE,
             create |-> "", spec |-> NoSpec, status |-> NoStatus]

NewObject(s) == [exists |-> TRUE, deleted |-> FALSE, finalizer |-> FALSE,
                 create |-> "", spec |-> s, status |-> NoStatus]

\* The broker's side: the instance, the record of its operations, and what
\* the operation in progress will make of the instance.
Brokers == [present: BOOLEAN, data: Specs \cup {NoSpec},
            target: Specs \cup {NoSpec},
            ops: [Kinds -> {""} \cup States]]

NoOps == [k \in Kinds |-> ""]

NoInstance == [present |-> FALSE, data |-> NoSpec, target |-> NoSpec,
               ops |-> NoOps]

Steps == {"idle", "observe", "latest", "savePolled", "absent", "upToDate",
          "outdated", "provision", "saveProvisioned", "annotate",
          "saveUpdated", "saveDeprovisioned", "finish"}

VARIABLES
    pc,                     \* the next step of the reconcile
    polled,                 \* state answered to PollLastOperation
    inStep,                 \* history: did the running reconcile begin with all
                            \* that was stored
    broker,
    sent,                   \* history: the last of "create", "delete" requested
                            \* on behalf of the stored object, or ""
    edits, faults           \* counters of the bounds

vars == <<obj, cache, mem, cacheFresh, memFresh, pc, polled, inStep, broker,
          sent, edits, faults>>

localVars == <<mem, memFresh, pc, polled, inStep>>

TypeOK ==
    /\ obj \in LiveObjects \cup {NoObject}
    /\ cache \in LiveObjects \cup {NoObject}
    /\ mem \in LiveObjects \cup {NoObject}
    /\ cacheFresh \in BOOLEAN
    /\ memFresh \in BOOLEAN
    /\ pc \in Steps
    /\ polled \in {""} \cup States
    /\ inStep \in BOOLEAN
    /\ broker \in Brokers
    /\ sent \in {"", "create", "delete"}
    /\ edits \in 0..MaxEdits
    /\ faults \in 0..MaxFaults
    /\ pc # "idle" => mem.exists
    /\ pc = "latest" => polled \in States

Init ==
    /\ obj = NoObject
    /\ cache = NoObject
    /\ mem = NoObject
    /\ cacheFresh = TRUE
    /\ memFresh = FALSE
    /\ pc = "idle"
    /\ polled = ""
    /\ inStep = FALSE
    /\ broker = NoInstance
    /\ sent = ""
    /\ edits = 0
    /\ faults = 0

-----------------------------------------------------------------------------
(* The Kubernetes API server and the informer cache *)

\* kube.Update(m): everything of m but its status reaches the stored object,
\* and the answer is decoded into the in-memory copy, where an absent
\* condition of the stored status leaves the in-memory one in place.
Decoded(m) ==
    [m EXCEPT !.status = [obj.status EXCEPT
        !.ready = IF obj.status.ready = "" THEN m.status.ready ELSE @]]

MainUpdate(m) ==
    /\ Store([m EXCEPT !.status = obj.status])
    /\ mem' = Decoded(m)

CacheSync ==
    /\ ~cacheFresh
    /\ cache' = obj
    /\ cacheFresh' = TRUE
    /\ UNCHANGED <<obj, localVars, broker, sent, edits, faults>>

UserCreates ==
    /\ ~obj.exists
    /\ edits < MaxEdits
    /\ edits' = edits + 1
    /\ \E s \in Specs : Store(NewObject(s))
    /\ memFresh' = FALSE
    /\ UNCHANGED <<mem, pc, polled, inStep, broker, sent, faults>>

UserEdits ==
    /\ obj.exists
    /\ edits < MaxEdits
    /\ edits' = edits + 1
    /\ \E s \in Specs \ {obj.spec} : Store([obj EXCEPT !.spec = s])
    /\ memFresh' = FALSE
    /\ UNCHANGED <<mem, pc, polled, inStep, broker, sent, faults>>

UserDeletes ==
    /\ obj.exists
    /\ ~obj.deleted
    /\ Store(IF obj.finalizer THEN [obj EXCEPT !.deleted = TRUE] ELSE NoObject)
    /\ memFresh' = FALSE
    /\ UNCHANGED <<mem, pc, polled, inStep, broker, sent, edits, faults>>

-----------------------------------------------------------------------------
(* The broker *)

Pending(b) == {k \in Kinds : b.ops[k] = "in progress"}

Modes == IF DisableAsync THEN BrokerModes \ {"async"} ELSE BrokerModes

\* b with operation k begun; it will leave the instance as t says.
Begun(b, k, t) == [b EXCEPT !.ops[k] = "in progress", !.target = t]

\* The replies to a request of kind k the broker takes on: done at once, or
\* begun; a broker that is not let answer asynchronously refuses.
Accepted(b, k, t, done) ==
    IF Modes = {}
      THEN {[b |-> b, out |-> "error"]}
      ELSE {[b |-> IF m = "sync" THEN done ELSE Begun(b, k, t), out |-> m] :
               m \in Modes}

ProvisionReplies(b, s) ==
    IF Pending(b) # {}
      THEN {[b |-> b, out |-> IF b.ops["provision"] = "in progress" /\ b.target = s
                                THEN "async" ELSE "error"]}
    ELSE IF b.present
      THEN {[b |-> b, out |-> IF b.data = s THEN "sync" ELSE "error"]}
    ELSE Accepted([b EXCEPT !.ops = NoOps], "provision", s,
                  [NoInstance EXCEPT !.present = TRUE, !.data = s])

\* Parameters left out of an update keep their value.
Updated(data, s) ==
    [s EXCEPT !.params = IF @ = NoParams THEN data.params ELSE @]

UpdateReplies(b, s) ==
    IF Pending(b) # {} \/ ~b.present
      THEN {[b |-> b, out |-> "error"]}
      ELSE Accepted(b, "update", Updated(b.data, s),
                    [b EXCEPT !.data = Updated(b.data, s)])

DeprovisionReplies(b) ==
    IF b.ops["deprovision"] = "in progress"
      THEN {[b |-> b, out |-> "async"]}
    ELSE IF Pending(b) # {}
      THEN {[b |-> b, out |-> "error"]}
    ELSE IF ~b.present
      THEN {[b |-> NoInstance, out |-> "gone"]}
    ELSE Accepted(b, "deprovision", NoSpec, NoInstance)

\* Mutant: an operation the broker does not know is not taken as gone.
PollRepliesNeverGone(b, k) == {b.ops[k]}

PollReplies(b, k) ==
    IF b.ops[k] = "" THEN {"gone"}
    ELSE IF k = "deprovision" /\ b.ops[k] = "succeeded"
      THEN {"gone", "succeeded"}
    ELSE {b.ops[k]}

\* A request may also be lost before it has an effect, or its reply after:
\* the controller sees an error either way.
Answers(replies) ==
    {[b |-> r.b, out |-> r.out, fault |-> 0] : r \in replies} \cup
    {[b |-> r, out |-> "error", fault |-> 1] :
        r \in {broker} \cup {q.b : q \in replies}}

Answered(r) ==
    /\ faults + r.fault <= MaxFaults
    /\ faults' = faults + r.fault
    /\ broker' = r.b

\* The key of a 202: absent if the broker sends none, and then the status
\* keeps the key it has.
KeyAfter(status, kind) == IF ReturnsKey THEN kind ELSE status.key

Ended(b, k, state) == [b EXCEPT !.ops[k] = state, !.target = NoSpec]

BrokerSucceeds ==
    \E k \in Pending(broker) :
      /\ broker' = CASE k = "provision" ->
                          [Ended(broker, k, "succeeded") EXCEPT
                             !.present = TRUE, !.data = broker.target]
                     [] k = "update" ->
                          [Ended(broker, k, "succeeded") EXCEPT
                             !.data = broker.target]
                     [] k = "deprovision" ->
                          [NoInstance EXCEPT !.ops[k] = "succeeded"]
      /\ UNCHANGED <<kubeVars, localVars, sent, edits, faults>>

BrokerFails ==
    \E k \in Pending(broker) :
      /\ faults < MaxFaults
      /\ faults' = faults + 1
      /\ broker' = Ended(broker, k, "failed")
      /\ UNCHANGED <<kubeVars, localVars, sent, edits>>

\* The instance disappears from the broker without a request of ours.
BrokerLosesInstance ==
    /\ broker.present
    /\ Pending(broker) = {}
    /\ faults < MaxFaults
    /\ faults' = faults + 1
    /\ broker' = NoInstance
    /\ UNCHANGED <<kubeVars, localVars, sent, edits>>

-----------------------------------------------------------------------------
(* Reconcile: the runtime reads the object, then Observe *)

\* The reconcile returns: its copy of the object is dropped.
Return ==
    /\ pc' = "idle"
    /\ mem' = NoObject
    /\ memFresh' = FALSE
    /\ inStep' = FALSE

StartReconcile ==
    /\ pc = "idle"
    /\ cache.exists
    /\ memFresh' = cacheFresh
    /\ inStep' = cacheFresh
    /\ IF cache.create = "pending"      \* ExternalCreateIncomplete
         THEN /\ pc' = "finish"
              /\ mem' = [cache EXCEPT !.status.ready = "Creating"]
         ELSE /\ pc' = "observe"
              /\ mem' = cache
    /\ UNCHANGED <<kubeVars, polled, broker, sent, edits, faults>>

HasLastOperation(o) == o.status.key # ""

\* Status.AtProvider.HasActiveBindings: the function that would set it,
\* UpdateActiveBindingsStatus, is commented out.
HasActiveBindings(o) == FALSE

\* Mutant: that the operation ended is enough.
DeletableOnceEnded(o) ==
    /\ o.deleted
    /\ o.status.lastOp \in {"succeeded", "failed"}
    /\ ~HasActiveBindings(o)

IsDeletable(o) ==
    /\ o.deleted
    /\ o.status.lastOp = "succeeded"
    /\ ~HasActiveBindings(o)

\* Mutant: a failed operation changes the condition only.
UpdateStatusUnlessFailed(o, state) ==
    [o EXCEPT !.status.lastOp = IF state = "failed" THEN @ ELSE state,
              !.status.ready = IF state = "succeeded" THEN "Available"
                                                      ELSE "Unavailable"]

UpdateStatusFromLastOp(o, state) ==
    [o EXCEPT !.status.lastOp = state,
              !.status.ready = IF state = "succeeded" THEN "Available"
                                                      ELSE "Unavailable"]

\* Mutant: an operation the broker no longer knows is an error.
PollGoneIsAnError ==
    /\ pc = "observe"
    /\ HasLastOperation(mem)
    /\ \/ \E r \in PollReplies(broker, mem.status.key) :
            /\ pc' = IF r = "gone" THEN "finish" ELSE "latest"
            /\ polled' = IF r = "gone" THEN "" ELSE r
            /\ faults' = faults
       \/ /\ faults < MaxFaults
          /\ faults' = faults + 1
          /\ pc' = "finish"
          /\ polled' = ""
    /\ UNCHANGED <<kubeVars, mem, memFresh, inStep, broker, sent, edits>>

PollLastOperation ==
    /\ pc = "observe"
    /\ HasLastOperation(mem)
    /\ \/ \E r \in PollReplies(broker, mem.status.key) :
            /\ pc' = IF r = "gone" THEN "absent" ELSE "latest"
            /\ polled' = IF r = "gone" THEN "" ELSE r
            /\ faults' = faults
       \/ /\ faults < MaxFaults
          /\ faults' = faults + 1
          /\ pc' = "finish"
          /\ polled' = ""
    /\ UNCHANGED <<kubeVars, mem, memFresh, inStep, broker, sent, edits>>

\* kube.Get into the same object: what the cache has replaces mem, and the
\* polled state is applied to that.
GetLatestKubeObject ==
    /\ pc = "latest"
    /\ polled' = ""
    /\ IF cache.exists
         THEN /\ mem' = UpdateStatusFromLastOp(cache, polled)
              /\ memFresh' = cacheFresh
              /\ pc' = IF IsDeletable(mem') THEN "absent" ELSE "savePolled"
              /\ UNCHANGED inStep
         ELSE Return
    /\ UNCHANGED <<kubeVars, broker, sent, edits, faults>>

\* Mutant: a refused save is ignored.
SavePolledStatusUnchecked ==
    /\ pc = "savePolled"
    /\ IF memFresh THEN StatusUpdate ELSE UNCHANGED kubeVars
    /\ mem' = [mem EXCEPT !.status.ready = "Available"]
    /\ pc' = "upToDate"
    /\ UNCHANGED <<memFresh, polled, inStep, broker, sent, edits, faults>>

\* Observe answers NothingToDo after the save, and marks mem Available.
SavePolledStatus ==
    /\ pc = "savePolled"
    /\ IF memFresh
         THEN /\ StatusUpdate
              /\ mem' = [mem EXCEPT !.status.ready = "Available"]
              /\ pc' = "upToDate"
         ELSE /\ pc' = "finish"
              /\ UNCHANGED <<kubeVars, mem>>
    /\ UNCHANGED <<memFresh, polled, inStep, broker, sent, edits, faults>>

\* A deleted object without an operation key is reported absent as soon as
\* its status could be written: the broker is not asked.
HandleDeletionWithActiveBindings ==
    /\ pc = "observe"
    /\ ~HasLastOperation(mem)
    /\ mem.deleted
    /\ IF memFresh
         THEN /\ StatusUpdate
              /\ pc' = "absent"
         ELSE /\ pc' = "finish"
              /\ UNCHANGED kubeVars
    /\ UNCHANGED <<mem, memFresh, polled, inStep, broker, sent, edits, faults>>

\* ToParameters: the string is JSON, or empty.
ToParameters(o) == o.spec.params # BadParams

\* Mutant: the parameters are not compared.
CompareContextOnly(o, data) ==
    IF o.spec.ctx # o.status.ctx THEN "outdated" ELSE "upToDate"

\* CompareSpecWithOSB: the next step, given what GetInstance returned.
CompareSpecWithOSB(o, data) ==
    IF o.spec.plan # data.plan THEN "upToDate"
    ELSE IF o.spec.params = NoParams THEN "outdated"
    ELSE IF ~ToParameters(o) THEN "finish"
    ELSE IF o.spec.params # data.params \/ o.spec.ctx # o.status.ctx
      THEN "outdated"
    ELSE "upToDate"

GetInstance ==
    /\ pc = "observe"
    /\ ~HasLastOperation(mem)
    /\ ~mem.deleted
    /\ \/ /\ pc' = IF broker.present THEN CompareSpecWithOSB(mem, broker.data)
                                     ELSE "absent"
          /\ faults' = faults
       \/ /\ faults < MaxFaults
          /\ faults' = faults + 1
          /\ pc' = "finish"
    /\ mem' = IF pc' = "upToDate" THEN [mem EXCEPT !.status.ready = "Available"]
                                  ELSE mem
    /\ UNCHANGED <<kubeVars, memFresh, polled, inStep, broker, sent, edits>>

-----------------------------------------------------------------------------
(* Reconcile: what the runtime does with the observation *)

\* Mutant: a refused write is ignored.
UpdateObjectUnchecked(m, next) ==
    /\ pc' = next
    /\ IF memFresh THEN MainUpdate(m) ELSE UNCHANGED <<kubeVars, mem>>

\* kube.Update of m, mem with its metadata changed, and the step after it; a
\* stale copy is refused and the rest is left to a later reconcile.
UpdateObject(m, next) ==
    IF memFresh
      THEN /\ MainUpdate(m)
           /\ pc' = next
      ELSE /\ pc' = "finish"
           /\ UNCHANGED <<kubeVars, mem>>

RemoveFinalizer ==
    /\ pc = "absent"
    /\ mem.deleted
    /\ IF memFresh /\ mem.finalizer
         THEN /\ Store(NoObject)
              /\ sent' = ""
         ELSE UNCHANGED <<kubeVars, sent>>
    /\ Return
    /\ UNCHANGED <<polled, broker, edits, faults>>

AddFinalizer ==
    /\ pc \in {"absent", "upToDate", "outdated"}
    /\ ~mem.deleted
    /\ ~mem.finalizer
    /\ UpdateObject([mem EXCEPT !.finalizer = TRUE], pc)
    /\ UNCHANGED <<memFresh, polled, inStep, broker, sent, edits, faults>>

\* Mutant: an object being deleted is created again.
MarkCreatePendingAnyway ==
    /\ pc = "absent"
    /\ mem.finalizer
    /\ UpdateObject([mem EXCEPT !.create = "pending"], "provision")
    /\ UNCHANGED <<memFresh, polled, inStep, broker, sent, edits, faults>>

MarkCreatePending ==
    /\ pc = "absent"
    /\ ~mem.deleted
    /\ mem.finalizer
    /\ UpdateObject([mem EXCEPT !.create = "pending"], "provision")
    /\ UNCHANGED <<memFresh, polled, inStep, broker, sent, edits, faults>>

\* Mutant: every asynchronous reply is recorded as that of a deletion.
AnsweredAsDeletion(o, out, kind) ==
    [o EXCEPT !.status.lastOp = "deleting",
              !.status.key = KeyAfter(o.status, kind)]

\* Mutant: the context the broker was given is not remembered.
AnsweredWithoutContext(o, out, kind) ==
    [o EXCEPT !.status.lastOp = IF out = "async" THEN "in progress"
                                                 ELSE "succeeded",
              !.status.key = IF out = "async" THEN KeyAfter(o.status, kind)
                                              ELSE @]

\* UpdateStatusFromOSB for a reply to an operation of the given kind.
UpdateStatusFromOSB(o, out, kind) ==
    IF out = "async"
      THEN [o EXCEPT !.status.ctx = o.spec.ctx,
                     !.status.ready = "Creating",
                     !.status.lastOp = "in progress",
                     !.status.key = KeyAfter(o.status, kind)]
      ELSE [o EXCEPT !.status.ctx = o.spec.ctx,
                     !.status.ready = "Available",
                     !.status.lastOp = "succeeded"]

\* Create returned: its outcome is what the next annotation write carries.
Created(o, outcome) == [o EXCEPT !.create = outcome]

Provision ==
    /\ pc = "provision"
    /\ \/ /\ ~ToParameters(mem)
          /\ mem' = Created(mem, "failed")
          /\ pc' = "annotate"
          /\ UNCHANGED <<broker, sent, faults>>
       \/ /\ ToParameters(mem)
          /\ sent' = "create"
          /\ \E r \in Answers(ProvisionReplies(broker, mem.spec)) :
               /\ Answered(r)
               /\ IF r.out = "error"
                    THEN /\ mem' = Created(mem, "failed")
                         /\ pc' = "annotate"
                    ELSE /\ mem' = UpdateStatusFromOSB(mem, r.out, "provision")
                         /\ pc' = "saveProvisioned"
    /\ UNCHANGED <<kubeVars, memFresh, polled, inStep, edits>>

SaveProvisioned ==
    /\ pc = "saveProvisioned"
    /\ pc' = "annotate"
    /\ IF memFresh
         THEN /\ StatusUpdate
              /\ mem' = Created(mem, "succeeded")
         ELSE /\ mem' = Created(mem, "failed")
              /\ UNCHANGED kubeVars
    /\ UNCHANGED <<memFresh, polled, inStep, broker, sent, edits, faults>>

\* UpdateCriticalAnnotations: on a conflict the object is read again, the
\* annotations are put back on it and the write retried; the retries end.
\* Either way the runtime then marks mem Creating.
UpdateCriticalAnnotations ==
    /\ pc = "annotate"
    /\ \/ /\ memFresh
          /\ Store([mem EXCEPT !.status = obj.status])
          /\ mem' = [Decoded(mem) EXCEPT !.status.ready = "Creating"]
          /\ pc' = "finish"
          /\ UNCHANGED memFresh
       \/ /\ ~memFresh
          /\ cache.exists
          /\ mem' = [cache EXCEPT !.create = mem.create]
          /\ memFresh' = cacheFresh
          /\ UNCHANGED <<kubeVars, pc>>
       \/ /\ ~memFresh
          /\ mem' = [mem EXCEPT !.status.ready = "Creating"]
          /\ pc' = "finish"
          /\ UNCHANGED <<kubeVars, memFresh>>
    /\ UNCHANGED <<polled, inStep, broker, sent, edits, faults>>

Update ==
    /\ pc = "outdated"
    /\ ~mem.deleted
    /\ mem.finalizer
    /\ \/ /\ ~ToParameters(mem)
          /\ pc' = "finish"
          /\ UNCHANGED <<mem, broker, faults>>
       \/ /\ ToParameters(mem)
          /\ \E r \in Answers(UpdateReplies(broker, mem.spec)) :
               /\ Answered(r)
               /\ IF r.out = "error"
                    THEN /\ pc' = "finish"
                         /\ mem' = mem
                    ELSE /\ pc' = "saveUpdated"
                         /\ mem' = UpdateStatusFromOSB(mem, r.out, "update")
    /\ UNCHANGED <<kubeVars, memFresh, polled, inStep, sent, edits>>

SaveUpdated ==
    /\ pc = "saveUpdated"
    /\ pc' = "finish"
    /\ IF memFresh THEN StatusUpdate ELSE UNCHANGED kubeVars
    /\ UNCHANGED <<mem, memFresh, polled, inStep, broker, sent, edits, faults>>

\* UpdateStatusForAsyncDeletion
UpdateStatusForAsyncDeletion(o) ==
    [o EXCEPT !.status.lastOp = "deleting",
              !.status.key = KeyAfter(o.status, "deprovision")]

Deprovision ==
    /\ pc = "upToDate"
    /\ mem.deleted
    /\ ~HasActiveBindings(mem)
    /\ sent' = "delete"
    /\ LET deleting == [mem EXCEPT !.status.ready = "Deleting"] IN
       \E r \in Answers(DeprovisionReplies(broker)) :
          /\ Answered(r)
          /\ IF r.out = "async"
               THEN /\ mem' = UpdateStatusForAsyncDeletion(deleting)
                    /\ pc' = "saveDeprovisioned"
               ELSE /\ mem' = deleting
                    /\ pc' = "finish"
    /\ UNCHANGED <<kubeVars, memFresh, polled, inStep, edits>>

SaveDeprovisioned ==
    /\ pc = "saveDeprovisioned"
    /\ pc' = "finish"
    /\ IF memFresh THEN StatusUpdate ELSE UNCHANGED kubeVars
    /\ UNCHANGED <<mem, memFresh, polled, inStep, broker, sent, edits, faults>>

\* The Status().Update every reconcile ends with; its conflict is ignored.
FinishReconcile ==
    /\ pc = "finish" \/ (pc = "upToDate" /\ ~mem.deleted /\ mem.finalizer)
    /\ IF memFresh THEN StatusUpdate ELSE UNCHANGED kubeVars
    /\ Return
    /\ UNCHANGED <<polled, broker, sent, edits, faults>>

\* The provider dies, or a step outside the model fails: memory is lost.
Crash ==
    /\ pc # "idle"
    /\ faults < MaxFaults
    /\ faults' = faults + 1
    /\ Return
    /\ polled' = ""
    /\ UNCHANGED <<kubeVars, broker, sent, edits>>

-----------------------------------------------------------------------------

Reconcile ==
    \/ StartReconcile \/ PollLastOperation \/ GetLatestKubeObject
    \/ SavePolledStatus \/ HandleDeletionWithActiveBindings \/ GetInstance
    \/ RemoveFinalizer \/ AddFinalizer \/ MarkCreatePending
    \/ Provision \/ SaveProvisioned \/ UpdateCriticalAnnotations
    \/ Update \/ SaveUpdated \/ Deprovision \/ SaveDeprovisioned
    \/ FinishReconcile

User == UserCreates \/ UserEdits \/ UserDeletes

Next == Reconcile \/ Crash \/ CacheSync \/ User \/ BrokerSucceeds
        \/ BrokerFails \/ BrokerLosesInstance

Spec == Init /\ [][Next]_vars

\* A reconcile is requeued within the poll interval, the informer delivers
\* every event and the broker ends what it began.
FairSpec == Spec /\ WF_vars(Reconcile) /\ WF_vars(CacheSync)
                 /\ WF_vars(BrokerSucceeds)

-----------------------------------------------------------------------------
(* Safety *)

\* DeprovisionOnlyWhenDeleted: whatever the age of the cache it started from,
\* a reconcile asks the broker to destroy the instance only while the stored
\* object is marked for deletion -- not one edited, re-created or removed in
\* the meantime.  (Delete, reached through HandleLastOperationInProgress.)
DeprovisionOnlyWhenDeleted ==
    [][Deprovision => obj.exists /\ obj.deleted]_vars

\* ProvisionLeavesEvidence: when the broker is asked to create an instance,
\* the stored object already holds the finalizer and the "pending" mark, so
\* that neither a crash nor a deletion at that moment forgets the instance.
ProvisionLeavesEvidence ==
    [][Provision => obj.exists /\ obj.finalizer /\ obj.create = "pending"]_vars

\* DeletionOpsOnlyOnDeleted: no copy of the object names a deprovision
\* operation, or is in state "deleting", unless that copy is marked for
\* deletion; a key never survives into the next object of the same name.
\* (UpdateStatusForAsyncDeletion and the saves around it.)
NamesDeletion(o) == o.status.key = "deprovision" \/ o.status.lastOp = "deleting"

DeletionOpsOnlyOnDeleted ==
    \A o \in {obj, cache, mem} : NamesDeletion(o) => o.deleted

\* FinalizerUntilDeprovisioned: a reconcile that began with all that was
\* stored takes the finalizer of an object that names a deprovision only when
\* the broker has the instance no more, whatever became of earlier reconciles
\* and of requests, copies and replies since.  (HandleLastOperationInProgress;
\* for one that began with less it is violated: it polls the operation that
\* its copy names and puts the answer on the copy it then reads.  Objects that
\* never get such a key: see NoOrphan.)
FinalizerUntilDeprovisioned ==
    [][obj.finalizer /\ obj.status.key = "deprovision" /\ ~obj'.finalizer
         => ~broker.present \/ ~inStep]_vars

\* Lifecycle: seen from outside, the object and the requests made for it go
\* through the phases of ManagedLifecycle, and no other way.
L == INSTANCE ManagedLifecycle WITH
         life <- IF ~obj.exists THEN "absent"
                 ELSE IF obj.deleted THEN "leaving"
                 ELSE IF obj.finalizer THEN "held" ELSE "new",
         sent <- sent

Lifecycle == L!Spec

-----------------------------------------------------------------------------
(* The inductive invariant the safety proofs rest on *)

\* The broker has one operation in progress at most, and knows what it makes.
BrokerInv(b) ==
    /\ b.present => b.data \in Specs
    /\ \A k \in Kinds \ {"deprovision"} :
          b.ops[k] = "in progress" => b.target \in Specs
    /\ \A j, k \in Kinds :
          b.ops[j] = "in progress" /\ b.ops[k] = "in progress" => j = k

\* What the stored object says of itself and of the requests made for it.
StoredInv ==
    /\ obj.deleted => obj.finalizer
    /\ sent # "" => obj.finalizer
    /\ sent = "delete" => obj.deleted
    /\ cacheFresh => cache = obj

\* A copy at the stored version agrees with the stored object on all that
\* only the user and the API server write, and on the key until it is acted
\* upon.
FreshInv ==
    memFresh =>
        /\ pc # "idle"
        /\ obj.exists
        /\ mem.deleted = obj.deleted
        /\ mem.finalizer = obj.finalizer
        /\ mem.spec = obj.spec
        /\ pc \in {"observe", "absent", "savePolled"} =>
              mem.status.key = obj.status.key

\* What earlier accepted writes establish and no step of another undoes.
StepInv ==
    /\ pc \in {"upToDate", "saveDeprovisioned"} /\ mem.deleted => obj.deleted
    /\ pc \in {"provision", "saveProvisioned"} =>
          /\ obj.finalizer
          /\ obj.create = "pending"
          /\ sent # "delete"
    /\ pc = "saveDeprovisioned" => mem.deleted

\* IInv: the conjunction that every step preserves.
IInv ==
    /\ TypeOK
    /\ BrokerInv(broker)
    /\ StoredInv
    /\ FreshInv
    /\ StepInv
    /\ DeletionOpsOnlyOnDeleted

-----------------------------------------------------------------------------
(* Liveness *)

Settled == obj.exists /\ ~obj.deleted /\ obj.create # "pending"

\* SpecReachesBroker: the parameters the user asked for end up at the broker,
\* through lost requests, conflicts and an instance that vanished.
SpecReachesBroker ==
    <>[](Settled => broker.present /\ broker.data.params = obj.spec.params)

\* RequestsCease: once the user stops editing, the controller stops sending
\* creations and updates.
RequestsCease == <>[][~Update /\ ~Provision]_vars

\* OutcomeReported: the stored status ends up telling how the operation that
\* its key names ended.  (HandleLastOperationInProgress.)
OutcomeReported ==
    <>[](Settled /\ obj.status.key # "" =>
           obj.status.lastOp = broker.ops[obj.status.key])

\* DeletionCompletes: a deleted object does not stay, unless a creation was
\* interrupted between its two marks, which the runtime leaves to the user.
\* (It says nothing of the instance: see FinalizerUntilDeprovisioned, NoOrphan.)
DeletionCompletes == []<>(~obj.deleted) \/ <>[](obj.create = "pending")

-----------------------------------------------------------------------------
(* What the repository's docs say, and the code does not do *)

\* NoOrphan: an object that is gone leaves no instance at the broker.  (It does
\* by two ways: ObserveState reports a deleted object without a key absent,
\* and HandleLastOperationInProgress one whose key is that of a provision
\* that succeeded, as IsDeletable does not look at the key.)
NoOrphan == ~obj.exists => ~broker.present
=============================================================================
