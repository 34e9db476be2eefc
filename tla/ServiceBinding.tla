--------------------------- MODULE ServiceBinding ---------------------------
(***************************************************************************)
(* The ServiceBinding controller of provider-osb, reconciling ONE managed  *)
(* object against one OSB broker.  Unlike the instance controller it saves *)
(* no status itself: what it learns is written by the runtime's last       *)
(* status update, unless a write of the object in between has the stored   *)
(* status decoded over it.  Time is one flag per binding: its renewal date *)
(* has passed; whether it is expired too is left open.                     *)
(***************************************************************************)
EXTENDS Naturals, ManagedObject

CONSTANTS
    Params,         \* values of spec.forProvider.parameters
    NoParams,       \* the empty parameters string, which is no JSON map
    Name,           \* the object's name: its external name at first
    Uuids,          \* bound: the identifiers rotations may draw
    NoName,         \* no binding
    Metadata,       \* what GetBinding tells of renewal: "none" (no metadata),
                    \* "bare" (no renewBefore), "renew", "noExpiry"
    RotateBindings, \* feature flag EnableAlphaRotateBindings
    BrokerModes,    \* how the broker may answer a request: "sync", "async"
    DisableAsync,   \* ProviderConfig spec.disableAsync
    Forgets,        \* may the broker lose a binding on its own
    MaxEdits,       \* bound: creations and edits by the user, and his
                    \* deletions of the instance
    MaxFaults       \* bound: crashes, lost requests, lost replies, failed ops

ASSUME ConstantsAssumption ==
    /\ Name \notin Uuids           \* uuid.New draws fresh identifiers
    /\ NoName \notin {Name} \cup Uuids
    /\ Metadata \in {"none", "bare", "renew", "noExpiry"}
    /\ RotateBindings \in BOOLEAN
    /\ BrokerModes \subseteq {"sync", "async"}
    /\ DisableAsync \in BOOLEAN
    /\ Forgets \in BOOLEAN
    /\ MaxEdits \in Nat
    /\ MaxFaults \in Nat

-----------------------------------------------------------------------------
(* Data *)

Ids    == {Name} \cup Uuids
States == {"in progress", "succeeded", "failed"}

\* Status.AtProvider.LastOperationState, the Ready and Synced conditions, and
\* whether there is one without lastTransitionTime among the conditions.
Statuses == [lastOp: {""} \cup States,
             ready: {"", "Creating", "Available", "Unavailable", "Deleting"},
             synced: {"", "yes", "no"}, untimed: BOOLEAN]

NoStatus == [lastOp |-> "", ready |-> "", synced |-> "", untimed |-> FALSE]

\* "create" is the newest of the external-create-* annotations, "name" the
\* external-name annotation.
LiveObjects == [exists: {TRUE}, deleted: BOOLEAN, finalizer: BOOLEAN,
                create: {"", "pending", "succeeded", "failed"},
                name: Ids, params: Params, status: Statuses]

NoObject == [exists |-> FALSE, deleted |-> FALSE, finalizer |-> FALSE,
             create |-> "", name |-> NoName, params |-> NoParams,
             status |-> NoStatus]

NewObject(p) == [exists |-> TRUE, deleted |-> FALSE, finalizer |-> FALSE,
                 create |-> "", name |-> Name, params |-> p,
                 status |-> NoStatus]

\* The broker's side of one binding identifier, with its last operation.
Bindings == [present: BOOLEAN, params: Params \cup {NoParams}, due: BOOLEAN,
             op: {"", "bind", "unbind"}, state: {""} \cup States]

NoBinding == [present |-> FALSE, params |-> NoParams, due |-> FALSE,
              op |-> "", state |-> ""]

Steps == {"idle", "observe", "latest", "absent", "upToDate", "outdated",
          "bind", "annotate", "finish"}

VARIABLES
    pc,             \* the next step of the reconcile
    polled,         \* state answered to PollBindingLastOperation
    creds,          \* the binding whose credentials Create returned
    secret,         \* the binding whose credentials are published
    broker,
    sent,           \* history: the last of "create", "delete" requested on
                    \* behalf of the stored object, or ""
    edits, faults,  \* counters of the bounds
    instance        \* does the broker have the instance that is bound

vars == <<obj, cache, mem, cacheFresh, memFresh, pc, polled, creds, secret,
          broker, sent, edits, faults, instance>>

localVars  == <<mem, memFresh, pc, polled, creds>>
outerVars  == <<secret, broker, sent>>
boundVars  == <<edits, faults, instance>>

TypeOK ==
    /\ obj \in LiveObjects \cup {NoObject}
    /\ cache \in LiveObjects \cup {NoObject}
    /\ mem \in LiveObjects \cup {NoObject}
    /\ cacheFresh \in BOOLEAN
    /\ memFresh \in BOOLEAN
    /\ pc \in Steps
    /\ polled \in {""} \cup States
    /\ creds \in {NoName, Name}
    /\ secret \in {NoName} \cup Ids
    /\ broker \in [Ids -> Bindings]
    /\ sent \in {"", "create", "delete"}
    /\ edits \in 0..MaxEdits
    /\ faults \in 0..MaxFaults
    /\ instance \in BOOLEAN
    /\ pc # "idle" => mem.exists
    /\ pc = "latest" => polled \in States

Init ==
    /\ obj = NoObject
    /\ cache = NoObject
    /\ mem = NoObject
    /\ cacheFresh = TRUE
    /\ memFresh = FALSE
    /\ pc = "idle"
    /\ polled = ""
    /\ creds = NoName
    /\ secret = NoName
    /\ broker = [id \in Ids |-> NoBinding]
    /\ sent = ""
    /\ edits = 0
    /\ faults = 0
    /\ instance = FALSE

-----------------------------------------------------------------------------
(* The Kubernetes API server and the user *)

\* kube.Update(m): the answer is decoded into the in-memory copy, where what
\* the stored status lacks stays as it is; the conditions are one list.
Decoded(m) ==
    LET st == obj.status
        c  == IF st.ready = "" /\ st.synced = "" THEN m.status ELSE st
    IN  [m EXCEPT !.status =
            [lastOp |-> IF st.lastOp = "" THEN m.status.lastOp ELSE st.lastOp,
             ready |-> c.ready, synced |-> c.synced, untimed |-> c.untimed]]

MainUpdate(m) ==
    /\ Store([m EXCEPT !.status = obj.status])
    /\ mem' = Decoded(m)

CacheSync ==
    /\ ~cacheFresh
    /\ cache' = obj
    /\ cacheFresh' = TRUE
    /\ UNCHANGED <<obj, localVars, outerVars, boundVars>>

UserCreates ==
    /\ ~obj.exists
    /\ edits < MaxEdits
    /\ edits' = edits + 1
    /\ \E p \in Params : Store(NewObject(p))
    /\ memFresh' = FALSE
    /\ UNCHANGED <<mem, pc, polled, creds, outerVars, faults, instance>>

UserEdits ==
    /\ obj.exists
    /\ edits < MaxEdits
    /\ edits' = edits + 1
    /\ \E p \in Params \ {obj.params} : Store([obj EXCEPT !.params = p])
    /\ memFresh' = FALSE
    /\ UNCHANGED <<mem, pc, polled, creds, outerVars, faults, instance>>

UserDeletes ==
    /\ obj.exists
    /\ ~obj.deleted
    /\ Store(IF obj.finalizer THEN [obj EXCEPT !.deleted = TRUE] ELSE NoObject)
    /\ memFresh' = FALSE
    /\ secret' = IF obj.finalizer THEN secret ELSE NoName
    /\ UNCHANGED <<mem, pc, polled, creds, broker, sent, boundVars>>

-----------------------------------------------------------------------------
(* The broker *)

Running(id) == broker[id].state = "in progress"

\* The replies to a request the broker takes on for a binding: done at once,
\* or begun; a broker that is not let answer asynchronously refuses.
Accepted(modes, begun, done) ==
    IF modes = {}
      THEN {[b |-> broker, out |-> "error"]}
      ELSE {[b |-> IF m = "sync" THEN done ELSE begun, out |-> m] : m \in modes}

Refused == {[b |-> broker, out |-> "error"]}

Bound(id, p) == [broker EXCEPT ![id] = [NoBinding EXCEPT !.present = TRUE,
                                                         !.params = p]]

Binding(id, p) == [broker EXCEPT ![id] = [NoBinding EXCEPT
                     !.params = p, !.op = "bind", !.state = "in progress"]]

\* The answers AcceptsIncomplete permits: disableAsync counts for Bind only.
BindModes == IF DisableAsync THEN BrokerModes \ {"async"} ELSE BrokerModes
RotateModes == BrokerModes
UnbindModes == BrokerModes

BindReplies(id, p) ==
    IF ~instance THEN Refused
    ELSE IF Running(id)
      THEN IF broker[id].op = "bind" /\ broker[id].params = p
             THEN {[b |-> broker, out |-> "async"]} ELSE Refused
    ELSE IF broker[id].present
      THEN IF broker[id].params = p
             THEN {[b |-> broker, out |-> "sync"]} ELSE Refused
    ELSE Accepted(BindModes, Binding(id, p), Bound(id, p))

RotateReplies(new, old) ==
    IF Running(old) \/ ~broker[old].present
      THEN Refused
      ELSE Accepted(RotateModes, Binding(new, broker[old].params),
                    Bound(new, broker[old].params))

UnbindReplies(id) ==
    IF Running(id)
      THEN IF broker[id].op = "unbind"
             THEN {[b |-> broker, out |-> "async"]} ELSE Refused
    ELSE IF ~broker[id].present THEN Refused         \* 410 Gone
    ELSE Accepted(UnbindModes,
                  [broker EXCEPT ![id].op = "unbind",
                                 ![id].state = "in progress"],
                  [broker EXCEPT ![id] = NoBinding])

PollReplies(id) ==
    LET b == broker[id] IN
    IF b.state = "" THEN IF b.present THEN {"error"} ELSE {"gone"}
    ELSE IF b.op = "unbind" /\ b.state = "succeeded" THEN {"gone", "succeeded"}
    ELSE {b.state}

\* A request may also be lost before it has an effect, or its reply after:
\* the controller sees an error either way.
Answers(replies) ==
    {[b |-> r.b, out |-> r.out, fault |-> 0] : r \in replies} \cup
    {[b |-> r, out |-> "error", fault |-> 1] :
        r \in {broker} \cup {q.b : q \in replies}}

Answered(r) ==
    /\ faults + r.fault <= MaxFaults
    /\ faults' = faults + r.fault
    /\ broker' = r.b

BrokerSucceeds ==
    \E id \in Ids :
      /\ Running(id)
      /\ broker' = [broker EXCEPT ![id] =
                      IF broker[id].op = "bind"
                        THEN [@ EXCEPT !.present = TRUE, !.state = "succeeded"]
                        ELSE [NoBinding EXCEPT !.op = "unbind",
                                               !.state = "succeeded"]]
      /\ UNCHANGED <<kubeVars, localVars, secret, sent, boundVars>>

BrokerFails ==
    \E id \in Ids :
      /\ Running(id)
      /\ faults < MaxFaults
      /\ faults' = faults + 1
      /\ broker' = [broker EXCEPT ![id].state = "failed"]
      /\ UNCHANGED <<kubeVars, localVars, secret, sent, edits, instance>>

\* The binding disappears from the broker without a request of ours.
BrokerLosesBinding ==
    /\ Forgets
    /\ faults < MaxFaults
    /\ faults' = faults + 1
    /\ \E id \in Ids :
         /\ broker[id].present
         /\ ~Running(id)
         /\ broker' = [broker EXCEPT ![id] = NoBinding]
    /\ UNCHANGED <<kubeVars, localVars, secret, sent, edits, instance>>

\* The instance the binding names is provisioned, by its own controller; and
\* deprovisioned, with all that was bound to it.
InstanceComes ==
    /\ ~instance
    /\ instance' = TRUE
    /\ UNCHANGED <<kubeVars, localVars, outerVars, edits, faults>>

InstanceGoes ==
    /\ instance
    /\ instance' = FALSE
    /\ broker' = [id \in Ids |-> NoBinding]
    /\ UNCHANGED <<kubeVars, localVars, secret, sent, faults>>

InstanceDeleted ==
    /\ edits < MaxEdits
    /\ edits' = edits + 1
    /\ InstanceGoes

\* A renewal date passes.
RenewalComes ==
    /\ Metadata \in {"renew", "noExpiry"}
    /\ \E id \in Ids :
         /\ broker[id].present
         /\ ~broker[id].due
         /\ broker' = [broker EXCEPT ![id].due = TRUE]
    /\ UNCHANGED <<kubeVars, localVars, secret, sent, boundVars>>

-----------------------------------------------------------------------------
(* Reconcile: the runtime reads the object, then Observe *)

\* ReconcileSuccess and ReconcileError, the Synced condition.
Synced(o) == [o EXCEPT !.status.synced = "yes"]
Erred(o)  == [o EXCEPT !.status.synced = "no"]

\* The reconcile returns: its copy of the object is dropped.
Return ==
    /\ pc' = "idle"
    /\ mem' = NoObject
    /\ memFresh' = FALSE
    /\ polled' = ""
    /\ creds' = NoName

\* Mutant: a creation that failed is left to the user too.
CreateNotSucceeded(o) == o.create \in {"pending", "failed"}

ExternalCreateIncomplete(o) == o.create = "pending"

StartReconcile ==
    /\ pc = "idle"
    /\ cache.exists
    /\ memFresh' = cacheFresh
    /\ IF ExternalCreateIncomplete(cache)
         THEN /\ pc' = "finish"
              /\ mem' = Erred([cache EXCEPT !.status.ready = "Creating"])
         ELSE /\ pc' = "observe"
              /\ mem' = cache
    /\ UNCHANGED <<kubeVars, polled, creds, outerVars, boundVars>>

IsStateInProgress(o) == o.status.lastOp = "in progress"

\* Mutant: a binding gone is an error, even once the object is deleted.
GoneIsAnError(o, r) == FALSE

\* handlePollError: gone is an answer only for a deleted object.  The async
\* deletion finalizer it removes is never there: see Unbind.
HandlePollError(o, r) == r = "gone" /\ o.deleted

PollBindingLastOperation ==
    /\ pc = "observe"
    /\ IsStateInProgress(mem)
    /\ \/ \E r \in PollReplies(mem.name) :
            /\ faults' = faults
            /\ polled' = IF r \in States THEN r ELSE ""
            /\ pc' = IF r \in States THEN "latest"
                     ELSE IF HandlePollError(mem, r) THEN "absent" ELSE "finish"
       \/ /\ faults < MaxFaults
          /\ faults' = faults + 1
          /\ polled' = ""
          /\ pc' = "finish"
    /\ mem' = IF pc' = "finish" THEN Erred(mem) ELSE mem
    /\ UNCHANGED <<kubeVars, memFresh, creds, outerVars, edits, instance>>

\* Observe's NothingToDo marks mem Available, whatever the state is.
Observe(o) == [o EXCEPT !.status.ready = "Available"]

\* Mutant: the state is set on another copy of the object.
LastOpNotKept(o, state) == o

UpdateStatusFromLastOp(o, state) == [o EXCEPT !.status.lastOp = state]

\* Mutant: an object that vanished is worked on as if it were there.
LatestWithoutCheck ==
    /\ pc = "latest"
    /\ mem' = Observe(UpdateStatusFromLastOp(cache, polled))
    /\ memFresh' = cacheFresh
    /\ pc' = "upToDate"
    /\ polled' = ""
    /\ UNCHANGED <<kubeVars, creds, outerVars, boundVars>>

\* kube.Get into the same object: what the cache has replaces mem, and the
\* polled state is applied to that.
GetLatestKubeObject ==
    /\ pc = "latest"
    /\ IF cache.exists
         THEN /\ mem' = Observe(UpdateStatusFromLastOp(cache, polled))
              /\ memFresh' = cacheFresh
              /\ pc' = "upToDate"
              /\ polled' = ""
              /\ UNCHANGED creds
         ELSE Return
    /\ UNCHANGED <<kubeVars, outerVars, boundVars>>

\* What HandleRenewalBindings makes of the metadata of a binding.
HandleRenewalBindings(b) ==
    CASE Metadata = "bare"               -> "RenewalData"
      [] Metadata = "none" \/ ~b.due     -> "NothingToDo"
      [] Metadata = "noExpiry" /\ b.due  -> "error"
      [] Metadata = "renew" /\ b.due     -> IF RotateBindings THEN "RotateBinding"
                                                              ELSE "NothingToDo"

\* MarkBindingIfExpired and, without rotation, MarkBindingAsExpiringSoon: the
\* Healthy condition they set has no lastTransitionTime.
MarkBinding(o, b, expired) ==
    IF Metadata = "renew" /\ b.due /\ (expired \/ ~RotateBindings)
      THEN [o EXCEPT !.status.untimed = TRUE] ELSE o

\* Mutant: only the presence of parameters is looked at.
NoStatusParameters(o, b) == o.params = NoParams

IsStatusParametersNotLikeSpecParameters(o, b) ==
    o.params = NoParams \/ o.params # b.params

\* Mutant: a binding with other parameters is taken for a missing one.
ObservedMismatchIsAbsent(o, b) ==
    IF HandleRenewalBindings(b) = "RotateBinding" THEN "outdated"
    ELSE IF IsStatusParametersNotLikeSpecParameters(o, b) THEN "absent"
    ELSE "upToDate"

\* The next step, given the binding GetBinding returned.
Observed(o, b) ==
    CASE HandleRenewalBindings(b) = "error"         -> "finish"
      [] HandleRenewalBindings(b) = "RenewalData"   -> "upToDate"
      [] HandleRenewalBindings(b) = "RotateBinding" -> "outdated"
      [] HandleRenewalBindings(b) = "NothingToDo"   ->
           IF IsStatusParametersNotLikeSpecParameters(o, b) THEN "finish"
                                                            ELSE "upToDate"

\* Mutant: 410, the answer for a binding whose instance is gone, is an error.
OnlyNotFoundIsGone(id) == ~broker[id].present /\ instance

\* The answer to GetBinding is 404 or 410.
IsResourceGone(id) == ~broker[id].present

\* Mutant: any error of the request means that the binding is gone.
GetBindingErrorIsGone ==
    /\ pc = "observe"
    /\ ~IsStateInProgress(mem)
    /\ \/ /\ faults' = faults
          /\ pc' = IF broker[mem.name].present
                     THEN Observed(mem, broker[mem.name]) ELSE "absent"
       \/ /\ faults < MaxFaults
          /\ faults' = faults + 1
          /\ pc' = "absent"
    /\ \E expired \in BOOLEAN :
         LET o == IF faults' = faults
                    THEN MarkBinding(mem, broker[mem.name], expired) ELSE mem
         IN  mem' = CASE pc' = "upToDate" -> Observe(o)
                      [] pc' = "finish"   -> Erred(o)
                      [] OTHER            -> o
    /\ secret' = IF pc' = "upToDate" /\ ~mem.deleted THEN mem.name ELSE secret
    /\ UNCHANGED <<kubeVars, memFresh, polled, creds, broker, sent, edits, instance>>

\* GetBinding and, unless the object is being deleted, the publication of
\* the credentials it returned.
GetBinding ==
    /\ pc = "observe"
    /\ ~IsStateInProgress(mem)
    /\ \/ /\ faults' = faults
          /\ pc' = IF IsResourceGone(mem.name) THEN "absent"
                   ELSE IF broker[mem.name].present
                     THEN Observed(mem, broker[mem.name])
                   ELSE "finish"
       \/ /\ faults < MaxFaults
          /\ faults' = faults + 1
          /\ pc' = "finish"
    /\ \E expired \in BOOLEAN :
         LET o == IF faults' = faults
                    THEN MarkBinding(mem, broker[mem.name], expired) ELSE mem
         IN  mem' = CASE pc' = "upToDate" -> Observe(o)
                      [] pc' = "finish"   -> Erred(o)
                      [] OTHER            -> o
    /\ secret' = IF pc' = "upToDate" /\ ~mem.deleted THEN mem.name ELSE secret
    /\ UNCHANGED <<kubeVars, memFresh, polled, creds, broker, sent, edits, instance>>

-----------------------------------------------------------------------------
(* Reconcile: what the runtime does with the observation *)

\* Mutant: a refused write is ignored.
UpdateObjectUnchecked(m, next) ==
    /\ pc' = next
    /\ IF memFresh THEN MainUpdate(m) ELSE mem' = m /\ UNCHANGED kubeVars

\* kube.Update of m, mem with its metadata changed, and the step after it; a
\* stale copy is refused and the rest is left to a later reconcile.
UpdateObject(m, next) ==
    IF memFresh
      THEN /\ MainUpdate(m)
           /\ pc' = next
      ELSE /\ pc' = "finish"
           /\ mem' = Erred(mem)
           /\ UNCHANGED kubeVars

RemoveFinalizer ==
    /\ pc = "absent"
    /\ mem.deleted
    /\ IF memFresh /\ mem.finalizer
         THEN /\ Store(NoObject)
              /\ sent' = ""
              /\ secret' = NoName
         ELSE UNCHANGED <<kubeVars, sent, secret>>
    /\ Return
    /\ UNCHANGED <<broker, boundVars>>

AddFinalizer ==
    /\ pc \in {"absent", "upToDate", "outdated"}
    /\ ~mem.deleted
    /\ ~mem.finalizer
    /\ UpdateObject([mem EXCEPT !.finalizer = TRUE], pc)
    /\ UNCHANGED <<memFresh, polled, creds, outerVars, boundVars>>

\* Mutant: an object being deleted is bound again.
MarkCreatePendingAnyway ==
    /\ pc = "absent"
    /\ mem.finalizer
    /\ UpdateObject([mem EXCEPT !.create = "pending"], "bind")
    /\ UNCHANGED <<memFresh, polled, creds, outerVars, boundVars>>

MarkCreatePending ==
    /\ pc = "absent"
    /\ ~mem.deleted
    /\ mem.finalizer
    /\ UpdateObject([mem EXCEPT !.create = "pending"], "bind")
    /\ UNCHANGED <<memFresh, polled, creds, outerVars, boundVars>>

\* HandleAsyncStatus
HandleAsyncStatus(o) == [o EXCEPT !.status.lastOp = "in progress"]

\* Create returned: its outcome is what the next annotation write carries.
Created(o, outcome) == [o EXCEPT !.create = outcome]

\* ConvertSpecsData: an empty string is not JSON.
ConvertSpecsData(o) == o.params # NoParams

Bind ==
    /\ pc = "bind"
    /\ pc' = "annotate"
    /\ \/ /\ ~ConvertSpecsData(mem)
          /\ mem' = Created(mem, "failed")
          /\ UNCHANGED <<creds, broker, sent, faults>>
       \/ /\ ConvertSpecsData(mem)
          /\ sent' = "create"
          /\ \E r \in Answers(BindReplies(mem.name, mem.params)) :
               /\ Answered(r)
               /\ creds' = IF r.out = "sync" THEN mem.name ELSE NoName
               /\ mem' = CASE r.out = "error" -> Created(mem, "failed")
                           [] r.out = "async" ->
                                Created(HandleAsyncStatus(mem), "succeeded")
                           [] r.out = "sync" -> Created(mem, "succeeded")
    /\ UNCHANGED <<kubeVars, memFresh, polled, secret, edits, instance>>

\* UpdateCriticalAnnotations: on a conflict the object is read again, the
\* annotations are put back on it and the write retried; the retries end.
\* Once written, the credentials Create returned are published.
UpdateCriticalAnnotations ==
    /\ pc = "annotate"
    /\ \/ /\ memFresh
          /\ Store([mem EXCEPT !.status = obj.status])
          /\ mem' = [Decoded(mem) EXCEPT
                       !.status.ready = "Creating",
                       !.status.synced = IF mem.create = "succeeded"
                                           THEN "yes" ELSE "no"]
          /\ secret' = IF creds # NoName THEN creds ELSE secret
          /\ pc' = "finish"
          /\ UNCHANGED memFresh
       \/ /\ ~memFresh
          /\ cache.exists
          /\ mem' = [cache EXCEPT !.create = mem.create, !.name = mem.name]
          /\ memFresh' = cacheFresh
          /\ UNCHANGED <<kubeVars, secret, pc>>
       \/ /\ ~memFresh
          /\ mem' = Erred([mem EXCEPT !.status.ready = "Creating"])
          /\ pc' = "finish"
          /\ UNCHANGED <<kubeVars, secret, memFresh>>
    /\ UNCHANGED <<polled, creds, broker, sent, boundVars>>

\* TriggerRotation: the new identifier becomes the external name of mem, and
\* the credentials returned are published.
Rotate ==
    /\ pc = "outdated"
    /\ ~mem.deleted
    /\ mem.finalizer
    /\ pc' = "finish"
    /\ \E new \in {id \in Uuids : broker[id] = NoBinding} :
       \E r \in Answers(RotateReplies(new, mem.name)) :
          /\ Answered(r)
          /\ mem' = LET named == Synced([mem EXCEPT !.name = new]) IN
                    CASE r.out = "error" -> Erred(mem)
                      [] r.out = "async" -> HandleAsyncStatus(named)
                      [] r.out = "sync"  -> named
          /\ secret' = IF r.out = "sync" THEN new ELSE secret
    /\ UNCHANGED <<kubeVars, memFresh, polled, creds, sent, edits, instance>>

\* Delete marks mem first.
Delete(o) == [o EXCEPT !.status.ready = "Deleting"]

\* UnBind.  After an asynchronous answer handleUnBindRequest adds a finalizer
\* to the object, which the API server forbids on an object being deleted:
\* Delete always fails then, with the status already set in mem.
Unbind ==
    /\ pc \in {"upToDate", "outdated"}
    /\ mem.deleted
    /\ pc' = "finish"
    /\ sent' = "delete"
    /\ \E r \in Answers(UnbindReplies(mem.name)) :
          /\ Answered(r)
          /\ mem' = CASE r.out = "error" -> Erred(Delete(mem))
                      [] r.out = "async" -> Erred(HandleAsyncStatus(Delete(mem)))
                      [] r.out = "sync"  -> Synced(Delete(mem))
    /\ UNCHANGED <<kubeVars, memFresh, polled, creds, secret, edits, instance>>

\* The CRD requires lastTransitionTime of every condition.
Storable(st) == ~st.untimed

\* The Status().Update every reconcile ends with; that it is refused, for a
\* conflict or by the CRD, is ignored.
FinishReconcile ==
    /\ \/ pc = "finish"
       \/ pc = "upToDate" /\ ~mem.deleted /\ mem.finalizer
    /\ IF memFresh /\ Storable(mem.status)
         THEN LET m == IF pc = "upToDate" THEN Synced(mem) ELSE mem
              IN  Store([obj EXCEPT !.status = m.status])
         ELSE UNCHANGED kubeVars
    /\ Return
    /\ UNCHANGED <<outerVars, boundVars>>

\* The provider dies, or a step outside the model fails: memory is lost.
Crash ==
    /\ pc # "idle"
    /\ faults < MaxFaults
    /\ faults' = faults + 1
    /\ Return
    /\ UNCHANGED <<kubeVars, outerVars, edits, instance>>

-----------------------------------------------------------------------------

Reconcile ==
    \/ StartReconcile \/ PollBindingLastOperation \/ GetLatestKubeObject
    \/ GetBinding \/ RemoveFinalizer \/ AddFinalizer \/ MarkCreatePending
    \/ Bind \/ UpdateCriticalAnnotations \/ Rotate \/ Unbind
    \/ FinishReconcile

User == UserCreates \/ UserEdits \/ UserDeletes

Next == Reconcile \/ Crash \/ CacheSync \/ User \/ BrokerSucceeds
        \/ BrokerFails \/ BrokerLosesBinding \/ RenewalComes
        \/ InstanceComes \/ InstanceDeleted

Spec == Init /\ [][Next]_vars

\* A reconcile is requeued within the poll interval, the informer delivers
\* every event and the broker ends what it began.
FairSpec == Spec /\ WF_vars(Reconcile) /\ WF_vars(CacheSync)
                 /\ WF_vars(BrokerSucceeds)

-----------------------------------------------------------------------------
(* Safety *)

\* BindLeavesEvidence: when the broker is asked for a binding, the stored
\* object already holds the finalizer and the "pending" mark, however old the
\* cache the reconcile started from and whatever the user did meanwhile.
BindLeavesEvidence ==
    [][Bind => obj.exists /\ obj.finalizer /\ obj.create = "pending"]_vars

\* RotateOnlyHeld: credentials are renewed only for an object that is still
\* stored and held by the finalizer: the new ones would belong to nobody.
RotateOnlyHeld ==
    [][Rotate => obj.exists /\ obj.finalizer]_vars

\* UnbindOnlyWhenDeleted: credentials are given back only while the stored
\* object is marked for deletion, never on account of the object of the same
\* name that the cache still shows.  Checked for brokers that answer at once:
\* while an asynchronous bind runs GetBinding answers 404, the finalizer is
\* dropped, and the binding then unbound may be the next object's.
UnbindOnlyWhenDeleted ==
    [][Unbind => obj.exists /\ obj.deleted]_vars

\* Lifecycle: seen from outside, the object and the requests made for it go
\* through the phases of ManagedLifecycle, as an instance's do.
L == INSTANCE ManagedLifecycle WITH
         life <- IF ~obj.exists THEN "absent"
                 ELSE IF obj.deleted THEN "leaving"
                 ELSE IF obj.finalizer THEN "held" ELSE "new",
         sent <- sent

Lifecycle == L!Spec

\* NoOrphan: with a broker that binds at once, an object that is gone leaves
\* nothing bound under its name, through crashes, lost replies and bindings
\* the broker lost; a rotated binding has another name.
NoOrphan == ~obj.exists => ~broker[Name].present

-----------------------------------------------------------------------------
(* Liveness *)

\* Neither deleted nor left to the user by an interrupted creation.
Settled == obj.exists /\ ~obj.deleted /\ obj.create # "pending"

\* The user changed the parameters of a binding made with other ones.
Mismatch ==
    /\ obj.exists
    /\ broker[obj.name].present
    /\ broker[obj.name].params # obj.params

\* The broker no longer knows of the bind that the object takes to be running.
Stranded == obj.status.lastOp = "in progress" /\ broker[obj.name] = NoBinding

\* CredentialsPublished: what the user asked for ends up bound, and the
\* secret ends up holding the credentials of that binding, after failed,
\* lost and asynchronous binds, binds before there was an instance and
\* instances that were replaced.  But a bind that was running when its
\* instance went is polled for ever (handlePollError); that ends up reported.
CredentialsPublished ==
    <>[](Settled /\ instance /\ ~Mismatch /\ ConvertSpecsData(obj) =>
           IF Stranded THEN obj.status.synced = "no"
           ELSE secret = obj.name /\ broker[obj.name].present)

\* MismatchReported: parameters that differ from those bound, or cannot be
\* bound, end up reported on the stored object: by ObserveState's
\* errStatusSpecMismatch and by Bind's errConvertBindingSpecFailed.  Checked
\* for a broker without metadata: while a binding is due for renewal what is
\* observed of it is never stored (Storable).
MismatchReported ==
    <>[](Settled /\ (Mismatch \/ ~ConvertSpecsData(obj))
           => obj.status.synced = "no")

Requests == (Bind /\ ConvertSpecsData(mem)) \/ Unbind

\* RequestsCease: once the user stops acting no bind and no unbind is repeated
\* for ever.  (Without the instance, binds are.  Rotations are another matter:
\* as the new name is lost, a binding that is due is rotated by every
\* reconcile; TriggerRotation is not called where this is checked.)
RequestsCease == <>[][instance => ~Requests]_vars

\* UneditedDeletionCompletes: a deleted object does not stay, unless its
\* creation was interrupted between its two marks or its parameters are not
\* those bound.  (ObserveState compares those of deleted objects too, fails,
\* and Delete is never called.)
UneditedDeletionCompletes ==
    []<>~obj.deleted \/ <>[](obj.create = "pending" \/ Mismatch)
=============================================================================
