-------------------- MODULE ServiceInstanceDeletionProofs --------------------
(***************************************************************************)
(* How the deletion of a ServiceInstance ends, in a reconcile that began   *)
(* with all that was stored: for every set of plans, parameters and        *)
(* contexts, every broker mode and every bound.  The inductive invariant   *)
(* is IInv and DepInv.                                                     *)
(***************************************************************************)
EXTENDS ServiceInstanceProofs

USE DEF Kinds, States, Steps

-----------------------------------------------------------------------------
(* The invariant *)

\* What the broker is once a deprovision was taken on: until the instance is
\* gone its record of that operation is not one of success.
Deprovisioning(b) ==
    /\ b.ops["provision"] # "in progress"
    /\ b.present => b.ops["deprovision"] \in {"in progress", "failed"}

\* The stored object names a deprovision only if the broker has taken one on.
StoredKeyInv ==
    obj.status.key = "deprovision" => Deprovisioning(broker) /\ sent = "delete"

\* So does a copy that can still be stored.
FreshKeyInv ==
    memFresh /\ mem.status.key = "deprovision"
        => Deprovisioning(broker) /\ sent = "delete"

\* A reconcile that began with all that was stored polls the operation the
\* stored object names, and the answer still holds when it is applied.
PollInv ==
    pc \in {"observe", "latest"} /\ inStep /\ obj.status.key = "deprovision"
        => /\ mem.status.key = "deprovision"
           /\ pc = "latest" /\ polled = "succeeded" => ~broker.present

\* Such a reconcile can remove the finalizer only on the broker's word.
AbsentInv ==
    pc = "absent" /\ inStep /\ memFresh /\ mem.status.key = "deprovision"
        => ~broker.present

DepInv == StoredKeyInv /\ FreshKeyInv /\ PollInv /\ AbsentInv

-----------------------------------------------------------------------------
(* The broker: nothing undoes a deprovision but a new creation *)

\* A reply to Update leaves an idle broker's record of the deprovision.
LEMMA UpdateKeeps ==
    ASSUME NEW b \in Brokers, Deprovisioning(b), NEW s,
           NEW r \in UpdateReplies(b, s)
    PROVE  Deprovisioning(r.b) /\ (~b.present => ~r.b.present)
<1>1. CASE Pending(b) # {} \/ ~b.present
  BY <1>1 DEF UpdateReplies
<1>2. CASE Pending(b) = {} /\ b.present
  <2> DEFINE u    == Updated(b.data, s)
             done == [b EXCEPT !.data = u]
  <2>1. r \in Accepted(b, "update", u, done)
    BY <1>2 DEF UpdateReplies
  <2>2. Deprovisioning(done)
    BY DEF Brokers, Deprovisioning
  <2>3. Deprovisioning(Begun(b, "update", u))
    BY DEF Brokers, Deprovisioning, Begun
  <2>4. r.b \in {b, done, Begun(b, "update", u)}
    BY <2>1 DEF Accepted
  <2> QED BY <1>2, <2>2, <2>3, <2>4
<1> QED BY <1>1, <1>2

\* A reply to Deprovision leaves the broker at least as far; one taken on
\* asynchronously leaves it deprovisioning whatever it was before.
LEMMA DeprovisionKeeps ==
    ASSUME NEW b, GoodBroker(b), NEW r \in DeprovisionReplies(b)
    PROVE  /\ Deprovisioning(b) \/ r.out = "async" => Deprovisioning(r.b)
           /\ ~b.present => ~r.b.present
<1>1. b \in Brokers /\ BrokerInv(b)
  BY DEF GoodBroker
<1>2. ~NoInstance.present /\ Deprovisioning(NoInstance)
  BY DEF NoInstance, NoOps, Deprovisioning
<1>3. CASE b.ops["deprovision"] = "in progress"
  <2>1. r = [b |-> b, out |-> "async"]
    BY <1>3 DEF DeprovisionReplies
  <2>2. b.ops["provision"] # "in progress"
    BY <1>1, <1>3 DEF BrokerInv
  <2>3. Deprovisioning(b)
    BY <1>3, <2>2 DEF Deprovisioning
  <2> QED BY <2>1, <2>3
<1>4. CASE b.ops["deprovision"] # "in progress" /\ Pending(b) # {}
  <2>1. r = [b |-> b, out |-> "error"]
    BY <1>4 DEF DeprovisionReplies
  <2> QED BY <2>1
<1>5. CASE Pending(b) = {} /\ ~b.present
  <2>1. b.ops["deprovision"] # "in progress"
    BY <1>5 DEF Pending
  <2>2. r = [b |-> NoInstance, out |-> "gone"]
    BY <1>5, <2>1 DEF DeprovisionReplies
  <2> QED BY <1>2, <2>2
<1>6. CASE Pending(b) = {} /\ b.present
  <2> DEFINE n == Begun(b, "deprovision", NoSpec)
  <2>1. b.ops["deprovision"] # "in progress"
    BY <1>6 DEF Pending
  <2>2. r \in Accepted(b, "deprovision", NoSpec, NoInstance)
    BY <1>6, <2>1 DEF DeprovisionReplies
  <2>3. b.ops["provision"] # "in progress"
    BY <1>6 DEF Pending
  <2>4. Deprovisioning(n)
    BY <1>1, <2>3 DEF Brokers, Deprovisioning, Begun
  <2>5. r.b \in {b, NoInstance, n} /\ (r.out = "async" => r.b \in {NoInstance, n})
    <3> HIDE DEF n
    <3>1. \/ r = [b |-> b, out |-> "error"]
          \/ \E m \in Modes : r = [b |-> IF m = "sync" THEN NoInstance ELSE n,
                                   out |-> m]
      BY <2>2 DEF Accepted, n
    <3> QED BY <3>1
  <2> QED BY <1>2, <1>6, <2>4, <2>5
<1> QED BY <1>3, <1>4, <1>5, <1>6

\* What the broker does of its own accord ends no deprovision but in success
\* or in failure.
LEMMA BrokerKeeps ==
    ASSUME GoodBroker(broker), Deprovisioning(broker),
           BrokerSucceeds \/ BrokerFails \/ BrokerLosesInstance
    PROVE  Deprovisioning(broker') /\ (~broker.present => ~broker'.present)
<1>1. broker \in Brokers /\ broker.ops["provision"] # "in progress"
  BY DEF GoodBroker, Deprovisioning
<1>2. ~NoInstance.present /\ Deprovisioning(NoInstance)
  BY DEF NoInstance, NoOps, Deprovisioning
<1>3. CASE BrokerLosesInstance
  BY <1>2, <1>3 DEF BrokerLosesInstance
<1>4. CASE BrokerFails
  <2>1. PICK k \in Pending(broker) : broker' = Ended(broker, k, "failed")
    BY <1>4 DEF BrokerFails
  <2>2. k \in Kinds
    BY <2>1 DEF Pending
  <2>3. /\ broker'.present = broker.present
        /\ broker'.ops = [broker.ops EXCEPT ![k] = "failed"]
    BY <1>1, <2>1 DEF Brokers, Ended
  <2>4. broker.ops \in [Kinds -> {""} \cup States]
    BY <1>1 DEF Brokers
  <2> QED BY <2>2, <2>3, <2>4 DEF Deprovisioning
<1>5. CASE BrokerSucceeds
  <2>1. PICK k \in Pending(broker) :
           broker' = CASE k = "provision" ->
                            [Ended(broker, k, "succeeded") EXCEPT
                               !.present = TRUE, !.data = broker.target]
                       [] k = "update" ->
                            [Ended(broker, k, "succeeded") EXCEPT
                               !.data = broker.target]
                       [] k = "deprovision" ->
                            [NoInstance EXCEPT !.ops[k] = "succeeded"]
    BY <1>5 DEF BrokerSucceeds
  <2>2. k \in {"update", "deprovision"}
    BY <1>1, <2>1 DEF Pending
  <2>3. CASE k = "update"
    <3>1. broker' = [Ended(broker, "update", "succeeded") EXCEPT
                        !.data = broker.target]
      BY <2>1, <2>3
    <3> QED BY <1>1, <3>1 DEF Brokers, Ended, Deprovisioning
  <2>4. CASE k = "deprovision"
    <3>1. broker' = [NoInstance EXCEPT !.ops["deprovision"] = "succeeded"]
      BY <2>1, <2>4
    <3> QED BY <3>1 DEF NoInstance, NoOps, Deprovisioning
  <2> QED BY <2>2, <2>3, <2>4
<1> QED BY <1>3, <1>4, <1>5

\* Answers adds the requests and replies that are lost.
LEMMA LostOrNot ==
    ASSUME NEW replies, NEW r \in Answers(replies)
    PROVE  r.b = broker \/ \E q \in replies : r.b = q.b
BY DEF Answers

\* Deprovisioning lasts, and a broker without the instance stays without it,
\* until the next request to create one.
LEMMA BrokerKept ==
    ASSUME IInv, [Next]_vars, Deprovisioning(broker), ~Provision
    PROVE  Deprovisioning(broker') /\ (~broker.present => ~broker'.present)
<1>1. GoodBroker(broker) /\ broker \in Brokers
  BY DEF IInv, TypeOK, GoodBroker
<1>2. CASE UNCHANGED broker
  BY <1>2
<1>3. CASE BrokerSucceeds \/ BrokerFails \/ BrokerLosesInstance
  BY <1>1, <1>3, BrokerKeeps
<1>4. CASE Update
  <2>1. UNCHANGED broker \/ \E r \in Answers(UpdateReplies(broker, mem.spec)) :
                               broker' = r.b
    BY <1>4 DEF Update, Answered
  <2>2. CASE \E r \in Answers(UpdateReplies(broker, mem.spec)) : broker' = r.b
    <3>1. PICK r \in Answers(UpdateReplies(broker, mem.spec)) : broker' = r.b
      BY <2>2
    <3>2. r.b = broker \/ \E q \in UpdateReplies(broker, mem.spec) : r.b = q.b
      BY LostOrNot
    <3> QED BY <1>1, <3>1, <3>2, UpdateKeeps
  <2> QED BY <2>1, <2>2
<1>5. CASE Deprovision
  <2>1. PICK r \in Answers(DeprovisionReplies(broker)) : broker' = r.b
    BY <1>5 DEF Deprovision, Answered
  <2>2. r.b = broker \/ \E q \in DeprovisionReplies(broker) : r.b = q.b
    BY LostOrNot
  <2> QED BY <1>1, <2>1, <2>2, DeprovisionKeeps
<1>6. CASE /\ ~Update /\ ~Deprovision /\ ~BrokerSucceeds /\ ~BrokerFails
           /\ ~BrokerLosesInstance
  <2>1. UNCHANGED broker
    BY <1>6
       DEF Next, Reconcile, StartReconcile, PollLastOperation,
           GetLatestKubeObject, SavePolledStatus,
           HandleDeletionWithActiveBindings, GetInstance, RemoveFinalizer,
           AddFinalizer, MarkCreatePending, SaveProvisioned,
           UpdateCriticalAnnotations, SaveUpdated, SaveDeprovisioned,
           FinishReconcile, Crash, CacheSync, User, UserCreates, UserEdits,
           UserDeletes, vars
  <2> QED BY <2>1
<1> QED BY <1>3, <1>4, <1>5, <1>6

-----------------------------------------------------------------------------
(* The key: where the copies of the object get it *)

\* Setting the Ready condition leaves the key.
LEMMA ReadyKey ==
    ASSUME NEW o \in LiveObjects, NEW r
    PROVE  [o EXCEPT !.status.ready = r].status.key = o.status.key
BY DEF LiveObjects, Statuses

\* A reply leaves the key or puts that of its operation.
LEMMA AnswerKey ==
    ASSUME NEW o \in LiveObjects, NEW out, NEW k
    PROVE  UpdateStatusFromOSB(o, out, k).status.key \in {o.status.key, k}
<1>1. KeyAfter(o.status, k) \in {o.status.key, k}
  BY DEF KeyAfter
<1> QED BY <1>1 DEF LiveObjects, Statuses, UpdateStatusFromOSB

\* A write of everything but the status leaves the stored key and brings it
\* into memory.
LEMMA MainKey ==
    ASSUME IInv, memFresh, NEW m \in LiveObjects, MainUpdate(m)
    PROVE  obj'.status.key = obj.status.key /\ mem'.status.key = obj.status.key
<1>1. obj \in LiveObjects
  BY ObjLive DEF IInv, FreshInv
<1>2. obj' = [m EXCEPT !.status = obj.status] /\ mem' = Decoded(m)
  BY DEF MainUpdate, Store
<1>3. obj'.status = obj.status
  BY <1>2 DEF LiveObjects
<1>4. Decoded(m).status.key = obj.status.key
  BY <1>1 DEF Decoded, LiveObjects, Statuses
<1> QED BY <1>2, <1>3, <1>4

\* Every write of the object's metadata is one of these.
LEMMA MetadataKey ==
    ASSUME IInv, AddFinalizer \/ MarkCreatePending
    PROVE  \/ UNCHANGED <<obj, mem, memFresh>>
           \/ /\ obj'.status.key = obj.status.key
              /\ mem'.status.key = obj.status.key
<1>1. mem \in LiveObjects
  BY MemLive DEF IInv, AddFinalizer, MarkCreatePending
<1>2. CASE ~memFresh
  BY <1>2 DEF AddFinalizer, MarkCreatePending, UpdateObject, kubeVars
<1>3. CASE memFresh
  <2>1. /\ [mem EXCEPT !.finalizer = TRUE] \in LiveObjects
        /\ [mem EXCEPT !.create = "pending"] \in LiveObjects
    BY <1>1, LiveFields
  <2>2. \/ MainUpdate([mem EXCEPT !.finalizer = TRUE])
        \/ MainUpdate([mem EXCEPT !.create = "pending"])
    BY <1>3 DEF AddFinalizer, MarkCreatePending, UpdateObject
  <2> QED BY <1>3, <2>1, <2>2, MainKey
<1> QED BY <1>2, <1>3

\* The user writes no key: a new object has none.
LEMMA UserKey ==
    ASSUME IInv, User
    PROVE  obj'.status.key \in {obj.status.key, ""}
<1>1. NoObject.status.key = "" /\ \A s : NewObject(s).status.key = ""
  BY DEF NoObject, NewObject, NoStatus
<1>2. CASE UserCreates
  BY <1>1, <1>2 DEF UserCreates, Store
<1>3. CASE UserEdits
  <2>1. obj \in LiveObjects /\ \E s \in Specs : obj' = [obj EXCEPT !.spec = s]
    BY <1>3, ObjLive DEF IInv, UserEdits, Store
  <2>2. obj'.status = obj.status
    BY <2>1 DEF LiveObjects
  <2> QED BY <2>2
<1>4. CASE UserDeletes
  <2>1. /\ obj \in LiveObjects
        /\ obj' = [obj EXCEPT !.deleted = TRUE] \/ obj' = NoObject
    BY <1>4, ObjLive DEF IInv, UserDeletes, Store
  <2>2. CASE obj' = [obj EXCEPT !.deleted = TRUE]
    <3>1. obj'.status = obj.status
      BY <2>1, <2>2 DEF LiveObjects
    <3> QED BY <3>1
  <2> QED BY <1>1, <2>1, <2>2
<1> QED BY <1>2, <1>3, <1>4 DEF User

\* The key that is stored was stored before, or in a copy that was current.
LEMMA KeyWritten ==
    ASSUME IInv, [Next]_vars, obj'.status.key = "deprovision"
    PROVE  \/ obj.status.key = "deprovision"
           \/ memFresh /\ mem.status.key = "deprovision"
<1>1. CASE UNCHANGED obj
  BY <1>1
<1>2. CASE memFresh /\ StatusUpdate
  BY <1>2, StatusWritten
<1>3. NoObject.status.key = ""
  BY DEF NoObject, NoStatus
<1>4. CASE User
  BY <1>4, UserKey
<1>5. CASE AddFinalizer \/ MarkCreatePending
  BY <1>5, MetadataKey
<1>6. CASE UpdateCriticalAnnotations /\ memFresh
  <2>1. mem \in LiveObjects /\ obj' = [mem EXCEPT !.status = obj.status]
    BY <1>6, MemLive DEF IInv, UpdateCriticalAnnotations, Store
  <2>2. obj'.status = obj.status
    BY <2>1 DEF LiveObjects
  <2> QED BY <2>2
<1>7. CASE RemoveFinalizer
  BY <1>3, <1>7, Released
<1>8. CASE Reconcile
  BY <1>1, <1>2, <1>5, <1>6, <1>7, <1>8
     DEF Reconcile, StartReconcile, PollLastOperation, GetLatestKubeObject,
         SavePolledStatus, HandleDeletionWithActiveBindings, GetInstance,
         Provision, SaveProvisioned, UpdateCriticalAnnotations, Update,
         SaveUpdated, Deprovision, SaveDeprovisioned, FinishReconcile, kubeVars
<1>9. CASE ~Reconcile
  BY <1>1, <1>4, <1>9
     DEF Next, Crash, CacheSync, BrokerSucceeds, BrokerFails,
         BrokerLosesInstance, vars, kubeVars
<1> QED BY <1>8, <1>9

\* The key of a copy that is current was the stored one, or that of a copy
\* that was current, or the broker has just taken on the deprovision.
LEMMA KeyRead ==
    ASSUME IInv, [Next]_vars, memFresh', mem'.status.key = "deprovision"
    PROVE  \/ obj.status.key = "deprovision"
           \/ memFresh /\ mem.status.key = "deprovision"
           \/ Deprovision /\ Deprovisioning(broker')
<1>1. CASE UNCHANGED <<mem, memFresh>>
  BY <1>1
<1>2. pc # "idle" => mem \in LiveObjects
  BY MemLive DEF IInv
<1>3. cacheFresh => cache = obj
  BY DEF IInv, StoredInv
<1>4. cache.exists => cache \in LiveObjects
  BY CacheLive DEF IInv
<1>5. CASE StartReconcile
  <2>1. cache \in LiveObjects /\ cacheFresh
    BY <1>4, <1>5 DEF StartReconcile
  <2>2. mem' = cache \/ mem' = [cache EXCEPT !.status.ready = "Creating"]
    BY <1>5 DEF StartReconcile
  <2>3. [cache EXCEPT !.status.ready = "Creating"].status.key = cache.status.key
    BY <2>1, ReadyKey
  <2> QED BY <1>3, <2>1, <2>2, <2>3
<1>6. CASE GetLatestKubeObject
  <2>1. /\ cache \in LiveObjects /\ cacheFresh
        /\ mem' = UpdateStatusFromLastOp(cache, polled)
    BY <1>4, <1>6 DEF GetLatestKubeObject, Return
  <2>2. mem'.status.key = cache.status.key
    BY <2>1 DEF UpdateStatusFromLastOp, LiveObjects, Statuses
  <2> QED BY <1>3, <2>1, <2>2
<1>7. CASE SavePolledStatus \/ GetInstance
  <2>1. /\ mem \in LiveObjects /\ memFresh
        /\ mem' = mem \/ mem' = [mem EXCEPT !.status.ready = "Available"]
    BY <1>2, <1>7 DEF SavePolledStatus, GetInstance
  <2>2. [mem EXCEPT !.status.ready = "Available"].status.key = mem.status.key
    BY <2>1, ReadyKey
  <2> QED BY <2>1, <2>2
<1>8. CASE AddFinalizer \/ MarkCreatePending
  BY <1>8, MetadataKey
<1>9. CASE Provision \/ SaveProvisioned \/ Update
  <2>1. mem \in LiveObjects /\ memFresh
    BY <1>2, <1>9 DEF Provision, SaveProvisioned, Update
  <2>2. \/ mem' \in {mem, Created(mem, "failed"), Created(mem, "succeeded")}
        \/ \E out : \E k \in {"provision", "update"} :
              mem' = UpdateStatusFromOSB(mem, out, k)
    BY <1>9 DEF Provision, SaveProvisioned, Update
  <2>3. \A c \in {"failed", "succeeded"} : Created(mem, c).status = mem.status
    BY <2>1, CreatedObject
  <2>4. \A out : \A k \in {"provision", "update"} :
           UpdateStatusFromOSB(mem, out, k).status.key \in {mem.status.key, k}
    BY <2>1, AnswerKey
  <2>5. mem'.status.key \in {mem.status.key, "provision", "update"}
    BY <2>2, <2>3, <2>4
  <2> QED BY <2>1, <2>5
<1>10. CASE UpdateCriticalAnnotations
  <2>1. mem \in LiveObjects
    BY <1>2, <1>10 DEF UpdateCriticalAnnotations
  <2>2. CASE memFresh
    <3>1. mem' = [Decoded(mem) EXCEPT !.status.ready = "Creating"]
      BY <1>10, <2>2 DEF UpdateCriticalAnnotations
    <3>2. obj \in LiveObjects
      BY <2>2, ObjLive DEF IInv, FreshInv
    <3>3. mem'.status.key = obj.status.key
      BY <2>1, <3>1, <3>2 DEF Decoded, LiveObjects, Statuses
    <3> QED BY <3>3
  <2>3. CASE ~memFresh
    <3>1. /\ cache \in LiveObjects /\ cacheFresh
          /\ mem' = [cache EXCEPT !.create = mem.create]
      BY <1>4, <1>10, <2>3 DEF UpdateCriticalAnnotations
    <3>2. mem'.status = cache.status
      BY <3>1 DEF LiveObjects
    <3> QED BY <1>3, <3>1, <3>2
  <2> QED BY <2>2, <2>3
<1>11. CASE Deprovision
  <2> DEFINE deleting == [mem EXCEPT !.status.ready = "Deleting"]
  <2>1. mem \in LiveObjects /\ memFresh
    BY <1>2, <1>11 DEF Deprovision
  <2>2. PICK r \in Answers(DeprovisionReplies(broker)) :
           broker' = r.b /\ (r.out # "async" => mem' = deleting)
    BY <1>11 DEF Deprovision, Answered
  <2>3. CASE r.out # "async"
    <3>1. deleting.status.key = mem.status.key
      BY <2>1, ReadyKey
    <3> QED BY <2>1, <2>2, <2>3, <3>1
  <2>4. CASE r.out = "async"
    <3>1. \E q \in DeprovisionReplies(broker) : r.b = q.b /\ q.out = "async"
      BY <2>4 DEF Answers
    <3>2. GoodBroker(broker)
      BY DEF IInv, TypeOK, GoodBroker
    <3>3. Deprovisioning(r.b)
      BY <3>1, <3>2, DeprovisionKeeps
    <3> QED BY <1>11, <2>2, <3>3
  <2> QED BY <2>3, <2>4
<1>12. CASE Reconcile
  BY <1>1, <1>5, <1>6, <1>7, <1>8, <1>9, <1>10, <1>11, <1>12
     DEF Reconcile, PollLastOperation, HandleDeletionWithActiveBindings,
         RemoveFinalizer, Return, SaveUpdated, SaveDeprovisioned,
         FinishReconcile
<1>13. CASE ~Reconcile
  BY <1>1, <1>13
     DEF Next, Crash, Return, CacheSync, User, UserCreates, UserEdits,
         UserDeletes, BrokerSucceeds, BrokerFails, BrokerLosesInstance, vars,
         localVars
<1> QED BY <1>12, <1>13

-----------------------------------------------------------------------------
(* IInv and DepInv are inductive *)

\* While a deprovision is named where it can be acted upon nothing is created,
\* and only the removal of the object forgets the request.
LEMMA StillDeprovisioning ==
    ASSUME IInv, DepInv, [Next]_vars,
           \/ obj.status.key = "deprovision"
           \/ memFresh /\ mem.status.key = "deprovision",
           \/ obj'.status.key = "deprovision"
           \/ memFresh' /\ mem'.status.key = "deprovision"
    PROVE  /\ Deprovisioning(broker') /\ sent' = "delete"
           /\ ~broker.present => ~broker'.present
<1>1. Deprovisioning(broker) /\ sent = "delete"
  BY DEF DepInv, StoredKeyInv, FreshKeyInv
<1>2. ~Provision
  BY <1>1 DEF IInv, StepInv, Provision
<1>3. Deprovisioning(broker') /\ (~broker.present => ~broker'.present)
  BY <1>1, <1>2, BrokerKept
<1>4. sent' = "delete"
  <2>1. CASE Deprovision
    BY <2>1 DEF Deprovision
  <2>2. CASE RemoveFinalizer
    <3>1. NoObject.status.key = ""
      BY DEF NoObject, NoStatus
    <3> QED BY <1>1, <2>2, <3>1, Released
  <2>3. CASE ~Deprovision /\ ~RemoveFinalizer
    BY <1>1, <1>2, <2>3, SteadyRequests
  <2> QED BY <2>1, <2>2, <2>3
<1> QED BY <1>3, <1>4

\* A key that names a deprovision, stored or about to be, still names one the
\* broker has taken on (KeyWritten, KeyRead).
LEMMA KeysStep ==
    ASSUME IInv, DepInv, [Next]_vars
    PROVE  StoredKeyInv' /\ FreshKeyInv'
<1>1. StoredKeyInv'
  <2> SUFFICES ASSUME obj'.status.key = "deprovision"
               PROVE  Deprovisioning(broker') /\ sent' = "delete"
    BY DEF StoredKeyInv
  <2> QED BY KeyWritten, StillDeprovisioning
<1>2. FreshKeyInv'
  <2> SUFFICES ASSUME memFresh', mem'.status.key = "deprovision"
               PROVE  Deprovisioning(broker') /\ sent' = "delete"
    BY DEF FreshKeyInv
  <2>1. CASE Deprovision /\ Deprovisioning(broker')
    BY <2>1 DEF Deprovision
  <2>2. CASE \/ obj.status.key = "deprovision"
             \/ memFresh /\ mem.status.key = "deprovision"
    BY <2>2, StillDeprovisioning
  <2> QED BY <2>1, <2>2, KeyRead
<1> QED BY <1>1, <1>2

\* A poll tells of a deprovision that it succeeded, or that it is not known,
\* only when the instance is gone.
LEMMA PollTells ==
    ASSUME Deprovisioning(broker),
           NEW r \in PollReplies(broker, "deprovision"),
           r \in {"succeeded", "gone"}
    PROVE  ~broker.present
BY DEF PollReplies, Deprovisioning

\* A reconcile that starts from the stored object polls what it names.
LEMMA PollStep ==
    ASSUME IInv, DepInv, [Next]_vars
    PROVE  PollInv'
<1> SUFFICES ASSUME pc' \in {"observe", "latest"}, inStep',
                    obj'.status.key = "deprovision"
             PROVE  /\ mem'.status.key = "deprovision"
                    /\ pc' = "latest" /\ polled' = "succeeded"
                         => ~broker'.present
  BY DEF PollInv
<1>1. CASE StartReconcile
  <2>1. mem' = cache /\ pc' = "observe" /\ obj' = obj /\ cacheFresh
    BY <1>1 DEF StartReconcile, kubeVars
  <2>2. cache = obj
    BY <2>1 DEF IInv, StoredInv
  <2> QED BY <2>1, <2>2
<1>2. CASE PollLastOperation
  <2>1. /\ pc = "observe" /\ inStep
        /\ obj' = obj /\ mem' = mem /\ broker' = broker
    BY <1>2 DEF PollLastOperation, kubeVars
  <2>2. mem.status.key = "deprovision" /\ Deprovisioning(broker)
    BY <2>1 DEF DepInv, PollInv, StoredKeyInv
  <2>3. polled' = "succeeded" => polled' \in PollReplies(broker, "deprovision")
    BY <1>2, <2>2 DEF PollLastOperation
  <2> QED BY <2>1, <2>2, <2>3, PollTells
<1>3. CASE ~Reconcile /\ ~Crash
  <2>1. mem' = mem /\ pc' = pc /\ polled' = polled /\ inStep' = inStep
    BY <1>3
       DEF Next, CacheSync, User, UserCreates, UserEdits, UserDeletes,
           BrokerSucceeds, BrokerFails, BrokerLosesInstance, vars, localVars
  <2>2. obj.status.key = "deprovision"
    <3>1. CASE User
      BY <3>1, UserKey
    <3>2. CASE ~User
      <4>1. obj' = obj
        BY <1>3, <3>2
           DEF Next, CacheSync, BrokerSucceeds, BrokerFails,
               BrokerLosesInstance, vars, kubeVars
      <4> QED BY <4>1
    <3> QED BY <3>1, <3>2
  <2>3. /\ mem.status.key = "deprovision"
        /\ pc = "latest" /\ polled = "succeeded" => ~broker.present
    BY <2>1, <2>2 DEF DepInv, PollInv
  <2>4. ~broker.present => ~broker'.present
    BY <2>2, StillDeprovisioning
  <2> QED BY <2>1, <2>3, <2>4
<1>4. CASE Reconcile /\ ~StartReconcile /\ ~PollLastOperation
  BY <1>4
     DEF Reconcile, GetLatestKubeObject, SavePolledStatus,
         HandleDeletionWithActiveBindings, GetInstance, RemoveFinalizer,
         AddFinalizer, MarkCreatePending, UpdateObject, Provision,
         SaveProvisioned, UpdateCriticalAnnotations, Update, SaveUpdated,
         Deprovision, SaveDeprovisioned, FinishReconcile, Return,
         CompareSpecWithOSB
<1>5. CASE Crash
  BY <1>5 DEF Crash, Return
<1> QED BY <1>1, <1>2, <1>3, <1>4, <1>5

\* A reconcile gets as far as removing the finalizer of an object that names a
\* deprovision only on the broker's word.
LEMMA AbsentStep ==
    ASSUME IInv, IInv', DepInv, [Next]_vars
    PROVE  AbsentInv'
<1> SUFFICES ASSUME pc' = "absent", inStep', memFresh',
                    mem'.status.key = "deprovision"
             PROVE  ~broker'.present
  BY DEF AbsentInv
<1>1. CASE PollLastOperation
  <2>1. /\ memFresh /\ mem' = mem /\ broker' = broker
        /\ "gone" \in PollReplies(broker, mem.status.key)
    BY <1>1 DEF PollLastOperation
  <2>2. Deprovisioning(broker)
    BY <2>1 DEF DepInv, FreshKeyInv
  <2>3. "gone" \in PollReplies(broker, "deprovision")
    BY <2>1
  <2> QED BY <2>1, <2>2, <2>3, PollTells
<1>2. CASE GetLatestKubeObject
  <2>1. /\ cache.exists /\ cacheFresh
        /\ mem' = UpdateStatusFromLastOp(cache, polled) /\ IsDeletable(mem')
        /\ pc = "latest" /\ inStep /\ broker' = broker
    BY <1>2 DEF GetLatestKubeObject, Return
  <2>2. cache \in LiveObjects /\ cache = obj
    BY <2>1, CacheLive DEF IInv, StoredInv
  <2>3. mem'.status.key = obj.status.key /\ mem'.status.lastOp = polled
    BY <2>1, <2>2 DEF UpdateStatusFromLastOp, LiveObjects, Statuses
  <2>4. polled = "succeeded"
    BY <2>1, <2>3 DEF IsDeletable
  <2> QED BY <2>1, <2>3, <2>4 DEF DepInv, PollInv
<1>3. CASE HandleDeletionWithActiveBindings \/ GetInstance
  BY <1>3 DEF HandleDeletionWithActiveBindings, GetInstance, HasLastOperation
<1>4. CASE AddFinalizer
  <2>1. mem.deleted = FALSE /\ mem \in LiveObjects
    BY <1>4, MemLive, LiveFields DEF AddFinalizer, IInv
  <2>2. mem'.deleted
    BY DEF IInv, DeletionOpsOnlyOnDeleted, NamesDeletion
  <2>3. memFresh /\ MainUpdate([mem EXCEPT !.finalizer = TRUE])
    BY <1>4 DEF AddFinalizer, UpdateObject
  <2>4. LET m == [mem EXCEPT !.finalizer = TRUE] IN
        m \in LiveObjects /\ m.deleted = mem.deleted /\ m.spec = mem.spec
    BY <2>1 DEF LiveObjects
  <2>5. obj'.deleted = obj.deleted /\ mem'.deleted = obj'.deleted
    BY <2>3, <2>4, ObjectWritten
  <2> QED BY <2>1, <2>2, <2>3, <2>5 DEF IInv, FreshInv
<1>5. CASE ~Reconcile /\ ~Crash
  <2>1. pc' = pc /\ inStep' = inStep /\ (memFresh' => memFresh /\ mem' = mem)
    BY <1>5
       DEF Next, CacheSync, User, UserCreates, UserEdits, UserDeletes,
           BrokerSucceeds, BrokerFails, BrokerLosesInstance, vars, localVars
  <2>2. ~broker.present /\ (~broker.present => ~broker'.present)
    BY <2>1, StillDeprovisioning DEF DepInv, AbsentInv
  <2> QED BY <2>2
<1>6. CASE /\ Reconcile /\ ~PollLastOperation /\ ~GetLatestKubeObject
           /\ ~HandleDeletionWithActiveBindings /\ ~GetInstance /\ ~AddFinalizer
  BY <1>6
     DEF Reconcile, StartReconcile, SavePolledStatus, RemoveFinalizer,
         MarkCreatePending, UpdateObject, Provision, SaveProvisioned,
         UpdateCriticalAnnotations, Update, SaveUpdated, Deprovision,
         SaveDeprovisioned, FinishReconcile, Return
<1>7. CASE Crash
  BY <1>7 DEF Crash, Return
<1> QED BY <1>1, <1>2, <1>3, <1>4, <1>5, <1>6, <1>7

\* DepInv holds before the first object is created.
LEMMA InitDepInv == Init => DepInv
<1>1. NoObject.status.key = ""
  BY DEF NoObject, NoStatus
<1> QED
  BY <1>1 DEF Init, DepInv, StoredKeyInv, FreshKeyInv, PollInv, AbsentInv

-----------------------------------------------------------------------------
(* The property *)

\* Once the stored object names a deprovision operation, RemoveFinalizer takes
\* it away only when the broker has the instance no more, in a reconcile that
\* began with all that was stored (ObserveState,
\* HandleLastOperationInProgress).
THEOREM Finalizers == Spec => FinalizerUntilDeprovisioned
<1>1. Init => IInv /\ DepInv
  BY InitIInv, InitDepInv
<1>2. IInv /\ DepInv /\ [Next]_vars => (IInv /\ DepInv)'
  <2> SUFFICES ASSUME IInv, DepInv, [Next]_vars
               PROVE  IInv' /\ DepInv'
    OBVIOUS
  <2>1. IInv'
    BY NextStep
  <2>2. StoredKeyInv' /\ FreshKeyInv'
    BY KeysStep
  <2>3. PollInv' /\ AbsentInv'
    BY <2>1, PollStep, AbsentStep
  <2> QED BY <2>1, <2>2, <2>3 DEF DepInv
<1>3. IInv /\ DepInv /\ [Next]_vars =>
        [obj.finalizer /\ obj.status.key = "deprovision" /\ ~obj'.finalizer
           => ~broker.present \/ ~inStep]_vars
  <2> SUFFICES ASSUME IInv, DepInv, [Next]_vars, obj.finalizer, inStep,
                      obj.status.key = "deprovision", ~obj'.finalizer
               PROVE  ~broker.present
    OBVIOUS
  <2>1. ~UserCreates
    BY ObjLive, LiveFields DEF IInv, UserCreates
  <2>2. ~UserDeletes
    <3> SUFFICES ASSUME UserDeletes PROVE FALSE
      OBVIOUS
    <3>1. obj \in LiveObjects /\ obj' = [obj EXCEPT !.deleted = TRUE]
      BY ObjLive DEF IInv, UserDeletes, Store
    <3> QED BY <3>1 DEF LiveObjects
  <2>3. ~AddFinalizer
    BY Held
  <2>4. RemoveFinalizer
    BY <2>1, <2>2, <2>3, SteadyObject
  <2>5. pc = "absent" /\ memFresh /\ mem.status.key = "deprovision"
    BY <2>4, Released
  <2> QED BY <2>5 DEF DepInv, AbsentInv
<1> QED BY <1>1, <1>2, <1>3, PTL DEF Spec, FinalizerUntilDeprovisioned
=============================================================================
