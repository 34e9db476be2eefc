------------------------ MODULE ServiceInstanceProofs ------------------------
(***************************************************************************)
(* Safety of the ServiceInstance controller for every set of plans,        *)
(* parameters and contexts, every broker mode and every bound.  The        *)
(* inductive invariant is IInv of ServiceInstance.                         *)
(***************************************************************************)
EXTENDS ServiceInstance, TLAPS

USE DEF Kinds, States, Steps

-----------------------------------------------------------------------------
(* Lemmas on the copies of the object *)

\* A live object stays one when a part of it is replaced by one of its type.
LEMMA LiveFields ==
    ASSUME NEW o \in LiveObjects
    PROVE  /\ o.exists /\ o.exists \in BOOLEAN
           /\ o.deleted \in BOOLEAN
           /\ o.finalizer \in BOOLEAN
           /\ o.spec \in Specs
           /\ o.status \in Statuses
           /\ o.status.key \in {""} \cup Kinds
           /\ \A st \in Statuses : [o EXCEPT !.status = st] \in LiveObjects
           /\ \A s \in Specs : [o EXCEPT !.spec = s] \in LiveObjects
           /\ [o EXCEPT !.finalizer = TRUE] \in LiveObjects
           /\ [o EXCEPT !.deleted = TRUE] \in LiveObjects
           /\ \A c \in {"", "pending", "succeeded", "failed"} :
                 [o EXCEPT !.create = c] \in LiveObjects
BY DEF LiveObjects, Statuses, Specs

\* Setting the Ready condition (SetConditions) touches nothing the invariants
\* compare.
LEMMA ReadyField ==
    ASSUME NEW o \in LiveObjects,
           NEW r \in {"", "Creating", "Available", "Unavailable", "Deleting"}
    PROVE  LET m == [o EXCEPT !.status.ready = r] IN
           /\ m \in LiveObjects
           /\ m.deleted = o.deleted
           /\ m.finalizer = o.finalizer
           /\ m.spec = o.spec
           /\ m.status.key = o.status.key
           /\ NamesDeletion(m) <=> NamesDeletion(o)
<1>1. [o EXCEPT !.status.ready = r] \in LiveObjects
  BY DEF LiveObjects, Statuses
<1>2. [o.status EXCEPT !.ready = r] \in Statuses
      /\ [o.status EXCEPT !.ready = r].key = o.status.key
      /\ [o.status EXCEPT !.ready = r].lastOp = o.status.lastOp
  BY DEF LiveObjects, Statuses
<1>3. LET m == [o EXCEPT !.status.ready = r] IN
         /\ m.deleted = o.deleted
         /\ m.finalizer = o.finalizer
         /\ m.spec = o.spec
         /\ m.status = [o.status EXCEPT !.ready = r]
  BY DEF LiveObjects
<1> QED BY <1>1, <1>2, <1>3 DEF NamesDeletion

\* UpdateStatusFromLastOp yields an object again.
LEMMA PolledObject ==
    ASSUME NEW o \in LiveObjects, NEW s \in States
    PROVE  UpdateStatusFromLastOp(o, s) \in LiveObjects
BY DEF LiveObjects, Statuses, UpdateStatusFromLastOp

\* UpdateStatusFromOSB leaves mark, finalizer and spec alone and never makes
\* the object name a deletion.
LEMMA AnsweredObject ==
    ASSUME NEW o \in LiveObjects, NEW out, NEW k \in Kinds \ {"deprovision"}
    PROVE  LET m == UpdateStatusFromOSB(o, out, k) IN
           /\ m \in LiveObjects
           /\ m.deleted = o.deleted
           /\ m.finalizer = o.finalizer
           /\ m.spec = o.spec
           /\ NamesDeletion(m) => NamesDeletion(o)
<1> DEFINE m == UpdateStatusFromOSB(o, out, k)
<1>1. CASE out = "async"
  <2>1. KeyAfter(o.status, k) \in {o.status.key, k}
    BY DEF KeyAfter
  <2>2. m \in LiveObjects
    <3> HIDE DEF Kinds, States
    <3>1. KeyAfter(o.status, k) \in {""} \cup Kinds
      BY <2>1 DEF LiveObjects, Statuses
    <3>2. "in progress" \in States
      BY DEF States
    <3> QED
      BY <1>1, <3>1, <3>2 DEF LiveObjects, Statuses, Specs, UpdateStatusFromOSB
  <2>3. m.deleted = o.deleted /\ m.finalizer = o.finalizer /\ m.spec = o.spec
    BY <1>1 DEF LiveObjects, UpdateStatusFromOSB
  <2>4. m.status.key \in {o.status.key, k} /\ m.status.lastOp = "in progress"
    BY <1>1, <2>1 DEF LiveObjects, Statuses, UpdateStatusFromOSB
  <2> HIDE DEF m
  <2>5. NamesDeletion(m) => NamesDeletion(o)
    BY <2>4 DEF NamesDeletion
  <2> QED BY <2>2, <2>3, <2>5 DEF m
<1>2. CASE out # "async"
  <2>1. m \in LiveObjects
    BY <1>2 DEF LiveObjects, Statuses, Specs, UpdateStatusFromOSB
  <2>2. m.deleted = o.deleted /\ m.finalizer = o.finalizer /\ m.spec = o.spec
    BY <1>2 DEF LiveObjects, UpdateStatusFromOSB
  <2>3. m.status.key = o.status.key /\ m.status.lastOp = "succeeded"
    BY <1>2 DEF LiveObjects, Statuses, UpdateStatusFromOSB
  <2> HIDE DEF m
  <2>4. NamesDeletion(m) => NamesDeletion(o)
    BY <2>3 DEF NamesDeletion
  <2> QED BY <2>1, <2>2, <2>4 DEF m
<1> QED BY <1>1, <1>2

\* UpdateStatusForAsyncDeletion leaves mark, finalizer and spec alone.
LEMMA DeprovisionedObject ==
    ASSUME NEW o \in LiveObjects
    PROVE  LET m == UpdateStatusForAsyncDeletion(o) IN
           /\ m \in LiveObjects
           /\ m.deleted = o.deleted
           /\ m.finalizer = o.finalizer
           /\ m.spec = o.spec
<1>1. KeyAfter(o.status, "deprovision") \in {"deprovision", o.status.key}
  BY DEF KeyAfter
<1>2. UpdateStatusForAsyncDeletion(o) \in LiveObjects
  BY <1>1 DEF LiveObjects, Statuses, UpdateStatusForAsyncDeletion
<1> QED BY <1>2 DEF LiveObjects, UpdateStatusForAsyncDeletion

\* The outcome annotation leaves everything else alone.
LEMMA CreatedObject ==
    ASSUME NEW o \in LiveObjects, NEW c \in {"succeeded", "failed"}
    PROVE  LET m == Created(o, c) IN
           /\ m \in LiveObjects
           /\ m.deleted = o.deleted
           /\ m.finalizer = o.finalizer
           /\ m.spec = o.spec
           /\ m.status = o.status
BY DEF LiveObjects, Created

-----------------------------------------------------------------------------
(* Lemmas on the broker *)

GoodBroker(b) == b \in Brokers /\ BrokerInv(b)

\* An idle broker may begin an operation.
LEMMA BegunBroker ==
    ASSUME NEW b, GoodBroker(b), Pending(b) = {},
           NEW k \in Kinds, NEW t \in Specs \cup {NoSpec},
           k # "deprovision" => t \in Specs
    PROVE  GoodBroker(Begun(b, k, t))
BY DEF GoodBroker, Brokers, BrokerInv, Pending, Begun

\* The operation in progress may end.
LEMMA EndedBroker ==
    ASSUME NEW b, GoodBroker(b), NEW k \in Pending(b),
           NEW state \in {"succeeded", "failed"}
    PROVE  GoodBroker(Ended(b, k, state))
BY DEF GoodBroker, Brokers, BrokerInv, Pending, Ended

\* A broker without the instance is a good one.
LEMMA EmptyBroker == GoodBroker(NoInstance)
BY DEF GoodBroker, Brokers, BrokerInv, NoInstance, NoOps

\* Whichever way a request is taken on, the broker stays good.
LEMMA AcceptedReplies ==
    ASSUME NEW b, GoodBroker(b), Pending(b) = {},
           NEW k \in Kinds, NEW t \in Specs \cup {NoSpec},
           k # "deprovision" => t \in Specs,
           NEW done, GoodBroker(done),
           NEW r \in Accepted(b, k, t, done)
    PROVE  GoodBroker(r.b)
BY BegunBroker DEF Accepted

\* No reply to Provision breaks the broker.
LEMMA ProvisionedBroker ==
    ASSUME NEW b, GoodBroker(b), NEW s \in Specs, NEW r \in ProvisionReplies(b, s)
    PROVE  GoodBroker(r.b)
<1> DEFINE clean == [b EXCEPT !.ops = NoOps]
           done  == [NoInstance EXCEPT !.present = TRUE, !.data = s]
<1>1. CASE Pending(b) # {} \/ b.present
  <2>1. \E out : r = [b |-> b, out |-> out]
    BY <1>1 DEF ProvisionReplies
  <2> QED BY <2>1
<1>2. CASE Pending(b) = {} /\ ~b.present
  <2>1. GoodBroker(clean) /\ Pending(clean) = {}
    BY DEF GoodBroker, Brokers, BrokerInv, NoOps, Pending
  <2>2. GoodBroker(done)
    BY DEF GoodBroker, Brokers, BrokerInv, NoInstance, NoOps
  <2>3. r \in Accepted(clean, "provision", s, done)
    BY <1>2 DEF ProvisionReplies
  <2> HIDE DEF clean, done
  <2> QED BY <2>1, <2>2, <2>3, AcceptedReplies
<1> QED BY <1>1, <1>2

\* No reply to Update breaks the broker.
LEMMA UpdatedBroker ==
    ASSUME NEW b, GoodBroker(b), NEW s \in Specs, NEW r \in UpdateReplies(b, s)
    PROVE  GoodBroker(r.b)
<1> DEFINE u    == Updated(b.data, s)
           done == [b EXCEPT !.data = u]
<1>1. CASE Pending(b) # {} \/ ~b.present
  <2>1. r.b = b
    BY <1>1 DEF UpdateReplies
  <2> QED BY <2>1
<1>2. CASE Pending(b) = {} /\ b.present
  <2>1. u \in Specs
    BY <1>2 DEF Updated, GoodBroker, BrokerInv, Specs
  <2>2. GoodBroker(done)
    BY <2>1 DEF GoodBroker, Brokers, BrokerInv
  <2>3. r \in Accepted(b, "update", u, done)
    BY <1>2 DEF UpdateReplies
  <2> HIDE DEF u, done
  <2> QED BY <1>2, <2>1, <2>2, <2>3, AcceptedReplies
<1> QED BY <1>1, <1>2

\* No reply to Deprovision breaks the broker.
LEMMA DeprovisionedBroker ==
    ASSUME NEW b, GoodBroker(b), NEW r \in DeprovisionReplies(b)
    PROVE  GoodBroker(r.b)
<1>1. CASE Pending(b) # {} \/ ~b.present
  <2>1. \E c \in {b, NoInstance} : \E out : r = [b |-> c, out |-> out]
    BY <1>1 DEF DeprovisionReplies, Pending
  <2> QED BY <2>1, EmptyBroker
<1>2. CASE Pending(b) = {} /\ b.present
  <2>1. r \in Accepted(b, "deprovision", NoSpec, NoInstance)
    BY <1>2 DEF DeprovisionReplies, Pending
  <2> QED BY <1>2, <2>1, EmptyBroker, AcceptedReplies
<1> QED BY <1>1, <1>2

\* Whatever is lost on the way, the broker stays in a good state.
LEMMA AnsweredBroker ==
    ASSUME GoodBroker(broker), faults \in 0..MaxFaults,
           NEW replies, \A q \in replies : GoodBroker(q.b),
           NEW r \in Answers(replies), Answered(r)
    PROVE  GoodBroker(broker') /\ faults' \in 0..MaxFaults
<1>1. GoodBroker(r.b) /\ r.fault \in 0..1
  BY DEF Answers
<1>2. GoodBroker(broker')
  BY <1>1 DEF Answered
<1>3. faults' \in 0..MaxFaults
  BY <1>1, ConstantsAssumption DEF Answered
<1> QED BY <1>2, <1>3

-----------------------------------------------------------------------------
(* IInv is inductive *)

\* The absent object is neither marked nor held.
LEMMA Nothing ==
    /\ ~NoObject.exists /\ ~NoObject.deleted /\ ~NoObject.finalizer
    /\ ~NamesDeletion(NoObject)
BY Zenon DEF NoObject, NoStatus, NamesDeletion

\* IInv holds before the first object is created.
LEMMA InitIInv == Init => IInv
<1> SUFFICES ASSUME Init PROVE IInv
  OBVIOUS
<1>1. GoodBroker(broker)
  BY EmptyBroker DEF Init
<1>2. TypeOK
  <2>1. edits \in 0..MaxEdits /\ faults \in 0..MaxFaults
    <3>1. edits = 0 /\ faults = 0
      BY DEF Init
    <3> QED BY <3>1, ConstantsAssumption
  <2>2. broker \in Brokers
    BY <1>1 DEF GoodBroker
  <2> HIDE DEF Kinds, States
  <2> QED BY <2>1, <2>2 DEF Init, TypeOK
<1>3. StoredInv /\ FreshInv /\ StepInv /\ DeletionOpsOnlyOnDeleted
  BY Nothing DEF Init, StoredInv, FreshInv, StepInv, DeletionOpsOnlyOnDeleted
<1> QED BY <1>1, <1>2, <1>3 DEF IInv, GoodBroker

\* What the copies are, once they are known to exist.
LEMMA MemLive ==
    ASSUME TypeOK, pc # "idle"
    PROVE  mem \in LiveObjects
BY Nothing DEF TypeOK

\* A cached object that exists is an object.
LEMMA CacheLive ==
    ASSUME TypeOK, cache.exists
    PROVE  cache \in LiveObjects
BY Nothing DEF TypeOK

\* A stored object of which anything is set exists.
LEMMA ObjLive ==
    ASSUME TypeOK, obj.exists \/ obj.deleted \/ obj.finalizer
    PROVE  obj \in LiveObjects
BY Nothing DEF TypeOK

\* One fault more stays within the bound.
LEMMA MoreFaults ==
    ASSUME faults \in 0..MaxFaults
    PROVE  faults < MaxFaults => faults + 1 \in 0..MaxFaults
BY ConstantsAssumption

\* The informer catches up: the copy it had was of an earlier version, and a
\* reconcile in flight keeps its own.
LEMMA CacheSyncStep == IInv /\ CacheSync => IInv'
<1> SUFFICES ASSUME IInv, CacheSync PROVE IInv'
  OBVIOUS
<1> USE DEF CacheSync, localVars
<1>1. TypeOK' BY DEF IInv, TypeOK
<1>2. BrokerInv(broker)' BY DEF IInv, BrokerInv
<1>3. StoredInv' BY DEF IInv, StoredInv
<1>4. FreshInv' BY DEF IInv, FreshInv
<1>5. StepInv' BY DEF IInv, StepInv
<1>6. DeletionOpsOnlyOnDeleted'
  BY DEF IInv, DeletionOpsOnlyOnDeleted, NamesDeletion
<1> QED BY <1>1, <1>2, <1>3, <1>4, <1>5, <1>6 DEF IInv

\* The reconcile starts from the cache and is as fresh as the cache is.
LEMMA StartReconcileStep == IInv /\ StartReconcile => IInv'
<1> SUFFICES ASSUME IInv, StartReconcile PROVE IInv'
  OBVIOUS
<1> USE DEF StartReconcile, kubeVars
<1> DEFINE marked == [cache EXCEPT !.status.ready = "Creating"]
<1>1. cache \in LiveObjects
  BY CacheLive DEF IInv
<1>2. /\ marked \in LiveObjects
      /\ marked.deleted = cache.deleted
      /\ marked.finalizer = cache.finalizer
      /\ marked.spec = cache.spec
      /\ NamesDeletion(marked) <=> NamesDeletion(cache)
  BY <1>1, ReadyField
<1> HIDE DEF marked
<1>3. mem' \in {cache, marked}
  BY DEF marked
<1>4. pc' = "observe" => mem' = cache
  OBVIOUS
<1>5. TypeOK'
  <2>1. mem' \in LiveObjects /\ mem'.exists
    BY <1>1, <1>2, <1>3, LiveFields
  <2> QED BY <2>1 DEF IInv, TypeOK
<1>6. BrokerInv(broker)' BY DEF IInv, BrokerInv
<1>7. StoredInv' BY DEF IInv, StoredInv
<1>8. FreshInv'
  BY <1>1, <1>2, <1>3, <1>4 DEF IInv, StoredInv, FreshInv
<1>9. StepInv' BY DEF IInv, StepInv
<1>10. DeletionOpsOnlyOnDeleted'
  BY <1>2, <1>3 DEF IInv, DeletionOpsOnlyOnDeleted, NamesDeletion
<1> QED BY <1>5, <1>6, <1>7, <1>8, <1>9, <1>10 DEF IInv

\* A poll answers with a state or with gone; nothing is written.
LEMMA PollLastOperationStep == IInv /\ PollLastOperation => IInv'
<1> SUFFICES ASSUME IInv, PollLastOperation PROVE IInv'
  OBVIOUS
<1> USE DEF PollLastOperation, kubeVars
<1>1. mem \in LiveObjects /\ mem.status.key \in Kinds
  BY MemLive, LiveFields DEF IInv, HasLastOperation
<1>2. broker.ops \in [Kinds -> {""} \cup States]
  BY DEF IInv, TypeOK, Brokers
<1>3. \A r \in PollReplies(broker, mem.status.key) : r = "gone" \/ r \in States
  BY <1>1, <1>2 DEF PollReplies
<1>4. TypeOK'
  <2>1. faults' \in 0..MaxFaults
    BY MoreFaults DEF IInv, TypeOK
  <2>2. pc' \in {"absent", "latest", "finish"} /\ polled' \in {""} \cup States
        /\ (pc' = "latest" => polled' \in States)
    BY <1>3
  <2> QED BY <2>1, <2>2 DEF IInv, TypeOK
<1>5. BrokerInv(broker)' BY DEF IInv, BrokerInv
<1>6. StoredInv' BY DEF IInv, StoredInv
<1>7. FreshInv' BY DEF IInv, FreshInv
<1>8. StepInv' BY DEF IInv, StepInv
<1>9. DeletionOpsOnlyOnDeleted'
  BY DEF IInv, DeletionOpsOnlyOnDeleted, NamesDeletion
<1> QED BY <1>4, <1>5, <1>6, <1>7, <1>8, <1>9 DEF IInv

\* What an accepted write of the status leaves of the stored object.
LEMMA StatusWritten ==
    ASSUME IInv, memFresh, StatusUpdate
    PROVE  /\ obj' \in LiveObjects
           /\ obj'.exists
           /\ obj'.deleted = obj.deleted
           /\ obj'.finalizer = obj.finalizer
           /\ obj'.create = obj.create
           /\ obj'.spec = obj.spec
           /\ obj'.status = mem.status
           /\ NamesDeletion(obj') => obj'.deleted
           /\ cache' = cache
           /\ cacheFresh' \in BOOLEAN
           /\ cacheFresh' => cache' = obj'
<1>1. obj \in LiveObjects /\ mem \in LiveObjects /\ mem.deleted = obj.deleted
  BY ObjLive, MemLive DEF IInv, FreshInv
<1>2. obj' = [obj EXCEPT !.status = mem.status]
  BY DEF StatusUpdate, Store
<1>3. /\ obj' \in LiveObjects
      /\ obj'.status = mem.status
      /\ obj'.deleted = obj.deleted
      /\ obj'.finalizer = obj.finalizer
      /\ obj'.create = obj.create
      /\ obj'.spec = obj.spec
  BY <1>1, <1>2 DEF LiveObjects
<1>4. obj'.exists
  BY <1>3, LiveFields
<1>5. NamesDeletion(obj') => obj'.deleted
  BY <1>1, <1>3 DEF IInv, DeletionOpsOnlyOnDeleted, NamesDeletion
<1>6. cache' = cache /\ cacheFresh' \in BOOLEAN /\ (cacheFresh' => cache' = obj')
  BY DEF StatusUpdate, Store, IInv, TypeOK, StoredInv
<1> QED BY <1>3, <1>4, <1>5, <1>6

\* What an accepted write of everything but the status leaves, of the stored
\* object and of the copy the answer is decoded into.
LEMMA ObjectWritten ==
    ASSUME IInv, memFresh, NEW m \in LiveObjects, MainUpdate(m),
           m.deleted = mem.deleted, m.spec = mem.spec
    PROVE  /\ obj' \in LiveObjects
           /\ obj'.exists
           /\ obj'.deleted = obj.deleted
           /\ obj'.finalizer = m.finalizer
           /\ obj'.create = m.create
           /\ NamesDeletion(obj') => obj'.deleted
           /\ mem' \in LiveObjects
           /\ mem'.exists
           /\ mem'.deleted = obj'.deleted
           /\ mem'.finalizer = obj'.finalizer
           /\ mem'.spec = obj'.spec
           /\ mem'.status.key = obj'.status.key
           /\ NamesDeletion(mem') => mem'.deleted
           /\ cache' = cache
           /\ cacheFresh' \in BOOLEAN
           /\ cacheFresh' => cache' = obj'
<1> DEFINE r  == IF obj.status.ready = "" THEN m.status.ready
                                          ELSE obj.status.ready
           st == [obj.status EXCEPT !.ready = r]
<1>1. obj \in LiveObjects /\ mem.deleted = obj.deleted
  BY ObjLive DEF IInv, FreshInv
<1>2. obj' = [m EXCEPT !.status = obj.status]
  BY DEF MainUpdate, Store
<1>3. mem' = [m EXCEPT !.status = st]
  BY DEF MainUpdate, Decoded
<1>4. st \in Statuses /\ st.key = obj.status.key /\ st.lastOp = obj.status.lastOp
  <2>1. obj.status \in Statuses /\ m.status \in Statuses
    BY <1>1, LiveFields
  <2>2. r \in {"", "Creating", "Available", "Unavailable", "Deleting"}
    BY <2>1 DEF Statuses
  <2> HIDE DEF r
  <2> QED BY <2>1, <2>2 DEF Statuses
<1> HIDE DEF r, st
<1>5. /\ obj' \in LiveObjects
      /\ obj'.status = obj.status
      /\ obj'.deleted = m.deleted
      /\ obj'.finalizer = m.finalizer
      /\ obj'.create = m.create
      /\ obj'.spec = m.spec
  BY <1>1, <1>2 DEF LiveObjects
<1>6. /\ mem' \in LiveObjects
      /\ mem'.status = st
      /\ mem'.deleted = m.deleted
      /\ mem'.finalizer = m.finalizer
      /\ mem'.spec = m.spec
  BY <1>3, <1>4 DEF LiveObjects
<1>7. obj'.exists /\ mem'.exists
  BY <1>5, <1>6, LiveFields
<1>8. (NamesDeletion(obj') => obj'.deleted) /\ (NamesDeletion(mem') => mem'.deleted)
  BY <1>1, <1>4, <1>5, <1>6 DEF IInv, DeletionOpsOnlyOnDeleted, NamesDeletion
<1>9. cache' = cache /\ cacheFresh' \in BOOLEAN /\ (cacheFresh' => cache' = obj')
  BY DEF MainUpdate, Store, IInv, TypeOK, StoredInv
<1> QED BY <1>1, <1>4, <1>5, <1>6, <1>7, <1>8, <1>9

\* After the poll the cache replaces mem; the key may be another one by then.
LEMMA GetLatestKubeObjectStep == IInv /\ GetLatestKubeObject => IInv'
<1> SUFFICES ASSUME IInv, GetLatestKubeObject PROVE IInv'
  OBVIOUS
<1> USE DEF GetLatestKubeObject, kubeVars
<1>1. CASE ~cache.exists
  <2>1. mem' = NoObject /\ pc' = "idle" /\ memFresh' = FALSE /\ polled' = ""
        /\ inStep' = FALSE
    BY <1>1 DEF Return
  <2>2. TypeOK' BY <2>1 DEF IInv, TypeOK
  <2>3. BrokerInv(broker)' BY DEF IInv, BrokerInv
  <2>4. StoredInv' BY DEF IInv, StoredInv
  <2>5. FreshInv' /\ StepInv' BY <2>1 DEF FreshInv, StepInv
  <2>6. DeletionOpsOnlyOnDeleted'
    BY <2>1, Nothing DEF IInv, DeletionOpsOnlyOnDeleted, NamesDeletion
  <2> QED BY <2>2, <2>3, <2>4, <2>5, <2>6 DEF IInv
<1>2. CASE cache.exists
  <2>1. cache \in LiveObjects /\ polled \in States
    BY <1>2, CacheLive DEF IInv, TypeOK
  <2>2. /\ mem' = UpdateStatusFromLastOp(cache, polled)
        /\ memFresh' = cacheFresh
        /\ pc' \in {"absent", "savePolled"}
        /\ polled' = ""
        /\ inStep' = inStep
    BY <1>2
  <2>3. /\ mem' \in LiveObjects
        /\ mem'.deleted = cache.deleted
        /\ mem'.finalizer = cache.finalizer
        /\ mem'.spec = cache.spec
        /\ mem'.status.key = cache.status.key
        /\ mem'.status.lastOp = polled
    <3>1. mem' \in LiveObjects
      BY <2>1, <2>2, PolledObject
    <3>2. /\ mem'.deleted = cache.deleted
          /\ mem'.finalizer = cache.finalizer
          /\ mem'.spec = cache.spec
      BY <2>1, <2>2 DEF UpdateStatusFromLastOp, LiveObjects
    <3>3. mem'.status.key = cache.status.key /\ mem'.status.lastOp = polled
      BY <2>1, <2>2 DEF UpdateStatusFromLastOp, LiveObjects, Statuses
    <3> QED BY <3>1, <3>2, <3>3
  <2>4. TypeOK'
    <3>1. mem'.exists BY <2>3, LiveFields
    <3> QED BY <2>2, <2>3, <3>1 DEF IInv, TypeOK
  <2>5. BrokerInv(broker)' BY DEF IInv, BrokerInv
  <2>6. StoredInv' BY DEF IInv, StoredInv
  <2>7. FreshInv' BY <1>2, <2>2, <2>3 DEF IInv, StoredInv, FreshInv
  <2>8. StepInv' BY <2>2 DEF StepInv
  <2>9. DeletionOpsOnlyOnDeleted'
    BY <2>1, <2>3 DEF IInv, DeletionOpsOnlyOnDeleted, NamesDeletion
  <2> QED BY <2>4, <2>5, <2>6, <2>7, <2>8, <2>9 DEF IInv
<1> QED BY <1>1, <1>2

\* The polled state is saved from a current copy only; that is when a mark for
\* deletion in mem becomes one of the stored object (StepInv).
LEMMA SavePolledStatusStep == IInv /\ SavePolledStatus => IInv'
<1> SUFFICES ASSUME IInv, SavePolledStatus PROVE IInv'
  OBVIOUS
<1> USE DEF SavePolledStatus
<1>1. BrokerInv(broker)' BY DEF IInv, BrokerInv
<1>2. CASE ~memFresh
  <2> USE <1>2 DEF kubeVars
  <2>1. TypeOK' BY DEF IInv, TypeOK
  <2>2. StoredInv' BY DEF IInv, StoredInv
  <2>3. FreshInv' /\ StepInv' BY DEF FreshInv, StepInv
  <2>4. DeletionOpsOnlyOnDeleted'
    BY DEF IInv, DeletionOpsOnlyOnDeleted, NamesDeletion
  <2> QED BY <1>1, <2>1, <2>2, <2>3, <2>4 DEF IInv
<1>3. CASE memFresh
  <2> DEFINE m == [mem EXCEPT !.status.ready = "Available"]
  <2>1. StatusUpdate /\ mem' = m /\ pc' = "upToDate" /\ memFresh' = memFresh
    BY <1>3
  <2>2. mem \in LiveObjects
    BY MemLive DEF IInv
  <2>3. /\ m \in LiveObjects
        /\ m.exists
        /\ m.deleted = mem.deleted
        /\ m.finalizer = mem.finalizer
        /\ m.spec = mem.spec
        /\ NamesDeletion(m) <=> NamesDeletion(mem)
    BY <2>2, ReadyField, LiveFields
  <2> HIDE DEF m
  <2>4. /\ mem.deleted = obj.deleted
        /\ mem.finalizer = obj.finalizer
        /\ mem.spec = obj.spec
    BY <1>3 DEF IInv, FreshInv
  <2>5. TypeOK' BY <1>3, <2>1, <2>3, StatusWritten DEF IInv, TypeOK
  <2>6. StoredInv' BY <1>3, <2>1, StatusWritten DEF IInv, StoredInv
  <2>7. FreshInv' BY <1>3, <2>1, <2>3, <2>4, StatusWritten DEF FreshInv
  <2>8. StepInv' BY <1>3, <2>1, <2>3, <2>4, StatusWritten DEF StepInv
  <2>9. DeletionOpsOnlyOnDeleted'
    BY <1>3, <2>1, <2>3, StatusWritten
       DEF IInv, DeletionOpsOnlyOnDeleted, NamesDeletion
  <2> QED BY <1>1, <2>5, <2>6, <2>7, <2>8, <2>9 DEF IInv
<1> QED BY <1>2, <1>3

\* A save of the status that a conflict may refuse changes nothing that the
\* invariant says of the stored object.
LEMMA SaveOrConflict ==
    ASSUME IInv, IF memFresh THEN StatusUpdate ELSE UNCHANGED kubeVars,
           sent' = sent
    PROVE  /\ obj' \in LiveObjects \cup {NoObject}
           /\ cache' = cache
           /\ cacheFresh' \in BOOLEAN
           /\ obj'.deleted = obj.deleted
           /\ obj'.finalizer = obj.finalizer
           /\ obj'.create = obj.create
           /\ NamesDeletion(obj') => obj'.deleted
           /\ memFresh => /\ obj'.exists
                          /\ obj'.spec = obj.spec
                          /\ obj'.status = mem.status
           /\ StoredInv'
<1>1. CASE memFresh
  <2>1. StatusUpdate
    BY <1>1
  <2> QED BY <1>1, <2>1, StatusWritten DEF IInv, StoredInv
<1>2. CASE ~memFresh
  BY <1>2 DEF kubeVars, IInv, TypeOK, StoredInv, DeletionOpsOnlyOnDeleted,
              NamesDeletion
<1> QED BY <1>1, <1>2 DEF IInv, TypeOK

\* A step that saves the status, keeps its copy and goes on.
LEMMA PlainSave ==
    ASSUME IInv, IF memFresh THEN StatusUpdate ELSE UNCHANGED kubeVars,
           UNCHANGED <<mem, memFresh, polled, inStep, broker, sent, edits, faults>>,
           pc # "idle", pc' \in {"absent", "finish"}
    PROVE  IInv'
<1>1. TypeOK' BY SaveOrConflict DEF IInv, TypeOK
<1>2. BrokerInv(broker)' BY DEF IInv, BrokerInv
<1>3. StoredInv' BY SaveOrConflict
<1>4. FreshInv' BY SaveOrConflict DEF IInv, FreshInv
<1>5. StepInv' BY DEF StepInv
<1>6. DeletionOpsOnlyOnDeleted'
  BY SaveOrConflict DEF IInv, DeletionOpsOnlyOnDeleted, NamesDeletion
<1> QED BY <1>1, <1>2, <1>3, <1>4, <1>5, <1>6 DEF IInv

\* HandleDeletionWithActiveBindings is one plain save.
LEMMA HandleDeletionStep == IInv /\ HandleDeletionWithActiveBindings => IInv'
<1> SUFFICES ASSUME IInv, HandleDeletionWithActiveBindings PROVE IInv'
  OBVIOUS
<1>1. /\ IF memFresh THEN StatusUpdate ELSE UNCHANGED kubeVars
      /\ UNCHANGED <<mem, memFresh, polled, inStep, broker, sent, edits, faults>>
      /\ pc # "idle" /\ pc' \in {"absent", "finish"}
  BY DEF HandleDeletionWithActiveBindings
<1> QED BY <1>1, PlainSave

\* The save after Update is a plain one.
LEMMA SaveUpdatedStep == IInv /\ SaveUpdated => IInv'
<1> SUFFICES ASSUME IInv, SaveUpdated PROVE IInv'
  OBVIOUS
<1>1. /\ IF memFresh THEN StatusUpdate ELSE UNCHANGED kubeVars
      /\ UNCHANGED <<mem, memFresh, polled, inStep, broker, sent, edits, faults>>
      /\ pc # "idle" /\ pc' \in {"absent", "finish"}
  BY DEF SaveUpdated
<1> QED BY <1>1, PlainSave

\* The save after Deprovision is a plain one.
LEMMA SaveDeprovisionedStep == IInv /\ SaveDeprovisioned => IInv'
<1> SUFFICES ASSUME IInv, SaveDeprovisioned PROVE IInv'
  OBVIOUS
<1>1. /\ IF memFresh THEN StatusUpdate ELSE UNCHANGED kubeVars
      /\ UNCHANGED <<mem, memFresh, polled, inStep, broker, sent, edits, faults>>
      /\ pc # "idle" /\ pc' \in {"absent", "finish"}
  BY DEF SaveDeprovisioned
<1> QED BY <1>1, PlainSave

\* A reconcile that ends, with or without a last save, or dies.
LEMMA Returned ==
    ASSUME IInv, Return,
           IF memFresh THEN StatusUpdate \/ UNCHANGED kubeVars
                       ELSE UNCHANGED kubeVars,
           UNCHANGED <<broker, sent, edits>>,
           faults' \in 0..MaxFaults, polled' \in {polled, ""}
    PROVE  IInv'
<1>1. mem' = NoObject /\ memFresh' = FALSE /\ pc' = "idle" /\ inStep' = FALSE
  BY DEF Return
<1>2. CASE UNCHANGED kubeVars
  <2> USE <1>2 DEF kubeVars
  <2>1. TypeOK' BY <1>1 DEF IInv, TypeOK
  <2>2. BrokerInv(broker)' BY DEF IInv, BrokerInv
  <2>3. StoredInv' BY DEF IInv, StoredInv
  <2>4. FreshInv' /\ StepInv' BY <1>1 DEF FreshInv, StepInv
  <2>5. DeletionOpsOnlyOnDeleted'
    BY <1>1, Nothing DEF IInv, DeletionOpsOnlyOnDeleted, NamesDeletion
  <2> QED BY <2>1, <2>2, <2>3, <2>4, <2>5 DEF IInv
<1>3. CASE memFresh /\ StatusUpdate
  <2>1. TypeOK' BY <1>1, <1>3, StatusWritten DEF IInv, TypeOK
  <2>2. BrokerInv(broker)' BY DEF IInv, BrokerInv
  <2>3. StoredInv' BY <1>3, StatusWritten DEF IInv, StoredInv
  <2>4. FreshInv' /\ StepInv' BY <1>1 DEF FreshInv, StepInv
  <2>5. DeletionOpsOnlyOnDeleted'
    BY <1>1, <1>3, StatusWritten, Nothing
       DEF IInv, DeletionOpsOnlyOnDeleted, NamesDeletion
  <2> QED BY <2>1, <2>2, <2>3, <2>4, <2>5 DEF IInv
<1> QED BY <1>2, <1>3

\* The last save of a reconcile, and its return.
LEMMA FinishReconcileStep == IInv /\ FinishReconcile => IInv'
<1> SUFFICES ASSUME IInv, FinishReconcile PROVE IInv'
  OBVIOUS
<1>1. /\ Return
      /\ IF memFresh THEN StatusUpdate \/ UNCHANGED kubeVars
                     ELSE UNCHANGED kubeVars
      /\ UNCHANGED <<broker, sent, edits>>
      /\ polled' \in {polled, ""}
  BY DEF FinishReconcile
<1>2. faults' \in 0..MaxFaults
  BY DEF IInv, TypeOK, FinishReconcile
<1> QED BY <1>1, <1>2, Returned

\* A crash returns without a save.
LEMMA CrashStep == IInv /\ Crash => IInv'
<1> SUFFICES ASSUME IInv, Crash PROVE IInv'
  OBVIOUS
<1>1. /\ Return
      /\ IF memFresh THEN StatusUpdate \/ UNCHANGED kubeVars
                     ELSE UNCHANGED kubeVars
      /\ UNCHANGED <<broker, sent, edits>>
      /\ polled' \in {polled, ""}
  BY DEF Crash
<1>2. faults' \in 0..MaxFaults
  BY MoreFaults DEF IInv, TypeOK, Crash
<1> QED BY <1>1, <1>2, Returned

\* The finalizer comes off, and the object goes, from a current copy only.
LEMMA RemoveFinalizerStep == IInv /\ RemoveFinalizer => IInv'
<1> SUFFICES ASSUME IInv, RemoveFinalizer PROVE IInv'
  OBVIOUS
<1> USE DEF RemoveFinalizer
<1>1. CASE memFresh /\ mem.finalizer
  <2>1. /\ mem' = NoObject /\ memFresh' = FALSE /\ pc' = "idle"
        /\ inStep' = FALSE
        /\ obj' = NoObject /\ cache' = cache /\ sent' = ""
        /\ cacheFresh' = (cacheFresh /\ NoObject = obj)
    BY <1>1 DEF Return, Store
  <2>2. TypeOK' BY <2>1 DEF IInv, TypeOK
  <2>3. BrokerInv(broker)' BY DEF IInv, BrokerInv
  <2>4. StoredInv' BY <2>1, Nothing DEF IInv, StoredInv
  <2>5. FreshInv' /\ StepInv' BY <2>1 DEF FreshInv, StepInv
  <2>6. DeletionOpsOnlyOnDeleted'
    BY <2>1, Nothing DEF IInv, DeletionOpsOnlyOnDeleted, NamesDeletion
  <2> QED BY <2>2, <2>3, <2>4, <2>5, <2>6 DEF IInv
<1>2. CASE ~(memFresh /\ mem.finalizer)
  <2>1. /\ Return
        /\ IF memFresh THEN StatusUpdate \/ UNCHANGED kubeVars
                       ELSE UNCHANGED kubeVars
        /\ UNCHANGED <<broker, sent, edits>>
        /\ polled' \in {polled, ""}
    BY <1>2
  <2>2. faults' \in 0..MaxFaults
    BY DEF IInv, TypeOK
  <2> QED BY <2>1, <2>2, Returned
<1> QED BY <1>1, <1>2

\* GetInstance only chooses the next step and sets a condition.
LEMMA GetInstanceStep == IInv /\ GetInstance => IInv'
<1> SUFFICES ASSUME IInv, GetInstance PROVE IInv'
  OBVIOUS
<1> USE DEF GetInstance
<1> DEFINE m == [mem EXCEPT !.status.ready = "Available"]
<1>1. mem \in LiveObjects
  BY MemLive DEF IInv
<1>2. /\ m \in LiveObjects
      /\ m.exists
      /\ m.deleted = mem.deleted
      /\ m.finalizer = mem.finalizer
      /\ m.spec = mem.spec
      /\ m.status.key = mem.status.key
      /\ NamesDeletion(m) <=> NamesDeletion(mem)
  BY <1>1, ReadyField, LiveFields
<1>3. mem' \in {mem, m}
  OBVIOUS
<1> HIDE DEF m
<1>4. pc' \in {"upToDate", "outdated", "absent", "finish"}
  BY DEF CompareSpecWithOSB
<1>5. TypeOK'
  <2>1. faults' \in 0..MaxFaults
    BY MoreFaults DEF IInv, TypeOK
  <2> QED BY <1>1, <1>2, <1>3, <1>4, <2>1, LiveFields DEF IInv, TypeOK, kubeVars
<1>6. BrokerInv(broker)' BY DEF IInv, BrokerInv
<1>7. StoredInv' BY DEF IInv, StoredInv, kubeVars
<1>8. FreshInv' BY <1>2, <1>3, <1>4 DEF IInv, FreshInv, kubeVars
<1>9. StepInv' BY <1>2, <1>3, <1>4 DEF StepInv
<1>10. DeletionOpsOnlyOnDeleted'
  BY <1>2, <1>3 DEF IInv, DeletionOpsOnlyOnDeleted, NamesDeletion, kubeVars
<1> QED BY <1>5, <1>6, <1>7, <1>8, <1>9, <1>10 DEF IInv

\* A refused write of the object ends the reconcile; the rest is left alone.
LEMMA Refused ==
    ASSUME IInv, pc # "idle", pc' \in {"finish", "saveUpdated"},
           UNCHANGED <<kubeVars, memFresh, polled, inStep, sent, edits>>,
           mem' \in LiveObjects, mem'.deleted = mem.deleted,
           mem'.finalizer = mem.finalizer, mem'.spec = mem.spec,
           NamesDeletion(mem') => mem'.deleted,
           GoodBroker(broker'), faults' \in 0..MaxFaults
    PROVE  IInv'
<1>1. TypeOK' BY LiveFields DEF IInv, TypeOK, kubeVars, GoodBroker
<1>2. BrokerInv(broker)' BY DEF GoodBroker, BrokerInv
<1>3. StoredInv' BY DEF IInv, StoredInv, kubeVars
<1>4. FreshInv' BY DEF IInv, FreshInv, kubeVars
<1>5. StepInv' BY DEF StepInv
<1>6. DeletionOpsOnlyOnDeleted'
  BY DEF IInv, DeletionOpsOnlyOnDeleted, NamesDeletion, kubeVars
<1> QED BY <1>1, <1>2, <1>3, <1>4, <1>5, <1>6 DEF IInv

\* A refused write of the object ends the reconcile.
LEMMA RefusedSame ==
    ASSUME IInv, pc # "idle", pc' = "finish",
           UNCHANGED <<kubeVars, mem, memFresh, polled, inStep, broker,
                       sent, edits, faults>>
    PROVE  IInv'
<1>1. mem \in LiveObjects
  BY MemLive DEF IInv
<1>2. GoodBroker(broker') /\ faults' \in 0..MaxFaults
  BY DEF IInv, TypeOK, GoodBroker
<1>3. NamesDeletion(mem') => mem'.deleted
  BY DEF IInv, DeletionOpsOnlyOnDeleted, NamesDeletion
<1> QED BY <1>1, <1>2, <1>3, Refused

\* The finalizer is written from a current copy, or the reconcile ends.
LEMMA AddFinalizerStep == IInv /\ AddFinalizer => IInv'
<1> SUFFICES ASSUME IInv, AddFinalizer PROVE IInv'
  OBVIOUS
<1> DEFINE m == [mem EXCEPT !.finalizer = TRUE]
<1>1. CASE ~memFresh
  <2>1. /\ pc # "idle" /\ pc' = "finish"
        /\ UNCHANGED <<kubeVars, mem, memFresh, polled, inStep, broker,
                       sent, edits, faults>>
    BY <1>1 DEF AddFinalizer, UpdateObject
  <2> QED BY <2>1, RefusedSame
<1>2. CASE memFresh
  <2>1. mem \in LiveObjects
    BY MemLive DEF IInv, AddFinalizer
  <2>2. /\ m \in LiveObjects
        /\ m.deleted = mem.deleted
        /\ m.spec = mem.spec
        /\ m.finalizer
    BY <2>1 DEF LiveObjects
  <2>3. /\ MainUpdate(m)
        /\ pc' = pc
        /\ pc \in {"absent", "upToDate", "outdated"}
        /\ ~mem.deleted
        /\ UNCHANGED <<memFresh, polled, inStep, broker, sent, edits, faults>>
    BY <1>2 DEF AddFinalizer, UpdateObject
  <2> HIDE DEF m
  <2>4. TypeOK' BY <1>2, <2>2, <2>3, ObjectWritten DEF IInv, TypeOK
  <2>5. BrokerInv(broker)' BY <2>3 DEF IInv, BrokerInv
  <2>6. StoredInv' BY <1>2, <2>2, <2>3, ObjectWritten DEF IInv, StoredInv
  <2>7. FreshInv' BY <1>2, <2>2, <2>3, ObjectWritten DEF FreshInv
  <2>8. StepInv' BY <1>2, <2>2, <2>3, ObjectWritten DEF StepInv
  <2>9. DeletionOpsOnlyOnDeleted'
    BY <1>2, <2>2, <2>3, ObjectWritten
       DEF IInv, DeletionOpsOnlyOnDeleted, NamesDeletion
  <2> QED BY <2>4, <2>5, <2>6, <2>7, <2>8, <2>9 DEF IInv
<1> QED BY <1>1, <1>2

\* The pending mark is written from a current copy, or the reconcile ends; once
\* written, the object is held and pending (StepInv).
LEMMA MarkCreatePendingStep == IInv /\ MarkCreatePending => IInv'
<1> SUFFICES ASSUME IInv, MarkCreatePending PROVE IInv'
  OBVIOUS
<1> DEFINE m == [mem EXCEPT !.create = "pending"]
<1>1. CASE ~memFresh
  <2>1. /\ pc # "idle" /\ pc' = "finish"
        /\ UNCHANGED <<kubeVars, mem, memFresh, polled, inStep, broker,
                       sent, edits, faults>>
    BY <1>1 DEF MarkCreatePending, UpdateObject
  <2> QED BY <2>1, RefusedSame
<1>2. CASE memFresh
  <2>1. mem \in LiveObjects
    BY MemLive DEF IInv, MarkCreatePending
  <2>2. /\ m \in LiveObjects
        /\ m.deleted = mem.deleted
        /\ m.spec = mem.spec
        /\ m.finalizer = mem.finalizer
        /\ m.create = "pending"
    BY <2>1 DEF LiveObjects
  <2>3. /\ MainUpdate(m)
        /\ pc' = "provision"
        /\ ~mem.deleted
        /\ mem.finalizer
        /\ UNCHANGED <<memFresh, polled, inStep, broker, sent, edits, faults>>
    BY <1>2 DEF MarkCreatePending, UpdateObject
  <2> HIDE DEF m
  <2>4. sent # "delete"
    BY <1>2, <2>3 DEF IInv, FreshInv, StoredInv
  <2>5. TypeOK' BY <1>2, <2>2, <2>3, ObjectWritten DEF IInv, TypeOK
  <2>6. BrokerInv(broker)' BY <2>3 DEF IInv, BrokerInv
  <2>7. StoredInv' BY <1>2, <2>2, <2>3, ObjectWritten DEF IInv, StoredInv
  <2>8. FreshInv' BY <1>2, <2>2, <2>3, ObjectWritten DEF FreshInv
  <2>9. StepInv' BY <1>2, <2>2, <2>3, <2>4, ObjectWritten DEF StepInv
  <2>10. DeletionOpsOnlyOnDeleted'
    BY <1>2, <2>2, <2>3, ObjectWritten
       DEF IInv, DeletionOpsOnlyOnDeleted, NamesDeletion
  <2> QED BY <2>5, <2>6, <2>7, <2>8, <2>9, <2>10 DEF IInv
<1> QED BY <1>1, <1>2

\* A step that asks the broker, or finds it cannot, and goes on with a copy
\* that has only another status or creation mark.
LEMMA Asked ==
    ASSUME IInv, pc # "idle",
           pc' \in {"annotate", "saveProvisioned", "saveDeprovisioned",
                    "saveUpdated", "finish"},
           UNCHANGED <<kubeVars, memFresh, polled, inStep, edits>>,
           mem' \in LiveObjects, mem'.deleted = mem.deleted,
           mem'.finalizer = mem.finalizer, mem'.spec = mem.spec,
           NamesDeletion(mem') => mem'.deleted,
           GoodBroker(broker'), faults' \in 0..MaxFaults,
           sent' \in {"", "create", "delete"},
           sent' # "" => obj.finalizer,
           sent' = "delete" => obj.deleted,
           pc' = "saveDeprovisioned" => mem.deleted /\ obj.deleted,
           pc' = "saveProvisioned" =>
              obj.finalizer /\ obj.create = "pending" /\ sent' # "delete"
    PROVE  IInv'
<1>1. TypeOK' BY LiveFields DEF IInv, TypeOK, kubeVars, GoodBroker
<1>2. BrokerInv(broker)' BY DEF GoodBroker, BrokerInv
<1>3. StoredInv' BY DEF IInv, StoredInv, kubeVars
<1>4. FreshInv' BY DEF IInv, FreshInv, kubeVars
<1>5. StepInv' BY DEF StepInv, kubeVars
<1>6. DeletionOpsOnlyOnDeleted'
  BY DEF IInv, DeletionOpsOnlyOnDeleted, NamesDeletion, kubeVars
<1> QED BY <1>1, <1>2, <1>3, <1>4, <1>5, <1>6 DEF IInv

\* Provision talks to the broker only; what StepInv says of the stored object
\* at that point still holds at the save.
LEMMA ProvisionStep == IInv /\ Provision => IInv'
<1> SUFFICES ASSUME IInv, Provision PROVE IInv'
  OBVIOUS
<1>1. mem \in LiveObjects /\ mem.spec \in Specs
      /\ (NamesDeletion(mem) => mem.deleted)
  BY MemLive, LiveFields
     DEF IInv, Provision, DeletionOpsOnlyOnDeleted, NamesDeletion
<1>2. /\ obj.finalizer /\ obj.create = "pending" /\ sent # "delete"
      /\ pc # "idle"
      /\ UNCHANGED <<kubeVars, memFresh, polled, inStep, edits>>
  BY DEF IInv, StepInv, Provision
<1>3. sent \in {"", "create", "delete"} /\ faults \in 0..MaxFaults
      /\ GoodBroker(broker)
  BY DEF IInv, TypeOK, GoodBroker
<1>4. /\ sent' \in {"", "create", "delete"}
      /\ sent' # "delete"
  BY <1>2, <1>3 DEF Provision
<1>5. GoodBroker(broker') /\ faults' \in 0..MaxFaults
  <2>1. CASE UNCHANGED <<broker, sent, faults>>
    BY <1>3, <2>1 DEF GoodBroker, BrokerInv
  <2>2. CASE \E r \in Answers(ProvisionReplies(broker, mem.spec)) : Answered(r)
    <3>1. \A q \in ProvisionReplies(broker, mem.spec) : GoodBroker(q.b)
      BY <1>1, <1>3, ProvisionedBroker
    <3> QED BY <1>3, <2>2, <3>1, AnsweredBroker
  <2> QED BY <2>1, <2>2 DEF Provision
<1>6. \/ mem' = Created(mem, "failed") /\ pc' = "annotate"
      \/ \E out : mem' = UpdateStatusFromOSB(mem, out, "provision")
                  /\ pc' = "saveProvisioned"
  BY DEF Provision
<1>7. /\ mem' \in LiveObjects /\ mem'.deleted = mem.deleted
      /\ mem'.finalizer = mem.finalizer /\ mem'.spec = mem.spec
      /\ NamesDeletion(mem') => mem'.deleted
  BY <1>1, <1>6, CreatedObject, AnsweredObject DEF NamesDeletion
<1>8. pc' \in {"annotate", "saveProvisioned"}
  BY <1>6
<1> QED BY <1>2, <1>4, <1>5, <1>7, <1>8, Asked

\* Update talks to the broker only.
LEMMA UpdateStep == IInv /\ Update => IInv'
<1> SUFFICES ASSUME IInv, Update PROVE IInv'
  OBVIOUS
<1>1. mem \in LiveObjects /\ mem.spec \in Specs
      /\ (NamesDeletion(mem) => mem.deleted)
  BY MemLive, LiveFields
     DEF IInv, Update, DeletionOpsOnlyOnDeleted, NamesDeletion
<1>2. /\ pc # "idle"
      /\ UNCHANGED <<kubeVars, memFresh, polled, inStep, sent, edits>>
  BY DEF Update
<1>3. GoodBroker(broker) /\ faults \in 0..MaxFaults
  BY DEF IInv, TypeOK, GoodBroker
<1>4. GoodBroker(broker') /\ faults' \in 0..MaxFaults
  <2>1. CASE UNCHANGED <<broker, faults>>
    BY <1>3, <2>1 DEF GoodBroker, BrokerInv
  <2>2. CASE \E r \in Answers(UpdateReplies(broker, mem.spec)) : Answered(r)
    <3>1. \A q \in UpdateReplies(broker, mem.spec) : GoodBroker(q.b)
      BY <1>1, <1>3, UpdatedBroker
    <3> QED BY <1>3, <2>2, <3>1, AnsweredBroker
  <2> QED BY <2>1, <2>2 DEF Update
<1>5. \/ mem' = mem /\ pc' = "finish"
      \/ \E out : mem' = UpdateStatusFromOSB(mem, out, "update")
                  /\ pc' = "saveUpdated"
  BY DEF Update
<1>6. /\ mem' \in LiveObjects /\ mem'.deleted = mem.deleted
      /\ mem'.finalizer = mem.finalizer /\ mem'.spec = mem.spec
      /\ NamesDeletion(mem') => mem'.deleted
  BY <1>1, <1>5, AnsweredObject
<1>7. pc' \in {"finish", "saveUpdated"}
  BY <1>5
<1> QED BY <1>2, <1>4, <1>6, <1>7, Refused

\* Deprovision talks to the broker only, for an object marked for deletion.
LEMMA DeprovisionStep == IInv /\ Deprovision => IInv'
<1> SUFFICES ASSUME IInv, Deprovision PROVE IInv'
  OBVIOUS
<1> DEFINE d == [mem EXCEPT !.status.ready = "Deleting"]
<1>1. mem \in LiveObjects /\ mem.deleted
  BY MemLive DEF IInv, Deprovision
<1>2. /\ pc # "idle"
      /\ UNCHANGED <<kubeVars, memFresh, polled, inStep, edits>>
      /\ obj.deleted /\ obj.finalizer
  BY <1>1 DEF IInv, StepInv, StoredInv, Deprovision
<1>3. sent' \in {"", "create", "delete"}
  BY DEF IInv, TypeOK, Deprovision
<1>4. GoodBroker(broker) /\ faults \in 0..MaxFaults
  BY DEF IInv, TypeOK, GoodBroker
<1>5. GoodBroker(broker') /\ faults' \in 0..MaxFaults
  <2>1. \E r \in Answers(DeprovisionReplies(broker)) : Answered(r)
    BY DEF Deprovision
  <2>2. \A q \in DeprovisionReplies(broker) : GoodBroker(q.b)
    BY <1>4, DeprovisionedBroker
  <2> QED BY <1>4, <2>1, <2>2, AnsweredBroker
<1>6. \/ mem' = d /\ pc' = "finish"
      \/ mem' = UpdateStatusForAsyncDeletion(d) /\ pc' = "saveDeprovisioned"
  BY DEF Deprovision
<1>7. /\ d \in LiveObjects
      /\ d.deleted = mem.deleted
      /\ d.finalizer = mem.finalizer
      /\ d.spec = mem.spec
  BY <1>1, ReadyField
<1> HIDE DEF d
<1>8. /\ mem' \in LiveObjects /\ mem'.deleted = mem.deleted
      /\ mem'.finalizer = mem.finalizer /\ mem'.spec = mem.spec
  BY <1>6, <1>7, DeprovisionedObject
<1>9. pc' \in {"finish", "saveDeprovisioned"}
  BY <1>6
<1> QED BY <1>1, <1>2, <1>3, <1>5, <1>8, <1>9, Asked

\* The save after Provision, and the outcome it leaves for the annotation.
LEMMA SaveProvisionedStep == IInv /\ SaveProvisioned => IInv'
<1> SUFFICES ASSUME IInv, SaveProvisioned PROVE IInv'
  OBVIOUS
<1>1. mem \in LiveObjects
  BY MemLive DEF IInv, SaveProvisioned
<1>2. PICK c \in {"succeeded", "failed"} : mem' = Created(mem, c)
  BY DEF SaveProvisioned
<1>3. /\ mem' \in LiveObjects
      /\ mem'.exists
      /\ mem'.deleted = mem.deleted
      /\ mem'.finalizer = mem.finalizer
      /\ mem'.spec = mem.spec
      /\ mem'.status = mem.status
  <2>1. LET m == Created(mem, c) IN
          /\ m \in LiveObjects
          /\ m.deleted = mem.deleted
          /\ m.finalizer = mem.finalizer
          /\ m.spec = mem.spec
          /\ m.status = mem.status
    BY <1>1, CreatedObject
  <2> QED BY <1>2, <2>1, LiveFields
<1>4. /\ IF memFresh THEN StatusUpdate ELSE UNCHANGED kubeVars
      /\ pc' = "annotate"
      /\ UNCHANGED <<memFresh, polled, inStep, broker, sent, edits, faults>>
  BY DEF SaveProvisioned
<1>5. TypeOK' BY <1>3, <1>4, SaveOrConflict DEF IInv, TypeOK
<1>6. BrokerInv(broker)' BY <1>4 DEF IInv, BrokerInv
<1>7. StoredInv' BY <1>4, SaveOrConflict
<1>8. FreshInv' BY <1>3, <1>4, SaveOrConflict DEF IInv, FreshInv
<1>9. StepInv' BY <1>4 DEF StepInv
<1>10. DeletionOpsOnlyOnDeleted'
  BY <1>3, <1>4, SaveOrConflict
     DEF IInv, DeletionOpsOnlyOnDeleted, NamesDeletion
<1> QED BY <1>5, <1>6, <1>7, <1>8, <1>9, <1>10 DEF IInv

\* UpdateCriticalAnnotations after a conflict: mem is read again.
LEMMA AnnotationRetried ==
    ASSUME IInv, pc = "annotate", cache.exists, ~memFresh,
           mem' = [cache EXCEPT !.create = mem.create], memFresh' = cacheFresh,
           UNCHANGED <<kubeVars, pc, polled, inStep, broker, sent, edits, faults>>
    PROVE  IInv'
<1>1. cache \in LiveObjects /\ mem \in LiveObjects
  BY CacheLive, MemLive DEF IInv
<1>2. /\ mem' \in LiveObjects
      /\ mem'.deleted = cache.deleted
      /\ mem'.finalizer = cache.finalizer
      /\ mem'.spec = cache.spec
      /\ mem'.status = cache.status
  BY <1>1 DEF LiveObjects
<1>3. TypeOK' BY <1>2, LiveFields DEF IInv, TypeOK, kubeVars
<1>4. BrokerInv(broker)' BY DEF IInv, BrokerInv
<1>5. StoredInv' BY DEF IInv, StoredInv, kubeVars
<1>6. FreshInv' BY <1>2 DEF IInv, StoredInv, FreshInv, kubeVars
<1>7. StepInv' BY DEF StepInv
<1>8. DeletionOpsOnlyOnDeleted'
  BY <1>2 DEF IInv, DeletionOpsOnlyOnDeleted, NamesDeletion, kubeVars
<1> QED BY <1>3, <1>4, <1>5, <1>6, <1>7, <1>8 DEF IInv

\* UpdateCriticalAnnotations from a current copy.
LEMMA AnnotationWritten ==
    ASSUME IInv, pc = "annotate", memFresh,
           Store([mem EXCEPT !.status = obj.status]),
           mem' = [Decoded(mem) EXCEPT !.status.ready = "Creating"],
           pc' = "finish",
           UNCHANGED <<memFresh, polled, inStep, broker, sent, edits, faults>>
    PROVE  IInv'
<1> DEFINE r  == IF obj.status.ready = "" THEN mem.status.ready
                                          ELSE obj.status.ready
           st == [obj.status EXCEPT !.ready = r]
           n  == [mem EXCEPT !.status = st]
<1>1. /\ obj \in LiveObjects /\ mem \in LiveObjects
      /\ mem.deleted = obj.deleted
      /\ mem.finalizer = obj.finalizer
      /\ mem.spec = obj.spec
  BY ObjLive, MemLive DEF IInv, FreshInv
<1>2. obj' = [mem EXCEPT !.status = obj.status]
  BY DEF Store
<1>3. st \in Statuses /\ st.key = obj.status.key /\ st.lastOp = obj.status.lastOp
  BY <1>1 DEF LiveObjects, Statuses
<1>4. n = Decoded(mem)
  BY DEF Decoded
<1> HIDE DEF r, st
<1>5. /\ n \in LiveObjects
      /\ n.deleted = obj.deleted
      /\ n.finalizer = obj.finalizer
      /\ n.spec = obj.spec
      /\ n.status = st
  BY <1>1, <1>3 DEF LiveObjects
<1> HIDE DEF n
<1>6. /\ obj' \in LiveObjects
      /\ obj'.deleted = obj.deleted
      /\ obj'.finalizer = obj.finalizer
      /\ obj'.spec = obj.spec
      /\ obj'.status = obj.status
  BY <1>1, <1>2 DEF LiveObjects
<1>7. /\ mem' \in LiveObjects
      /\ mem'.deleted = obj.deleted
      /\ mem'.finalizer = obj.finalizer
      /\ mem'.spec = obj.spec
      /\ NamesDeletion(mem') <=> NamesDeletion(n)
  BY <1>4, <1>5, ReadyField
<1>8. NamesDeletion(n) <=> NamesDeletion(obj)
  BY <1>3, <1>5 DEF NamesDeletion
<1>9. obj'.exists /\ mem'.exists
  BY <1>6, <1>7, LiveFields
<1>10. cache' = cache /\ cacheFresh' \in BOOLEAN /\ (cacheFresh' => cache' = obj')
  BY DEF Store, IInv, TypeOK, StoredInv
<1>11. TypeOK' BY <1>6, <1>7, <1>9, <1>10 DEF IInv, TypeOK
<1>12. BrokerInv(broker)' BY DEF IInv, BrokerInv
<1>13. StoredInv' BY <1>6, <1>10 DEF IInv, StoredInv
<1>14. FreshInv' BY <1>6, <1>7, <1>9 DEF FreshInv
<1>15. StepInv' BY DEF StepInv
<1>16. DeletionOpsOnlyOnDeleted'
  BY <1>6, <1>7, <1>8, <1>10 DEF IInv, DeletionOpsOnlyOnDeleted, NamesDeletion
<1> QED BY <1>11, <1>12, <1>13, <1>14, <1>15, <1>16 DEF IInv

\* The three ways UpdateCriticalAnnotations can go.
LEMMA UpdateCriticalAnnotationsStep == IInv /\ UpdateCriticalAnnotations => IInv'
<1> SUFFICES ASSUME IInv, UpdateCriticalAnnotations PROVE IInv'
  OBVIOUS
<1> USE DEF UpdateCriticalAnnotations
<1>1. CASE memFresh
  BY <1>1, AnnotationWritten
<1>2. CASE ~memFresh /\ pc' = pc
  BY <1>2, AnnotationRetried
<1>3. CASE ~memFresh /\ pc' # pc
  <2>1. mem \in LiveObjects
    BY MemLive DEF IInv
  <2>2. /\ mem' = [mem EXCEPT !.status.ready = "Creating"]
        /\ pc' = "finish"
        /\ UNCHANGED <<kubeVars, memFresh, polled, inStep, broker, sent, edits, faults>>
    BY <1>3
  <2>3. /\ mem' \in LiveObjects /\ mem'.deleted = mem.deleted
        /\ mem'.finalizer = mem.finalizer /\ mem'.spec = mem.spec
        /\ NamesDeletion(mem') <=> NamesDeletion(mem)
    BY <2>1, <2>2, ReadyField
  <2>4. NamesDeletion(mem') => mem'.deleted
    BY <2>3 DEF IInv, DeletionOpsOnlyOnDeleted
  <2>5. GoodBroker(broker') /\ faults' \in 0..MaxFaults
    BY <2>2 DEF IInv, TypeOK, GoodBroker
  <2> QED BY <2>2, <2>3, <2>4, <2>5, Refused
<1> QED BY <1>1, <1>2, <1>3

\* The user's steps make every copy in flight stale.
LEMMA UserStep == IInv /\ User => IInv'
<1> SUFFICES ASSUME IInv, User PROVE IInv'
  OBVIOUS
<1>1. /\ memFresh' = FALSE
      /\ UNCHANGED <<mem, pc, polled, inStep, broker, sent, faults>>
      /\ cache' = cache
  BY DEF User, UserCreates, UserEdits, UserDeletes, Store
<1>2. cacheFresh' \in BOOLEAN /\ (cacheFresh' => cache' = obj')
  BY DEF IInv, TypeOK, StoredInv, User, UserCreates, UserEdits, UserDeletes, Store
<1>3. edits' \in 0..MaxEdits
  <2>1. edits \in 0..MaxEdits /\ MaxEdits \in Nat
    BY ConstantsAssumption DEF IInv, TypeOK
  <2>2. edits' = edits \/ (edits < MaxEdits /\ edits' = edits + 1)
    BY DEF User, UserCreates, UserEdits, UserDeletes
  <2> QED BY <2>1, <2>2
<1>4. /\ obj' \in LiveObjects \cup {NoObject}
      /\ obj'.deleted => obj'.finalizer
      /\ obj.finalizer => obj'.finalizer /\ obj'.create = obj.create
      /\ obj.deleted => obj'.deleted
      /\ NamesDeletion(obj') => obj'.deleted
  <2>1. CASE UserCreates
    <3>1. PICK s \in Specs : obj' = NewObject(s)
      BY <2>1 DEF UserCreates, Store
    <3>2. obj' \in LiveObjects /\ ~obj'.deleted /\ ~NamesDeletion(obj')
      BY <3>1 DEF NewObject, LiveObjects, Statuses, NoStatus, NamesDeletion
    <3>3. ~obj.finalizer /\ ~obj.deleted
      BY <2>1, ObjLive, LiveFields DEF IInv, UserCreates
    <3> QED BY <3>2, <3>3
  <2>2. CASE UserEdits
    <3>1. PICK s \in Specs : obj' = [obj EXCEPT !.spec = s]
      BY <2>2 DEF UserEdits, Store
    <3>2. obj \in LiveObjects
      BY <2>2, ObjLive DEF IInv, UserEdits
    <3>3. /\ obj' \in LiveObjects
          /\ obj'.deleted = obj.deleted
          /\ obj'.finalizer = obj.finalizer
          /\ obj'.create = obj.create
          /\ obj'.status = obj.status
      BY <3>1, <3>2 DEF LiveObjects
    <3> QED BY <3>3 DEF IInv, StoredInv, DeletionOpsOnlyOnDeleted, NamesDeletion
  <2>3. CASE UserDeletes
    <3>1. obj \in LiveObjects /\ ~obj.deleted
      BY <2>3, ObjLive DEF IInv, UserDeletes
    <3>2. CASE obj.finalizer
      <4>1. obj' = [obj EXCEPT !.deleted = TRUE]
        BY <2>3, <3>2 DEF UserDeletes, Store
      <4>2. /\ obj' \in LiveObjects
            /\ obj'.deleted
            /\ obj'.finalizer = obj.finalizer
            /\ obj'.create = obj.create
        BY <3>1, <4>1 DEF LiveObjects
      <4> QED BY <3>2, <4>2
    <3>3. CASE ~obj.finalizer
      <4>1. obj' = NoObject
        BY <2>3, <3>3 DEF UserDeletes, Store
      <4> QED BY <3>1, <3>3, <4>1, Nothing
    <3> QED BY <3>2, <3>3
  <2> QED BY <2>1, <2>2, <2>3 DEF User
<1>5. TypeOK' BY <1>1, <1>2, <1>3, <1>4 DEF IInv, TypeOK
<1>6. BrokerInv(broker)' BY <1>1 DEF IInv, BrokerInv
<1>7. StoredInv' BY <1>1, <1>2, <1>4 DEF IInv, StoredInv
<1>8. FreshInv' BY <1>1 DEF FreshInv
<1>9. StepInv' BY <1>1, <1>4 DEF IInv, StepInv
<1>10. DeletionOpsOnlyOnDeleted'
  BY <1>1, <1>4 DEF IInv, DeletionOpsOnlyOnDeleted, NamesDeletion
<1> QED BY <1>5, <1>6, <1>7, <1>8, <1>9, <1>10 DEF IInv

\* The broker's own steps.
LEMMA BrokerStep ==
    IInv /\ (BrokerSucceeds \/ BrokerFails \/ BrokerLosesInstance) => IInv'
<1> SUFFICES ASSUME IInv, BrokerSucceeds \/ BrokerFails \/ BrokerLosesInstance
             PROVE  IInv'
  OBVIOUS
<1>1. UNCHANGED <<kubeVars, localVars, sent, edits>>
  BY DEF BrokerSucceeds, BrokerFails, BrokerLosesInstance
<1>2. faults' \in 0..MaxFaults
  BY MoreFaults DEF IInv, TypeOK, BrokerSucceeds, BrokerFails, BrokerLosesInstance
<1>3. GoodBroker(broker)
  BY DEF IInv, TypeOK, GoodBroker
<1>4. GoodBroker(broker')
  <2>1. CASE BrokerSucceeds
    <3>1. PICK k \in Pending(broker) :
            broker' = CASE k = "provision" ->
                             [Ended(broker, k, "succeeded") EXCEPT
                                !.present = TRUE, !.data = broker.target]
                        [] k = "update" ->
                             [Ended(broker, k, "succeeded") EXCEPT
                                !.data = broker.target]
                        [] k = "deprovision" ->
                             [NoInstance EXCEPT !.ops[k] = "succeeded"]
      BY <2>1 DEF BrokerSucceeds
    <3>2. GoodBroker(Ended(broker, k, "succeeded"))
      BY <1>3, EndedBroker
    <3>3. CASE k = "deprovision"
      <4>1. broker' = [NoInstance EXCEPT !.ops["deprovision"] = "succeeded"]
        BY <3>1, <3>3
      <4> QED BY <4>1 DEF GoodBroker, Brokers, BrokerInv, NoInstance, NoOps
    <3>4. CASE k # "deprovision"
      <4> DEFINE e == Ended(broker, k, "succeeded")
      <4>1. broker.target \in Specs /\ GoodBroker(e)
        BY <1>3, <3>2, <3>4 DEF GoodBroker, BrokerInv, Pending
      <4>2. \/ broker' = [e EXCEPT !.present = TRUE, !.data = broker.target]
            \/ broker' = [e EXCEPT !.data = broker.target]
        BY <3>1, <3>4 DEF Pending
      <4> HIDE DEF e
      <4> QED BY <4>1, <4>2 DEF GoodBroker, Brokers, BrokerInv
    <3> QED BY <3>3, <3>4
  <2>2. CASE BrokerFails
    BY <1>3, <2>2, EndedBroker DEF BrokerFails
  <2>3. CASE BrokerLosesInstance
    BY <2>3, EmptyBroker DEF BrokerLosesInstance
  <2> QED BY <2>1, <2>2, <2>3
<1> USE <1>1 DEF kubeVars, localVars
<1>5. TypeOK'
  <2> HIDE DEF Kinds, States, Steps
  <2> QED BY <1>2, <1>4 DEF IInv, TypeOK, GoodBroker
<1>6. BrokerInv(broker)' BY <1>4 DEF GoodBroker, BrokerInv
<1>7. StoredInv' BY DEF IInv, StoredInv
<1>8. FreshInv' BY DEF IInv, FreshInv
<1>9. StepInv' BY DEF IInv, StepInv
<1>10. DeletionOpsOnlyOnDeleted'
  BY DEF IInv, DeletionOpsOnlyOnDeleted, NamesDeletion
<1> QED BY <1>5, <1>6, <1>7, <1>8, <1>9, <1>10 DEF IInv

\* What does not change keeps its type.
LEMMA SameTypes ==
    ASSUME TypeOK, UNCHANGED vars
    PROVE  TypeOK'
<1> HIDE DEF Kinds, States, Steps
<1> QED BY DEF TypeOK, vars

\* Every step, and every stutter, preserves IInv.
LEMMA NextStep == IInv /\ [Next]_vars => IInv'
<1> SUFFICES ASSUME IInv, [Next]_vars PROVE IInv'
  OBVIOUS
<1>1. CASE Reconcile
  BY <1>1, StartReconcileStep, PollLastOperationStep, GetLatestKubeObjectStep,
     SavePolledStatusStep, HandleDeletionStep, GetInstanceStep,
     RemoveFinalizerStep, AddFinalizerStep, MarkCreatePendingStep,
     ProvisionStep, SaveProvisionedStep, UpdateCriticalAnnotationsStep,
     UpdateStep, SaveUpdatedStep, DeprovisionStep, SaveDeprovisionedStep,
     FinishReconcileStep
     DEF Reconcile
<1>2. CASE Crash \/ CacheSync \/ User
  BY <1>2, CrashStep, CacheSyncStep, UserStep
<1>3. CASE BrokerSucceeds \/ BrokerFails \/ BrokerLosesInstance
  BY <1>3, BrokerStep
<1>4. CASE UNCHANGED vars
  <2>1. TypeOK'
    BY <1>4, SameTypes DEF IInv
  <2> USE <1>4 DEF vars
  <2>2. BrokerInv(broker)' BY DEF IInv, BrokerInv
  <2>3. StoredInv' BY DEF IInv, StoredInv
  <2>4. FreshInv' BY DEF IInv, FreshInv
  <2>5. StepInv' BY DEF IInv, StepInv
  <2>6. DeletionOpsOnlyOnDeleted'
    BY DEF IInv, DeletionOpsOnlyOnDeleted, NamesDeletion
  <2> QED BY <2>1, <2>2, <2>3, <2>4, <2>5, <2>6 DEF IInv
<1> QED BY <1>1, <1>2, <1>3, <1>4 DEF Next

\* IInv holds in every reachable state of the controller, its caches and its
\* broker: it is inductive (InitIInv, NextStep).
THEOREM Inductive == Spec => []IInv
<1> QED BY InitIInv, NextStep, PTL DEF Spec

-----------------------------------------------------------------------------
(* The properties *)

\* The variables keep their types: in particular a running reconcile always
\* has an object in memory (StartReconcile to FinishReconcile).
THEOREM TypeCorrect == Spec => []TypeOK
<1>1. IInv => TypeOK
  BY DEF IInv
<1> QED BY <1>1, Inductive, PTL

\* No copy of the object names a deprovision operation unless it is marked
\* for deletion (UpdateStatusForAsyncDeletion and the saves around it).
THEOREM DeletionOps == Spec => []DeletionOpsOnlyOnDeleted
<1>1. IInv => DeletionOpsOnlyOnDeleted
  BY DEF IInv
<1> QED BY <1>1, Inductive, PTL

\* Delete asks the broker to destroy the instance only while the stored
\* object is marked for deletion, however old the cache was.
THEOREM Deprovisions == Spec => DeprovisionOnlyWhenDeleted
<1>1. IInv /\ [Next]_vars => [Deprovision => obj.exists /\ obj.deleted]_vars
  <2> SUFFICES ASSUME IInv, Deprovision PROVE obj.exists /\ obj.deleted
    OBVIOUS
  <2>1. obj.deleted
    BY DEF IInv, StepInv, Deprovision
  <2> QED BY <2>1, ObjLive, LiveFields DEF IInv
<1> QED BY <1>1, Inductive, PTL DEF Spec, DeprovisionOnlyWhenDeleted

\* Create asks the broker for an instance only once the stored object holds
\* the finalizer and the external-create-pending mark.
THEOREM Provisions == Spec => ProvisionLeavesEvidence
<1>1. IInv /\ [Next]_vars =>
        [Provision => obj.exists /\ obj.finalizer /\ obj.create = "pending"]_vars
  <2> SUFFICES ASSUME IInv, Provision
               PROVE  obj.exists /\ obj.finalizer /\ obj.create = "pending"
    OBVIOUS
  <2>1. obj.finalizer /\ obj.create = "pending"
    BY DEF IInv, StepInv, Provision
  <2> QED BY <2>1, ObjLive, LiveFields DEF IInv
<1> QED BY <1>1, Inductive, PTL DEF Spec, ProvisionLeavesEvidence

\* Only four steps make the stored object appear, disappear, be marked for
\* deletion or be held: no save of a status or of an annotation does, for a
\* save is accepted only from a copy that agrees on those (FreshInv).
LEMMA SteadyObject ==
    ASSUME IInv, [Next]_vars,
           ~UserCreates, ~UserDeletes, ~AddFinalizer, ~RemoveFinalizer
    PROVE  /\ obj'.exists = obj.exists
           /\ obj'.deleted = obj.deleted
           /\ obj'.finalizer = obj.finalizer
<1>1. CASE UNCHANGED obj
  BY <1>1
<1>2. CASE memFresh /\ StatusUpdate
  BY <1>2, StatusWritten, ObjLive, LiveFields DEF IInv, FreshInv
<1>3. CASE UserEdits
  <2>1. PICK s \in Specs : obj' = [obj EXCEPT !.spec = s]
    BY <1>3 DEF UserEdits, Store
  <2>2. obj \in LiveObjects
    BY <1>3, ObjLive DEF IInv, UserEdits
  <2> QED BY <2>1, <2>2 DEF LiveObjects
<1>4. CASE MarkCreatePending /\ memFresh
  <2> DEFINE m == [mem EXCEPT !.create = "pending"]
  <2>1. mem \in LiveObjects /\ obj.exists /\ mem.finalizer = obj.finalizer
    BY <1>4, MemLive DEF IInv, FreshInv, MarkCreatePending
  <2>2. /\ m \in LiveObjects
        /\ m.deleted = mem.deleted
        /\ m.spec = mem.spec
        /\ m.finalizer = mem.finalizer
    BY <2>1 DEF LiveObjects
  <2>3. MainUpdate(m)
    BY <1>4 DEF MarkCreatePending, UpdateObject
  <2> HIDE DEF m
  <2> QED BY <1>4, <2>1, <2>2, <2>3, ObjectWritten
<1>5. CASE UpdateCriticalAnnotations /\ memFresh
  <2>1. /\ obj \in LiveObjects /\ mem \in LiveObjects
        /\ mem.deleted = obj.deleted /\ mem.finalizer = obj.finalizer
    BY <1>5, ObjLive, MemLive DEF IInv, FreshInv
  <2>2. obj' = [mem EXCEPT !.status = obj.status]
    BY <1>5 DEF UpdateCriticalAnnotations, Store
  <2>3. /\ obj'.exists = obj.exists
        /\ obj'.deleted = mem.deleted
        /\ obj'.finalizer = mem.finalizer
    BY <2>1, <2>2 DEF LiveObjects
  <2> QED BY <2>1, <2>3
<1>6. CASE Reconcile
  BY <1>1, <1>2, <1>4, <1>5, <1>6
     DEF Reconcile, StartReconcile, PollLastOperation, GetLatestKubeObject,
         SavePolledStatus, HandleDeletionWithActiveBindings, GetInstance,
         MarkCreatePending, UpdateObject, Provision, SaveProvisioned,
         UpdateCriticalAnnotations, Update, SaveUpdated, Deprovision,
         SaveDeprovisioned, FinishReconcile, kubeVars
<1>7. CASE ~Reconcile
  BY <1>1, <1>3, <1>7
     DEF Next, Crash, CacheSync, User, BrokerSucceeds, BrokerFails,
         BrokerLosesInstance, vars, kubeVars
<1> QED BY <1>6, <1>7

\* The requests made for the object are recorded and forgotten by three steps.
LEMMA SteadyRequests ==
    ASSUME [Next]_vars, ~Provision, ~Deprovision, ~RemoveFinalizer
    PROVE  sent' = sent
BY DEF Next, Reconcile, StartReconcile, PollLastOperation, GetLatestKubeObject,
       SavePolledStatus, HandleDeletionWithActiveBindings, GetInstance,
       AddFinalizer, MarkCreatePending, SaveProvisioned,
       UpdateCriticalAnnotations, Update, SaveUpdated, SaveDeprovisioned,
       FinishReconcile, Crash, CacheSync, User, UserCreates, UserEdits,
       UserDeletes, BrokerSucceeds, BrokerFails, BrokerLosesInstance, vars

\* AddFinalizer changes the stored object only from a copy at its version,
\* and then it is held.
LEMMA Held ==
    ASSUME IInv, AddFinalizer
    PROVE  \/ obj' = obj
           \/ /\ obj.exists /\ ~obj.deleted /\ ~obj.finalizer
              /\ obj'.exists /\ ~obj'.deleted /\ obj'.finalizer
<1>1. CASE ~memFresh
  BY <1>1 DEF AddFinalizer, UpdateObject, kubeVars
<1>2. CASE memFresh
  <2> DEFINE m == [mem EXCEPT !.finalizer = TRUE]
  <2>1. /\ mem \in LiveObjects /\ ~mem.deleted /\ ~mem.finalizer
        /\ mem.deleted = obj.deleted /\ mem.finalizer = obj.finalizer
        /\ obj.exists
    BY <1>2, MemLive DEF IInv, FreshInv, AddFinalizer
  <2>2. /\ m \in LiveObjects /\ m.finalizer
        /\ m.deleted = mem.deleted
        /\ m.spec = mem.spec
    BY <2>1 DEF LiveObjects
  <2>3. MainUpdate(m)
    BY <1>2 DEF AddFinalizer, UpdateObject
  <2> HIDE DEF m
  <2> QED BY <1>2, <2>1, <2>2, <2>3, ObjectWritten
<1> QED BY <1>1, <1>2

\* RemoveFinalizer changes the stored object only from a copy at its version,
\* of an object marked for deletion.
LEMMA Released ==
    ASSUME IInv, RemoveFinalizer
    PROVE  \/ obj' = obj /\ sent' = sent
           \/ /\ obj.exists /\ obj.deleted /\ obj.finalizer
              /\ pc = "absent" /\ memFresh /\ ~memFresh'
              /\ mem.status.key = obj.status.key
              /\ obj' = NoObject /\ sent' = ""
<1>1. CASE memFresh /\ mem.finalizer
  BY <1>1 DEF RemoveFinalizer, Return, Store, IInv, FreshInv
<1>2. CASE ~(memFresh /\ mem.finalizer)
  BY <1>2 DEF RemoveFinalizer, kubeVars
<1> QED BY <1>1, <1>2

-----------------------------------------------------------------------------
(* The refinement of ManagedLifecycle *)

\* How a step looks from outside, given what it does to the stored object.
LEMMA SameLife ==
    ASSUME obj'.exists = obj.exists, obj'.deleted = obj.deleted,
           obj'.finalizer = obj.finalizer, sent' = sent
    PROVE  UNCHANGED L!vars
BY DEF L!vars

\* Every step is a step of ManagedLifecycle or invisible to it.
LEMMA StepRefines ==
    ASSUME IInv, [Next]_vars
    PROVE  [L!Next]_(L!vars)
<1>1. CASE UserCreates
  <2>1. ~obj.exists
    BY <1>1 DEF UserCreates
  <2>2. PICK s \in Specs : obj' = NewObject(s) /\ sent' = sent
    BY <1>1 DEF UserCreates, Store
  <2>3. obj'.exists /\ ~obj'.deleted /\ ~obj'.finalizer
    BY <2>2 DEF NewObject
  <2> QED BY <2>1, <2>2, <2>3 DEF L!Next, L!Create
<1>2. CASE UserDeletes
  <2>1. obj \in LiveObjects /\ obj.exists /\ ~obj.deleted /\ sent' = sent
    BY <1>2, ObjLive DEF IInv, UserDeletes
  <2>2. CASE obj.finalizer
    <3>1. obj' = [obj EXCEPT !.deleted = TRUE]
      BY <1>2, <2>2 DEF UserDeletes, Store
    <3>2. obj'.exists /\ obj'.deleted
      BY <2>1, <3>1 DEF LiveObjects
    <3> QED BY <2>1, <2>2, <3>2 DEF L!Next, L!Delete
  <2>3. CASE ~obj.finalizer
    <3>1. obj' = NoObject
      BY <1>2, <2>3 DEF UserDeletes, Store
    <3>2. ~obj'.exists
      BY <3>1, Nothing
    <3> QED BY <2>1, <2>3, <3>2 DEF L!Next, L!Delete
  <2> QED BY <2>2, <2>3
<1>3. CASE AddFinalizer
  <2>1. sent' = sent
    BY <1>3 DEF AddFinalizer
  <2>2. CASE obj' = obj
    BY <2>1, <2>2, SameLife
  <2>3. CASE obj' # obj
    <3>1. /\ obj.exists /\ ~obj.deleted /\ ~obj.finalizer
          /\ obj'.exists /\ ~obj'.deleted /\ obj'.finalizer
      BY <1>3, <2>3, Held
    <3> QED BY <2>1, <3>1 DEF L!Next, L!Hold
  <2> QED BY <2>2, <2>3
<1>4. CASE RemoveFinalizer
  <2>1. CASE obj' = obj /\ sent' = sent
    BY <2>1, SameLife
  <2>2. CASE ~(obj' = obj /\ sent' = sent)
    <3>1. obj.exists /\ obj.deleted /\ obj' = NoObject /\ sent' = ""
      BY <1>4, <2>2, Released
    <3>2. ~obj'.exists
      BY <3>1, Nothing
    <3> QED BY <3>1, <3>2 DEF L!Next, L!Release
  <2> QED BY <2>1, <2>2
<1>5. CASE Provision
  <2>1. /\ obj' = obj
        /\ sent' \in {sent, "create"}
        /\ obj.finalizer /\ sent # "delete"
    BY <1>5 DEF Provision, kubeVars, IInv, StepInv
  <2>2. obj.exists
    BY <2>1, ObjLive, LiveFields DEF IInv
  <2>3. CASE sent' = sent
    BY <2>1, <2>3, SameLife
  <2>4. CASE sent' = "create"
    BY <2>1, <2>2, <2>4 DEF L!Next, L!AskCreate
  <2> QED BY <2>1, <2>3, <2>4
<1>6. CASE Deprovision
  <2>1. obj' = obj /\ sent' = "delete" /\ obj.deleted
    BY <1>6 DEF Deprovision, kubeVars, IInv, StepInv
  <2>2. obj.exists
    BY <2>1, ObjLive, LiveFields DEF IInv
  <2> QED BY <2>1, <2>2 DEF L!Next, L!AskDelete
<1>7. CASE /\ ~UserCreates /\ ~UserDeletes /\ ~AddFinalizer
           /\ ~RemoveFinalizer /\ ~Provision /\ ~Deprovision
  BY <1>7, SteadyObject, SteadyRequests, SameLife
<1> QED BY <1>1, <1>2, <1>3, <1>4, <1>5, <1>6, <1>7

\* The controller implements ManagedLifecycle: whatever caches, conflicts,
\* crashes and replies do, an instance is asked for only once the object is
\* held and given back only once it is being deleted, and one given back is
\* not asked for again.
THEOREM Refines == Spec => Lifecycle
<1>1. Init => L!Init
  <2> SUFFICES ASSUME Init PROVE L!Init
    OBVIOUS
  <2>1. ~obj.exists /\ sent = ""
    BY Nothing DEF Init
  <2> QED BY <2>1 DEF L!Init
<1>2. IInv /\ [Next]_vars => [L!Next]_(L!vars)
  BY StepRefines
<1> QED BY <1>1, <1>2, Inductive, PTL DEF Spec, Lifecycle, L!Spec
=============================================================================
