------------------------ MODULE ServiceBindingProofs -------------------------
(***************************************************************************)
(* Safety of the ServiceBinding controller for every set of parameters and *)
(* identifiers, every broker and every bound.                              *)
(*                                                                         *)
(* The proofs are in four layers, each of which may use those before it:   *)
(* the types and the names; what a copy still says of the stored object,   *)
(* which is all that asynchronous brokers leave true; what is so if binds  *)
(* are answered at once; and what is so if every request is.               *)
(***************************************************************************)
EXTENDS ServiceBinding, TLAPS

-----------------------------------------------------------------------------
(* The specification with its environment open *)

\* The instance goes by another hand: ServiceBinding counts every deletion of
\* the instance among the edits that bound it, and this one is not counted.
InstanceTaken == InstanceGoes /\ UNCHANGED edits

OpenNext == Next \/ InstanceTaken

OpenSpec == Init /\ [][OpenNext]_vars

\* What holds with the instance in any hands holds of ServiceBinding alone.
LEMMA SpecOpen == Spec => OpenSpec
<1>1. [Next]_vars => [OpenNext]_vars
  BY DEF OpenNext
<1> QED BY <1>1, PTL DEF Spec, OpenSpec

-----------------------------------------------------------------------------
(* The invariants *)

Copies == LiveObjects \cup {NoObject}

\* Only Rotate changes the name of a copy, and that one is never written.
NamesInv ==
    /\ obj.exists => obj.name = Name
    /\ cache.exists => cache.name = Name
    /\ pc \notin {"idle", "finish"} => mem.name = Name

\* A copy is at the stored version only of an object that is stored.
VersionsInv ==
    /\ cacheFresh => cache = obj
    /\ memFresh => obj.exists

Typed == TypeOK /\ NamesInv /\ VersionsInv

\* A copy at the stored version agrees with it, and the cache knows of the
\* deletion whenever such a copy does: it is where the copy was read.
FreshInv ==
    memFresh => /\ pc # "idle"
                /\ mem.deleted = obj.deleted
                /\ mem.finalizer = obj.finalizer
                /\ cache.deleted = obj.deleted

\* However old the copy c: what it shows as held still is, and an object
\* that is held is being deleted if c shows a deletion, its own or that of an
\* earlier object.
Trails(c) ==
    /\ c.finalizer /\ ~c.deleted => obj.finalizer
    /\ c.deleted /\ obj.finalizer => obj.deleted

\* The mark of MarkCreatePending lasts until Create has returned.
StepInv == pc = "bind" => obj.finalizer /\ obj.create = "pending"

CopiesInv == FreshInv /\ Trails(cache) /\ Trails(mem) /\ StepInv

\* What an ended unbind left is nothing.
BrokerInv ==
    \A id \in Ids : broker[id].op = "unbind" /\ broker[id].state = "succeeded"
                      => ~broker[id].present

\* With binds answered at once, what is bound under the object's name is
\* bound for an object that is held, and what is observed absent is absent.
KeptInv ==
    /\ BrokerInv
    /\ broker[Name].op # "bind"
    /\ broker[Name].present => obj.finalizer
    /\ pc = "absent" => ~broker[Name].present

NotInProgress(o) == o.status.lastOp # "in progress"

\* With every request answered at once, nothing is ever in progress; what is
\* observed present for a copy that is being deleted is the stored object's;
\* and a binding given back is not asked for again.
SyncInv ==
    /\ \A id \in Ids : ~Running(id)
    /\ NotInProgress(obj) /\ NotInProgress(cache) /\ NotInProgress(mem)
    /\ pc # "latest"
    /\ pc \in {"upToDate", "outdated"} /\ mem.deleted => obj.deleted
    /\ sent = "delete" => obj.deleted
    /\ pc = "bind" => sent # "delete"

-----------------------------------------------------------------------------
(* Lemmas on the copies of the object *)

\* The fields of a live object.
LEMMA LiveFields ==
    ASSUME NEW o \in LiveObjects
    PROVE  /\ o.exists = TRUE
           /\ o.deleted \in BOOLEAN
           /\ o.finalizer \in BOOLEAN
           /\ o.create \in {"", "pending", "succeeded", "failed"}
           /\ o.name \in Ids
           /\ o.params \in Params
           /\ o.status \in Statuses
           /\ o.status.lastOp \in {""} \cup States
BY DEF LiveObjects, Statuses

\* NoObject is not one, and is nothing in every field.
LEMMA Nothing ==
    /\ NoObject.exists = FALSE
    /\ NoObject.deleted = FALSE
    /\ NoObject.finalizer = FALSE
    /\ NoObject.status = NoStatus
    /\ NoStatus \in Statuses
    /\ NoStatus.lastOp = ""
    /\ NoObject \notin LiveObjects
BY DEF NoObject, LiveObjects, NoStatus, Statuses

\* A copy that exists is live.
LEMMA Exists ==
    ASSUME NEW o \in Copies
    PROVE  /\ o.exists \in BOOLEAN /\ o.deleted \in BOOLEAN
           /\ o.finalizer \in BOOLEAN
           /\ o.exists => o \in LiveObjects
           /\ o.deleted \/ o.finalizer => o.exists
           /\ o.status \in Statuses
BY LiveFields, Nothing DEF Copies

\* p is o with another status.
Alike(o, p) ==
    /\ p \in LiveObjects
    /\ p.deleted = o.deleted
    /\ p.finalizer = o.finalizer
    /\ p.create = o.create
    /\ p.name = o.name
    /\ p.params = o.params

\* Replacing the status, or a part of it, leaves the rest alone.
LEMMA StatusReplaced ==
    ASSUME NEW o \in LiveObjects, NEW st \in Statuses
    PROVE  LET p == [o EXCEPT !.status = st]
           IN  Alike(o, p) /\ p.status = st
BY DEF LiveObjects, Alike

\* The same for the Synced condition.
LEMMA SyncedReplaced ==
    ASSUME NEW o \in LiveObjects, NEW s \in {"", "yes", "no"}
    PROVE  LET p == [o EXCEPT !.status.synced = s]
           IN  Alike(o, p) /\ p.status.lastOp = o.status.lastOp
<1>1. /\ [o.status EXCEPT !.synced = s] \in Statuses
      /\ [o.status EXCEPT !.synced = s].lastOp = o.status.lastOp
  BY DEF LiveObjects, Statuses
<1>2. [o EXCEPT !.status.synced = s]
        = [o EXCEPT !.status = [o.status EXCEPT !.synced = s]]
  BY DEF LiveObjects
<1> QED BY <1>1, <1>2, StatusReplaced

\* The same for the Ready condition.
LEMMA ReadyReplaced ==
    ASSUME NEW o \in LiveObjects,
           NEW r \in {"", "Creating", "Available", "Unavailable", "Deleting"}
    PROVE  LET p == [o EXCEPT !.status.ready = r]
           IN  Alike(o, p) /\ p.status.lastOp = o.status.lastOp
<1>1. /\ [o.status EXCEPT !.ready = r] \in Statuses
      /\ [o.status EXCEPT !.ready = r].lastOp = o.status.lastOp
  BY DEF LiveObjects, Statuses
<1>2. [o EXCEPT !.status.ready = r]
        = [o EXCEPT !.status = [o.status EXCEPT !.ready = r]]
  BY DEF LiveObjects
<1> QED BY <1>1, <1>2, StatusReplaced

\* The same for the state of the last operation.
LEMMA LastOpReplaced ==
    ASSUME NEW o \in LiveObjects, NEW s \in States
    PROVE  LET p == [o EXCEPT !.status.lastOp = s]
           IN  Alike(o, p) /\ p.status.lastOp = s
<1> HIDE DEF States
<1>1. /\ [o.status EXCEPT !.lastOp = s] \in Statuses
      /\ [o.status EXCEPT !.lastOp = s].lastOp = s
  BY DEF LiveObjects, Statuses
<1>2. [o EXCEPT !.status.lastOp = s]
        = [o EXCEPT !.status = [o.status EXCEPT !.lastOp = s]]
  BY DEF LiveObjects
<1> QED BY <1>1, <1>2, StatusReplaced

\* Alike objects of alike objects are alike.
LEMMA AlikeChain ==
    ASSUME NEW o, NEW p, NEW q, Alike(o, p), Alike(p, q)
    PROVE  Alike(o, q)
BY DEF Alike

\* What the functions of the controller that set conditions and the last
\* operation do to an object.
LEMMA StatusSetters ==
    ASSUME NEW o \in LiveObjects
    PROVE  /\ Alike(o, o)
           /\ Alike(o, Synced(o)) /\ Synced(o).status.lastOp = o.status.lastOp
           /\ Alike(o, Erred(o)) /\ Erred(o).status.lastOp = o.status.lastOp
           /\ Alike(o, Observe(o)) /\ Observe(o).status.lastOp = o.status.lastOp
           /\ Alike(o, Delete(o)) /\ Delete(o).status.lastOp = o.status.lastOp
           /\ Alike(o, HandleAsyncStatus(o))
           /\ \A s \in States : Alike(o, UpdateStatusFromLastOp(o, s))
<1>1. Alike(o, o)
  BY DEF Alike
<1>2. /\ Alike(o, Synced(o)) /\ Synced(o).status.lastOp = o.status.lastOp
      /\ Alike(o, Erred(o)) /\ Erred(o).status.lastOp = o.status.lastOp
  BY SyncedReplaced DEF Synced, Erred
<1>3. /\ Alike(o, Observe(o)) /\ Observe(o).status.lastOp = o.status.lastOp
      /\ Alike(o, Delete(o)) /\ Delete(o).status.lastOp = o.status.lastOp
  BY ReadyReplaced DEF Observe, Delete
<1>4. \A s \in States : Alike(o, UpdateStatusFromLastOp(o, s))
  BY LastOpReplaced DEF UpdateStatusFromLastOp
<1>5. Alike(o, HandleAsyncStatus(o))
  BY LastOpReplaced DEF HandleAsyncStatus, States
<1> QED BY <1>1, <1>2, <1>3, <1>4, <1>5

\* The mark of a binding that is due is a condition too.
LEMMA UntimedMarked ==
    ASSUME NEW o \in LiveObjects, NEW b, NEW expired
    PROVE  /\ Alike(o, MarkBinding(o, b, expired))
           /\ MarkBinding(o, b, expired).status.lastOp = o.status.lastOp
<1>1. /\ [o.status EXCEPT !.untimed = TRUE] \in Statuses
      /\ [o.status EXCEPT !.untimed = TRUE].lastOp = o.status.lastOp
  BY DEF LiveObjects, Statuses
<1>2. [o EXCEPT !.status.untimed = TRUE]
        = [o EXCEPT !.status = [o.status EXCEPT !.untimed = TRUE]]
  BY DEF LiveObjects
<1>3. LET p == [o EXCEPT !.status.untimed = TRUE]
      IN  Alike(o, p) /\ p.status.lastOp = o.status.lastOp
  BY <1>1, <1>2, StatusReplaced
<1>4. Alike(o, o)
  BY DEF Alike
<1> QED BY <1>3, <1>4 DEF MarkBinding

\* Whatever GetBinding finds, it changes no more of the copy than conditions.
LEMMA GotCopy ==
    ASSUME mem \in LiveObjects, GetBinding,
           pc' \in {"absent", "finish", "upToDate", "outdated"}
    PROVE  /\ Alike(mem, mem')
           /\ mem'.status.lastOp = mem.status.lastOp
<1>1. PICK expired \in BOOLEAN :
        LET o == IF faults' = faults
                   THEN MarkBinding(mem, broker[mem.name], expired) ELSE mem
        IN  mem' = CASE pc' = "upToDate" -> Observe(o)
                     [] pc' = "finish"   -> Erred(o)
                     [] OTHER            -> o
  BY DEF GetBinding
<1> DEFINE o == IF faults' = faults
                  THEN MarkBinding(mem, broker[mem.name], expired) ELSE mem
<1>2. o \in LiveObjects /\ Alike(mem, o)
      /\ o.status.lastOp = mem.status.lastOp
  BY UntimedMarked, StatusSetters DEF Alike
<1>3. mem' \in {Observe(o), Erred(o), o}
  BY <1>1
<1> HIDE DEF o
<1>4. Alike(o, mem') /\ mem'.status.lastOp = o.status.lastOp
  BY <1>2, <1>3, StatusSetters
<1> QED BY <1>2, <1>4, AlikeChain

\* AddFinalizer's change of the object.
LEMMA FinalizerAdded ==
    ASSUME NEW o \in LiveObjects
    PROVE  LET p == [o EXCEPT !.finalizer = TRUE] IN
           /\ p \in LiveObjects
           /\ p.finalizer = TRUE /\ p.deleted = o.deleted
           /\ p.name = o.name /\ p.create = o.create /\ p.status = o.status
BY DEF LiveObjects

\* p is o with c as its creation mark.
Marked(o, p, c) ==
    /\ p \in LiveObjects
    /\ p.deleted = o.deleted /\ p.finalizer = o.finalizer
    /\ p.name = o.name /\ p.params = o.params /\ p.status = o.status
    /\ p.create = c

\* MarkCreatePending's change, and the record of the outcome of Create.
LEMMA CreateMarked ==
    ASSUME NEW o \in LiveObjects, NEW c \in {"", "pending", "succeeded", "failed"}
    PROVE  Marked(o, [o EXCEPT !.create = c], c)
BY DEF LiveObjects, Marked

-----------------------------------------------------------------------------
(* Lemmas on writes of the object *)

\* The answer to a write keeps what was written but for the status, which is
\* the stored one where there is one.
LEMMA DecodedObject ==
    ASSUME obj \in Copies, NEW m \in LiveObjects
    PROVE  /\ Alike(m, Decoded(m))
           /\ Decoded(m).status.lastOp \in {obj.status.lastOp, m.status.lastOp}
<1> DEFINE st == obj.status
           c  == IF st.ready = "" /\ st.synced = "" THEN m.status ELSE st
           r  == [lastOp |-> IF st.lastOp = "" THEN m.status.lastOp
                                               ELSE st.lastOp,
                  ready |-> c.ready, synced |-> c.synced,
                  untimed |-> c.untimed]
<1>1. st \in Statuses /\ m.status \in Statuses
  BY Exists, LiveFields
<1>2. r \in Statuses /\ r.lastOp \in {st.lastOp, m.status.lastOp}
  BY <1>1 DEF Statuses
<1>3. Decoded(m) = [m EXCEPT !.status = r]
  BY DEF Decoded
<1> HIDE DEF r
<1> QED BY <1>2, <1>3, StatusReplaced

\* What a write does to the stored object, the cache and mem.
LEMMA Written ==
    ASSUME obj \in Copies, NEW m \in LiveObjects, MainUpdate(m)
    PROVE  /\ Alike(m, obj')
           /\ obj'.status.lastOp = obj.status.lastOp
           /\ Alike(m, mem')
           /\ mem'.status.lastOp \in {obj.status.lastOp, m.status.lastOp}
           /\ cache' = cache
           /\ cacheFresh' \in BOOLEAN
           /\ cacheFresh' => cacheFresh /\ obj' = obj
<1>1. obj.status \in Statuses
  BY Exists
<1>2. obj' = [m EXCEPT !.status = obj.status]
  BY DEF MainUpdate, Store
<1>3. Alike(m, obj') /\ obj'.status = obj.status
  BY <1>1, <1>2, StatusReplaced
<1>4. mem' = Decoded(m)
  BY DEF MainUpdate
<1> QED BY <1>3, <1>4, DecodedObject DEF MainUpdate, Store

\* The same for a write that may be refused.
LEMMA ObjectUpdated ==
    ASSUME obj \in Copies, mem \in LiveObjects, NEW m \in LiveObjects, NEW next,
           UpdateObject(m, next)
    PROVE  \/ /\ memFresh
              /\ pc' = next
              /\ MainUpdate(m)
           \/ /\ ~memFresh
              /\ pc' = "finish"
              /\ Alike(mem, mem')
              /\ mem'.status.lastOp = mem.status.lastOp
              /\ UNCHANGED kubeVars
BY StatusSetters DEF UpdateObject

\* The last status update.
LEMMA StatusWritten ==
    ASSUME obj \in LiveObjects, NEW st \in Statuses,
           Store([obj EXCEPT !.status = st])
    PROVE  /\ Alike(obj, obj')
           /\ obj'.status = st
           /\ cache' = cache
           /\ cacheFresh' \in BOOLEAN
           /\ cacheFresh' => cacheFresh /\ obj' = obj
BY StatusReplaced DEF Store

\* The copies are such; a reconcile that runs has a live one.
LEMMA CopyTypes ==
    ASSUME Typed
    PROVE  /\ obj \in Copies /\ cache \in Copies /\ mem \in Copies
           /\ pc # "idle" => mem \in LiveObjects
           /\ mem.exists => mem \in LiveObjects
           /\ obj.exists => obj \in LiveObjects
           /\ cache.exists => cache \in LiveObjects
<1>1. obj \in Copies /\ cache \in Copies /\ mem \in Copies
  BY DEF Typed, TypeOK, Copies
<1> QED BY <1>1, Exists DEF Typed, TypeOK

-----------------------------------------------------------------------------
(* Lemmas on the broker *)

Brokers == [Ids -> Bindings]

\* What a request may have made of the binding id.
LEMMA BegunOrDone ==
    ASSUME broker \in Brokers, NEW id \in Ids, NEW p \in Params \cup {NoParams}
    PROVE  /\ Bound(id, p) \in Brokers
           /\ Binding(id, p) \in Brokers
           /\ [broker EXCEPT ![id] = NoBinding] \in Brokers
           /\ [broker EXCEPT ![id].op = "unbind",
                             ![id].state = "in progress"] \in Brokers
<1>1. NoBinding \in Bindings
  BY DEF NoBinding, Bindings
<1>2. /\ [NoBinding EXCEPT !.present = TRUE, !.params = p] \in Bindings
      /\ [NoBinding EXCEPT !.params = p, !.op = "bind",
                           !.state = "in progress"] \in Bindings
  BY DEF NoBinding, Bindings, States
<1>3. broker[id] \in Bindings
  BY DEF Brokers
<1>4. [broker[id] EXCEPT !.op = "unbind", !.state = "in progress"] \in Bindings
  BY <1>3 DEF Bindings, States
<1>5. \A b \in Bindings : [broker EXCEPT ![id] = b] \in Brokers
  BY DEF Brokers
<1>6. [broker EXCEPT ![id].op = "unbind", ![id].state = "in progress"]
        = [broker EXCEPT ![id] = [broker[id] EXCEPT !.op = "unbind",
                                                    !.state = "in progress"]]
  BY DEF Brokers
<1> QED BY <1>1, <1>2, <1>4, <1>5, <1>6 DEF Bound, Binding

Reply(r) == r.b \in Brokers /\ r.out \in {"error", "sync", "async"}

\* A reply tells of a broker, and of one of three outcomes.
LEMMA AcceptedReplies ==
    ASSUME broker \in Brokers, NEW begun \in Brokers, NEW done \in Brokers,
           NEW modes \in SUBSET BrokerModes,
           BrokerModes \subseteq {"sync", "async"}
    PROVE  /\ \A r \in Accepted(modes, begun, done) :
                 /\ Reply(r)
                 /\ r.out = "async" => "async" \in modes
                 /\ \/ r.b = broker
                    \/ r.b = done
                    \/ r.b = begun /\ "async" \in modes
BY DEF Accepted, Reply

\* An answer is a reply, or an error in place of one or of the request.
LEMMA AnswerOf ==
    ASSUME NEW replies, NEW r \in Answers(replies)
    PROVE  /\ r.fault \in {0, 1}
           /\ \/ r.b = broker /\ r.out = "error"
              \/ \E q \in replies : r.b = q.b /\ r.out \in {q.out, "error"}
BY DEF Answers

\* What Bind may be answered, and what the broker then is.
LEMMA BindAnswers ==
    ASSUME broker \in Brokers, NEW id \in Ids, NEW p \in Params,
           NEW r \in Answers(BindReplies(id, p))
    PROVE  /\ Reply(r) /\ r.fault \in {0, 1}
           /\ \/ r.b = broker
              \/ r.b = Bound(id, p)
              \/ r.b = Binding(id, p) /\ "async" \in BindModes
           /\ r.out = "async" => Running(id) \/ "async" \in BindModes
<1>1. Bound(id, p) \in Brokers /\ Binding(id, p) \in Brokers
  BY BegunOrDone
<1>2. BindModes \in SUBSET BrokerModes /\ BrokerModes \subseteq {"sync", "async"}
  BY ConstantsAssumption DEF BindModes
<1>3. \A q \in Accepted(BindModes, Binding(id, p), Bound(id, p)) :
         /\ Reply(q)
         /\ q.out = "async" => "async" \in BindModes
         /\ \/ q.b = broker
            \/ q.b = Bound(id, p)
            \/ q.b = Binding(id, p) /\ "async" \in BindModes
  BY <1>1, <1>2, AcceptedReplies
<1>4. \A q \in BindReplies(id, p) :
         /\ Reply(q)
         /\ q.out = "async" => Running(id) \/ "async" \in BindModes
         /\ \/ q.b = broker
            \/ q.b = Bound(id, p)
            \/ q.b = Binding(id, p) /\ "async" \in BindModes
  BY <1>3 DEF BindReplies, Refused, Reply
<1> QED BY <1>4, AnswerOf DEF Reply

\* What TriggerRotation may be answered.
LEMMA RotateAnswers ==
    ASSUME broker \in Brokers, NEW new \in Ids, NEW old \in Ids,
           NEW r \in Answers(RotateReplies(new, old))
    PROVE  LET p == broker[old].params IN
           /\ p \in Params \cup {NoParams}
           /\ Reply(r) /\ r.fault \in {0, 1}
           /\ \/ r.b = broker
              \/ r.b = Bound(new, p)
              \/ r.b = Binding(new, p) /\ "async" \in BrokerModes
           /\ r.out = "async" => "async" \in BrokerModes
<1> DEFINE p == broker[old].params
<1>1. p \in Params \cup {NoParams}
  BY DEF Brokers, Bindings
<1>2. Bound(new, p) \in Brokers /\ Binding(new, p) \in Brokers
  BY <1>1, BegunOrDone
<1>3. RotateModes \in SUBSET BrokerModes /\ BrokerModes \subseteq {"sync", "async"}
  BY ConstantsAssumption DEF RotateModes
<1>4. \A q \in Accepted(RotateModes, Binding(new, p), Bound(new, p)) :
         /\ Reply(q)
         /\ q.out = "async" => "async" \in BrokerModes
         /\ \/ q.b = broker
            \/ q.b = Bound(new, p)
            \/ q.b = Binding(new, p) /\ "async" \in BrokerModes
  BY <1>2, <1>3, AcceptedReplies
<1>5. \A q \in RotateReplies(new, old) :
         /\ Reply(q)
         /\ q.out = "async" => "async" \in BrokerModes
         /\ \/ q.b = broker
            \/ q.b = Bound(new, p)
            \/ q.b = Binding(new, p) /\ "async" \in BrokerModes
  BY <1>4 DEF RotateReplies, Refused, Reply
<1> QED BY <1>1, <1>5, AnswerOf DEF Reply

\* An unbind of id, begun and done.
Unbinding(id) == [broker EXCEPT ![id].op = "unbind",
                                ![id].state = "in progress"]
Unbound(id) == [broker EXCEPT ![id] = NoBinding]

\* What UnBind may be answered.
LEMMA UnbindAnswers ==
    ASSUME broker \in Brokers, NEW id \in Ids,
           NEW r \in Answers(UnbindReplies(id))
    PROVE  /\ Reply(r) /\ r.fault \in {0, 1}
           /\ \/ r.b = broker
              \/ r.b = Unbound(id)
              \/ r.b = Unbinding(id) /\ "async" \in BrokerModes
           /\ r.out = "async" => Running(id) \/ "async" \in BrokerModes
<1> DEFINE taken == Accepted(UnbindModes, Unbinding(id), Unbound(id))
<1>1. Unbound(id) \in Brokers /\ Unbinding(id) \in Brokers
  BY BegunOrDone DEF Unbinding, Unbound
<1>2. UnbindModes \in SUBSET BrokerModes /\ BrokerModes \subseteq {"sync", "async"}
  BY ConstantsAssumption DEF UnbindModes
<1>3. \A q \in taken :
         /\ Reply(q)
         /\ q.out = "async" => "async" \in BrokerModes
         /\ \/ q.b = broker
            \/ q.b = Unbound(id)
            \/ q.b = Unbinding(id) /\ "async" \in BrokerModes
  BY <1>1, <1>2, AcceptedReplies
<1>4. \/ UnbindReplies(id) = taken
      \/ UnbindReplies(id) = Refused
      \/ Running(id) /\ UnbindReplies(id) = {[b |-> broker, out |-> "async"]}
  BY DEF UnbindReplies, Unbinding, Unbound
<1> HIDE DEF taken
<1>5. \A q \in UnbindReplies(id) :
         /\ Reply(q)
         /\ q.out = "async" => Running(id) \/ "async" \in BrokerModes
         /\ \/ q.b = broker
            \/ q.b = Unbound(id)
            \/ q.b = Unbinding(id) /\ "async" \in BrokerModes
  BY <1>3, <1>4 DEF Refused, Reply
<1> QED BY <1>5, AnswerOf DEF Reply

\* What the broker does on its own leaves it a broker.
LEMMA BrokerAlone ==
    ASSUME Typed
    PROVE  /\ broker \in Brokers
           /\ BrokerSucceeds \/ BrokerFails \/ BrokerLosesBinding
              \/ RenewalComes \/ InstanceGoes => broker' \in Brokers
<1>1. broker \in Brokers
  BY DEF Typed, TypeOK, Brokers
<1>2. NoBinding \in Bindings
  BY DEF NoBinding, Bindings
<1>3. \A id \in Ids : \A b \in Bindings : [broker EXCEPT ![id] = b] \in Brokers
  BY <1>1 DEF Brokers
<1>4. \A b \in Bindings :
         /\ [b EXCEPT !.present = TRUE, !.state = "succeeded"] \in Bindings
         /\ [b EXCEPT !.op = "unbind", !.state = "succeeded"] \in Bindings
         /\ [b EXCEPT !.state = "failed"] \in Bindings
         /\ [b EXCEPT !.due = TRUE] \in Bindings
  BY DEF Bindings, States
<1>5. \A id \in Ids : broker[id] \in Bindings
  BY <1>1 DEF Brokers
<1>6. CASE BrokerSucceeds
  <2>1. PICK id \in Ids :
          broker' = [broker EXCEPT ![id] =
                      IF broker[id].op = "bind"
                        THEN [@ EXCEPT !.present = TRUE, !.state = "succeeded"]
                        ELSE [NoBinding EXCEPT !.op = "unbind",
                                               !.state = "succeeded"]]
    BY <1>6 DEF BrokerSucceeds
  <2> DEFINE b == IF broker[id].op = "bind"
                    THEN [broker[id] EXCEPT !.present = TRUE,
                                            !.state = "succeeded"]
                    ELSE [NoBinding EXCEPT !.op = "unbind",
                                           !.state = "succeeded"]
  <2>2. b \in Bindings
    BY <1>2, <1>4, <1>5
  <2>3. broker' = [broker EXCEPT ![id] = b]
    BY <2>1
  <2> HIDE DEF b
  <2> QED BY <1>1, <1>3, <2>2, <2>3
<1>7. CASE BrokerFails
  <2>1. PICK id \in Ids : broker' = [broker EXCEPT ![id].state = "failed"]
    BY <1>7 DEF BrokerFails
  <2>2. broker' = [broker EXCEPT ![id] = [broker[id] EXCEPT !.state = "failed"]]
    BY <2>1
  <2> QED BY <1>1, <1>3, <1>4, <1>5, <2>2
<1>8. CASE BrokerLosesBinding
  BY <1>1, <1>2, <1>3, <1>8 DEF BrokerLosesBinding
<1>9. CASE RenewalComes
  <2>1. PICK id \in Ids : broker' = [broker EXCEPT ![id].due = TRUE]
    BY <1>9 DEF RenewalComes
  <2>2. broker' = [broker EXCEPT ![id] = [broker[id] EXCEPT !.due = TRUE]]
    BY <2>1
  <2> QED BY <1>1, <1>3, <1>4, <1>5, <2>2
<1>10. CASE InstanceGoes
  <2>1. broker' = [id \in Ids |-> NoBinding]
    BY <1>10 DEF InstanceGoes
  <2>2. [id \in Ids |-> NoBinding] \in Brokers
    BY <1>2, Zenon DEF Brokers
  <2> QED BY <1>1, <2>1, <2>2
<1> QED BY <1>1, <1>6, <1>7, <1>8, <1>9, <1>10

-----------------------------------------------------------------------------
(* The types and the names *)

\* Typed in three parts: the copies, the progress of the reconcile, the rest.
ObjectTypes ==
    /\ obj \in Copies /\ cache \in Copies /\ mem \in Copies
    /\ cacheFresh \in BOOLEAN /\ memFresh \in BOOLEAN
    /\ pc \in Steps
    /\ pc # "idle" => mem.exists
    /\ NamesInv /\ VersionsInv

ProgressTypes ==
    /\ polled \in {""} \cup States
    /\ pc = "latest" => polled \in States
    /\ creds \in {NoName, Name}

OuterTypes ==
    /\ secret \in {NoName} \cup Ids
    /\ broker \in Brokers
    /\ sent \in {"", "create", "delete"}
    /\ edits \in 0..MaxEdits
    /\ faults \in 0..MaxFaults
    /\ instance \in BOOLEAN

\* The parts are the whole, before a step and after it.
LEMMA Parts ==
    /\ Typed <=> ObjectTypes /\ ProgressTypes /\ OuterTypes
    /\ Typed' <=> ObjectTypes' /\ ProgressTypes' /\ OuterTypes'
<1> HIDE DEF States, Steps, NamesInv, VersionsInv
<1> QED
  BY DEF Typed, TypeOK, ObjectTypes, ProgressTypes, OuterTypes, Copies, Brokers

\* One more fault within the bound is within the bound.
LEMMA FaultCounted ==
    ASSUME OuterTypes, NEW k \in {0, 1}, faults + k <= MaxFaults
    PROVE  faults + k \in 0..MaxFaults
<1>1. faults \in 0..MaxFaults
  BY DEF OuterTypes
<1>2. MaxFaults \in Nat
  BY ConstantsAssumption
<1> QED BY <1>1, <1>2

\* The same for the two ways in which most actions count.
LEMMA MoreFaults ==
    ASSUME OuterTypes,
           faults' = faults \/ (faults < MaxFaults /\ faults' = faults + 1)
    PROVE  faults' \in 0..MaxFaults
<1>1. faults \in 0..MaxFaults
  BY DEF OuterTypes
<1>2. MaxFaults \in Nat
  BY ConstantsAssumption
<1> QED BY <1>1, <1>2

\* A running reconcile that goes on with an object like its own.
LEMMA GoesOn ==
    ASSUME Typed, pc # "idle", UNCHANGED kubeVars, memFresh' \in BOOLEAN,
           memFresh' => obj.exists,
           pc' \in Steps \ {"idle"}, Alike(mem, mem'), pc # "finish"
    PROVE  ObjectTypes'
<1> HIDE DEF Steps
<1> QED
  BY Parts, LiveFields
     DEF ObjectTypes, NamesInv, VersionsInv, kubeVars, Copies, Alike

\* A reconcile that ends after a write or none.
LEMMA Ends ==
    ASSUME Typed, Return, obj' \in Copies, obj'.exists => obj'.name = Name,
           cache' = cache, cacheFresh' \in BOOLEAN,
           cacheFresh' => cacheFresh /\ obj' = obj
    PROVE  ObjectTypes' /\ ProgressTypes'
BY Parts, Nothing
   DEF ObjectTypes, ProgressTypes, Return, NamesInv, VersionsInv, Copies, Steps

\* A reconcile that writes the object, or is refused.
LEMMA Updates ==
    ASSUME Typed, NEW m \in LiveObjects, m.name = Name, NEW next \in Steps,
           next # "idle", UpdateObject(m, next), pc \notin {"idle", "finish"},
           memFresh' = memFresh
    PROVE  ObjectTypes'
<1>1. obj \in Copies /\ mem \in LiveObjects
  BY CopyTypes
<1>2. CASE pc' = next /\ MainUpdate(m)
  <2>1. Alike(m, obj') /\ Alike(m, mem') /\ cache' = cache
        /\ cacheFresh' \in BOOLEAN /\ (cacheFresh' => cacheFresh /\ obj' = obj)
    BY <1>1, <1>2, Written
  <2>2. obj' \in Copies /\ mem' \in Copies /\ mem'.exists /\ obj'.exists
    BY <2>1, LiveFields DEF Alike, Copies
  <2>3. obj'.name = Name /\ mem'.name = Name
    BY <2>1 DEF Alike
  <2> HIDE DEF Steps
  <2> QED BY <1>2, <2>1, <2>2, <2>3, Parts
         DEF ObjectTypes, NamesInv, VersionsInv
<1>3. CASE pc' = "finish" /\ Alike(mem, mem') /\ UNCHANGED kubeVars
  BY <1>3, GoesOn, Parts DEF ObjectTypes, VersionsInv, Steps
<1> QED BY <1>1, <1>2, <1>3, ObjectUpdated

\* Init: nothing is stored, bound or running.
LEMMA InitTyped == Init => Typed
<1> SUFFICES ASSUME Init PROVE Typed
  OBVIOUS
<1>1. [id \in Ids |-> NoBinding] \in Brokers
  <2>1. NoBinding \in Bindings
    BY DEF NoBinding, Bindings
  <2> QED BY <2>1, Zenon DEF Brokers
<1>2. 0 \in 0..MaxEdits /\ 0 \in 0..MaxFaults
  <2>1. MaxEdits \in Nat /\ MaxFaults \in Nat
    BY ConstantsAssumption
  <2> QED BY <2>1
<1>3. OuterTypes
  BY <1>1, <1>2 DEF Init, OuterTypes
<1>4. ObjectTypes
  BY Nothing DEF Init, ObjectTypes, NamesInv, VersionsInv, Copies, Steps
<1>5. ProgressTypes
  BY DEF Init, ProgressTypes
<1> QED BY <1>3, <1>4, <1>5, Parts

\* Nothing of the broker, the user and the bounds changes.
LEMMA OuterSame ==
    ASSUME OuterTypes, UNCHANGED <<outerVars, boundVars>>
    PROVE  OuterTypes'
<1> HIDE DEF Brokers, Ids
<1> QED BY DEF OuterTypes, outerVars, boundVars

\* An event brings the cache the stored object.
LEMMA CacheSyncTyped == Typed /\ CacheSync => Typed'
<1> SUFFICES ASSUME Typed, CacheSync PROVE Typed'
  OBVIOUS
<1>1. OuterTypes'
  BY Parts, OuterSame DEF CacheSync
<1>2. ObjectTypes' /\ ProgressTypes'
  <2> HIDE DEF Steps, States
  <2> QED
    BY Parts
       DEF CacheSync, localVars, ObjectTypes, ProgressTypes, NamesInv,
           VersionsInv
<1> QED BY <1>1, <1>2, Parts

\* A reconcile starts with the cached object (StartReconcile).
LEMMA StartReconcileTyped == Typed /\ StartReconcile => Typed'
<1> SUFFICES ASSUME Typed, StartReconcile PROVE Typed'
  OBVIOUS
<1>1. OuterTypes'
  BY Parts, OuterSame DEF StartReconcile
<1>2. ProgressTypes'
  BY Parts DEF StartReconcile, ProgressTypes
<1>3. cache \in LiveObjects /\ cache.name = Name
  BY CopyTypes DEF StartReconcile, Typed, NamesInv, VersionsInv
<1>4. Alike(cache, mem')
  <2> DEFINE m == [cache EXCEPT !.status.ready = "Creating"]
  <2>1. Alike(cache, m)
    BY <1>3, ReadyReplaced
  <2>2. m \in LiveObjects
    BY <2>1 DEF Alike
  <2>3. Alike(m, Erred(m))
    BY <2>2, StatusSetters
  <2>4. mem' \in {Erred(m), cache}
    BY DEF StartReconcile
  <2> HIDE DEF m
  <2> QED BY <2>1, <2>3, <2>4, <1>3, AlikeChain, StatusSetters
<1>5. mem' \in LiveObjects /\ mem'.name = Name
  BY <1>3, <1>4 DEF Alike
<1>6. pc' \in {"observe", "finish"} /\ memFresh' = cacheFresh /\ UNCHANGED kubeVars
  BY DEF StartReconcile
<1>7. ObjectTypes'
  <2>1. memFresh' \in BOOLEAN /\ (memFresh' => obj.exists)
    BY <1>3, <1>6, Parts, LiveFields DEF ObjectTypes, VersionsInv
  <2>2. mem' \in Copies /\ mem'.exists /\ pc' \in Steps
    BY <1>5, <1>6, LiveFields DEF Copies, Steps
  <2> HIDE DEF Steps
  <2> QED
    BY <1>5, <1>6, <2>1, <2>2, Parts
       DEF ObjectTypes, NamesInv, VersionsInv, kubeVars
<1> QED BY <1>1, <1>2, <1>7, Parts

\* The poll leaves a state to be given to the object, or none.
LEMMA PollTyped == Typed /\ PollBindingLastOperation => Typed'
<1> SUFFICES ASSUME Typed, PollBindingLastOperation PROVE Typed'
  OBVIOUS
<1>1. mem \in LiveObjects
  BY CopyTypes DEF PollBindingLastOperation
<1>2. Alike(mem, mem')
  BY <1>1, StatusSetters DEF PollBindingLastOperation
<1>3. pc' \in {"latest", "absent", "finish"}
  BY DEF PollBindingLastOperation
<1>4. ObjectTypes'
  BY <1>2, <1>3, GoesOn, Parts
     DEF PollBindingLastOperation, ObjectTypes, VersionsInv, Steps
<1>5. ProgressTypes'
  <2> HIDE DEF States
  <2> QED BY Parts DEF PollBindingLastOperation, ProgressTypes
<1>6. faults' \in 0..MaxFaults
  <2>1. faults' = faults \/ (faults < MaxFaults /\ faults' = faults + 1)
    BY DEF PollBindingLastOperation
  <2> QED BY <2>1, Parts, MoreFaults
<1>7. OuterTypes'
  <2> HIDE DEF Ids, Brokers
  <2> QED
    BY <1>6, Parts DEF PollBindingLastOperation, OuterTypes, outerVars
<1> QED BY <1>4, <1>5, <1>7, Parts

\* The object read again is the cached one, or the reconcile is over.
LEMMA GetLatestTyped == Typed /\ GetLatestKubeObject => Typed'
<1> SUFFICES ASSUME Typed, GetLatestKubeObject PROVE Typed'
  OBVIOUS
<1>1. OuterTypes'
  BY Parts, OuterSame DEF GetLatestKubeObject
<1>2. CASE cache.exists
  <2>1. cache \in LiveObjects /\ cache.name = Name /\ polled \in States
    BY <1>2, CopyTypes
       DEF GetLatestKubeObject, Typed, NamesInv, VersionsInv, TypeOK
  <2> DEFINE m == UpdateStatusFromLastOp(cache, polled)
  <2>2. Alike(cache, m)
    BY <2>1, StatusSetters
  <2>3. m \in LiveObjects
    BY <2>2 DEF Alike
  <2>4. Alike(m, Observe(m))
    BY <2>3, StatusSetters
  <2>5. /\ mem' = Observe(m) /\ memFresh' = cacheFresh /\ pc' = "upToDate"
        /\ polled' = "" /\ creds' = creds /\ UNCHANGED kubeVars
    BY <1>2 DEF GetLatestKubeObject
  <2> HIDE DEF m
  <2>6. mem' \in LiveObjects /\ mem'.name = Name
    BY <2>1, <2>2, <2>4, <2>5 DEF Alike
  <2>7. ObjectTypes'
    <3>1. memFresh' \in BOOLEAN /\ (memFresh' => obj.exists)
      BY <1>2, <2>5, Parts DEF ObjectTypes, VersionsInv
    <3>2. mem' \in Copies /\ mem'.exists /\ pc' \in Steps
      BY <2>5, <2>6, LiveFields DEF Copies, Steps
    <3> HIDE DEF Steps
    <3> QED
      BY <2>5, <2>6, <3>1, <3>2, Parts
         DEF ObjectTypes, NamesInv, VersionsInv, kubeVars
  <2>8. ProgressTypes'
    BY <2>5, Parts DEF ProgressTypes
  <2> QED BY <1>1, <2>7, <2>8, Parts
<1>3. CASE ~cache.exists
  <2>1. Return /\ UNCHANGED kubeVars
    BY <1>3 DEF GetLatestKubeObject
  <2>2. obj' \in Copies /\ (obj'.exists => obj'.name = Name) /\ cache' = cache
        /\ cacheFresh' \in BOOLEAN /\ (cacheFresh' => cacheFresh /\ obj' = obj)
    BY <2>1, Parts DEF kubeVars, ObjectTypes, NamesInv, VersionsInv
  <2> QED BY <1>1, <2>1, <2>2, Ends, Parts
<1> QED BY <1>2, <1>3

\* Observe ends in one of four steps.
LEMMA ObservedStep ==
    ASSUME Metadata \in {"none", "bare", "renew", "noExpiry"}, NEW o,
           NEW b \in Bindings
    PROVE  Observed(o, b) \in {"finish", "upToDate", "outdated"}
<1>1. b.due \in BOOLEAN
  BY DEF Bindings
<1>2. HandleRenewalBindings(b) \in {"error", "RenewalData", "RotateBinding",
                                    "NothingToDo"}
  BY <1>1 DEF HandleRenewalBindings
<1> HIDE DEF HandleRenewalBindings
<1> QED BY <1>2 DEF Observed

\* What GetBinding publishes is of the object's own name.
LEMMA GetBindingTyped == Typed /\ GetBinding => Typed'
<1> SUFFICES ASSUME Typed, GetBinding PROVE Typed'
  OBVIOUS
<1>1. mem \in LiveObjects /\ mem.name = Name /\ Name \in Ids
  BY CopyTypes DEF GetBinding, Typed, NamesInv, VersionsInv, Ids
<1>2. broker[Name] \in Bindings
  BY <1>1, Parts DEF OuterTypes, Brokers
<1>3. pc' \in {"absent", "finish", "upToDate", "outdated"}
  BY <1>1, <1>2, ObservedStep, ConstantsAssumption DEF GetBinding
<1>4. Alike(mem, mem')
  BY <1>1, <1>3, GotCopy
<1>5. ObjectTypes'
  BY <1>3, <1>4, GoesOn, Parts
     DEF GetBinding, ObjectTypes, VersionsInv, Steps
<1>6. ProgressTypes'
  <2>1. pc' # "latest" /\ UNCHANGED <<polled, creds>>
    BY <1>3 DEF GetBinding
  <2> HIDE DEF States
  <2> QED BY <2>1, Parts DEF ProgressTypes
<1>7. faults' \in 0..MaxFaults
  <2>1. faults' = faults \/ (faults < MaxFaults /\ faults' = faults + 1)
    BY DEF GetBinding
  <2> QED BY <2>1, Parts, MoreFaults
<1>8. secret' \in {secret, Name}
  BY <1>1 DEF GetBinding
<1>9. OuterTypes'
  <2>1. UNCHANGED <<broker, sent, edits, instance>>
    BY DEF GetBinding
  <2>2. secret' \in {NoName} \cup Ids
    BY <1>1, <1>8, Parts DEF OuterTypes
  <2> HIDE DEF Ids, Brokers
  <2> QED BY <1>7, <2>1, <2>2, Parts DEF OuterTypes
<1> QED BY <1>5, <1>6, <1>9, Parts

\* RemoveFinalizer leaves the object as it is, or nothing.
LEMMA RemoveFinalizerTyped == Typed /\ RemoveFinalizer => Typed'
<1> SUFFICES ASSUME Typed, RemoveFinalizer PROVE Typed'
  OBVIOUS
<1>1. Return
  BY DEF RemoveFinalizer
<1>2. \/ UNCHANGED <<kubeVars, sent, secret>>
      \/ Store(NoObject) /\ sent' = "" /\ secret' = NoName
  BY DEF RemoveFinalizer
<1>3. obj' \in Copies /\ (obj'.exists => obj'.name = Name) /\ cache' = cache
      /\ cacheFresh' \in BOOLEAN /\ (cacheFresh' => cacheFresh /\ obj' = obj)
  BY <1>2, Parts, Nothing
     DEF kubeVars, Store, ObjectTypes, NamesInv, VersionsInv, Copies
<1>4. OuterTypes'
  <2>1. UNCHANGED <<broker, boundVars>>
    BY DEF RemoveFinalizer
  <2>2. secret' \in {NoName} \cup Ids /\ sent' \in {"", "create", "delete"}
    BY <1>2, Parts DEF OuterTypes
  <2> HIDE DEF Ids, Brokers
  <2> QED BY <2>1, <2>2, Parts DEF OuterTypes, boundVars
<1> QED BY <1>1, <1>3, <1>4, Ends, Parts

\* AddFinalizer writes a live object, or is refused.
LEMMA AddFinalizerTyped == Typed /\ AddFinalizer => Typed'
<1> SUFFICES ASSUME Typed, AddFinalizer PROVE Typed'
  OBVIOUS
<1> DEFINE m == [mem EXCEPT !.finalizer = TRUE]
<1>1. pc \in {"absent", "upToDate", "outdated"} /\ mem \in LiveObjects
      /\ mem.name = Name
  BY CopyTypes DEF AddFinalizer, Typed, NamesInv, VersionsInv
<1>2. m \in LiveObjects /\ m.name = mem.name
  BY <1>1, FinalizerAdded
<1>3. UpdateObject(m, pc) /\ memFresh' = memFresh
  BY DEF AddFinalizer
<1> HIDE DEF m
<1>4. ObjectTypes'
  <2>1. pc \in Steps /\ pc # "idle" /\ pc \notin {"idle", "finish"}
    BY <1>1 DEF Steps
  <2> QED BY <1>1, <1>2, <1>3, <2>1, Updates
<1>5. ProgressTypes'
  <2>1. pc' # "latest" /\ UNCHANGED <<polled, creds>>
    BY <1>1 DEF AddFinalizer, UpdateObject
  <2> HIDE DEF States
  <2> QED BY <2>1, Parts DEF ProgressTypes
<1>6. OuterTypes'
  BY Parts, OuterSame DEF AddFinalizer
<1> QED BY <1>4, <1>5, <1>6, Parts

\* So does MarkCreatePending.
LEMMA MarkCreatePendingTyped == Typed /\ MarkCreatePending => Typed'
<1> SUFFICES ASSUME Typed, MarkCreatePending PROVE Typed'
  OBVIOUS
<1> DEFINE m == [mem EXCEPT !.create = "pending"]
<1>1. pc = "absent" /\ mem \in LiveObjects /\ mem.name = Name
  BY CopyTypes DEF MarkCreatePending, Typed, NamesInv, VersionsInv
<1>2. m \in LiveObjects /\ m.name = mem.name
  BY <1>1, CreateMarked DEF Marked
<1>3. UpdateObject(m, "bind") /\ memFresh' = memFresh
  BY DEF MarkCreatePending
<1> HIDE DEF m
<1>4. ObjectTypes'
  <2>1. "bind" \in Steps /\ "bind" # "idle" /\ pc \notin {"idle", "finish"}
    BY <1>1 DEF Steps
  <2> QED BY <1>1, <1>2, <1>3, <2>1, Updates
<1>5. ProgressTypes'
  <2>1. pc' # "latest" /\ UNCHANGED <<polled, creds>>
    BY DEF MarkCreatePending, UpdateObject
  <2> HIDE DEF States
  <2> QED BY <2>1, Parts DEF ProgressTypes
<1>6. OuterTypes'
  BY Parts, OuterSame DEF MarkCreatePending
<1> QED BY <1>4, <1>5, <1>6, Parts

\* mem after Bind is mem with the outcome, and the last operation if begun.
LEMMA BindMem ==
    ASSUME Typed, Bind
    PROVE  /\ mem \in LiveObjects /\ mem' \in LiveObjects
           /\ mem'.deleted = mem.deleted /\ mem'.finalizer = mem.finalizer
           /\ mem'.name = mem.name /\ mem'.params = mem.params
           /\ mem'.status.lastOp = mem.status.lastOp
                \/ \E r \in Answers(BindReplies(mem.name, mem.params)) :
                     r.out = "async"
<1>1. mem \in LiveObjects
  BY CopyTypes DEF Bind
<1>2. HandleAsyncStatus(mem) \in LiveObjects
      /\ Alike(mem, HandleAsyncStatus(mem))
  BY <1>1, StatusSetters DEF Alike
<1>3. \/ mem' \in {Created(mem, "failed"), Created(mem, "succeeded")}
      \/ /\ mem' = Created(HandleAsyncStatus(mem), "succeeded")
         /\ \E r \in Answers(BindReplies(mem.name, mem.params)) :
              r.out = "async"
  <2>1. CASE ~ConvertSpecsData(mem)
    BY <2>1 DEF Bind
  <2>2. CASE ConvertSpecsData(mem)
    <3>1. PICK r \in Answers(BindReplies(mem.name, mem.params)) :
            mem' = CASE r.out = "error" -> Created(mem, "failed")
                     [] r.out = "async" ->
                          Created(HandleAsyncStatus(mem), "succeeded")
                     [] r.out = "sync" -> Created(mem, "succeeded")
      BY <2>2 DEF Bind
    <3>2. r.out \in {"error", "sync", "async"}
      <4>1. broker \in Brokers /\ mem.name \in Ids /\ mem.params \in Params
        BY <1>1, Parts, LiveFields DEF OuterTypes
      <4> QED BY <4>1, BindAnswers DEF Reply
    <3> QED BY <3>1, <3>2
  <2> QED BY <2>1, <2>2
<1>4. \A o \in LiveObjects : \A c \in {"succeeded", "failed"} :
         Marked(o, Created(o, c), c)
  BY CreateMarked DEF Created
<1> HIDE DEF Created, HandleAsyncStatus
<1> QED BY <1>1, <1>2, <1>3, <1>4 DEF Alike, Marked

\* What Bind does to the broker.
LEMMA BindBroker ==
    ASSUME Typed, Bind
    PROVE  \/ UNCHANGED <<broker, creds, sent, faults>>
           \/ /\ mem.params \in Params
              /\ \E r \in Answers(BindReplies(Name, mem.params)) : Answered(r)
              /\ creds' \in {NoName, Name}
              /\ sent' = "create"
BY CopyTypes, LiveFields DEF Bind, Typed, NamesInv, VersionsInv

\* What an answer does to the broker and the counter.
LEMMA AnsweredTypes ==
    ASSUME OuterTypes, NEW r, Reply(r), r.fault \in {0, 1}, Answered(r)
    PROVE  broker' \in Brokers /\ faults' \in 0..MaxFaults
BY FaultCounted DEF Answered, Reply

\* Create returns credentials of the object's own name, or none.
LEMMA BindTyped == Typed /\ Bind => Typed'
<1> SUFFICES ASSUME Typed, Bind PROVE Typed'
  OBVIOUS
<1>1. mem.name = Name /\ Name \in Ids
  BY DEF Bind, Typed, NamesInv, VersionsInv, Ids
<1>2. broker' \in Brokers /\ faults' \in 0..MaxFaults
      /\ sent' \in {"", "create", "delete"} /\ creds' \in {NoName, Name}
  <2>1. CASE UNCHANGED <<broker, creds, sent, faults>>
    BY <2>1, Parts DEF OuterTypes, ProgressTypes
  <2>2. CASE /\ mem.params \in Params
             /\ \E r \in Answers(BindReplies(Name, mem.params)) : Answered(r)
             /\ creds' \in {NoName, Name}
             /\ sent' = "create"
    <3>1. PICK r \in Answers(BindReplies(Name, mem.params)) : Answered(r)
      BY <2>2
    <3>2. broker \in Brokers
      BY Parts DEF OuterTypes
    <3>3. Reply(r) /\ r.fault \in {0, 1}
      BY <1>1, <2>2, <3>2, BindAnswers
    <3> QED BY <2>2, <3>1, <3>3, Parts, AnsweredTypes
  <2> QED BY <2>1, <2>2, BindBroker
<1>3. ObjectTypes'
  <2>1. mem' \in LiveObjects /\ mem'.name = Name
    BY <1>1, BindMem
  <2>2. pc' = "annotate" /\ memFresh' = memFresh /\ UNCHANGED kubeVars
    BY DEF Bind
  <2> QED
    BY <2>1, <2>2, Parts, LiveFields
       DEF ObjectTypes, NamesInv, VersionsInv, Copies, Steps,
       kubeVars
<1>4. ProgressTypes'
  <2>1. pc' # "latest" /\ polled' = polled
    BY DEF Bind
  <2> HIDE DEF States
  <2> QED BY <1>2, <2>1, Parts DEF ProgressTypes
<1>5. OuterTypes'
  <2>1. UNCHANGED <<secret, edits, instance>>
    BY DEF Bind
  <2> HIDE DEF Ids, Brokers
  <2> QED BY <1>2, <2>1, Parts DEF OuterTypes
<1> QED BY <1>3, <1>4, <1>5, Parts

\* UpdateCriticalAnnotations writes the object, reads it again or gives up.
AnnotationWritten ==
    /\ memFresh /\ memFresh' = memFresh
    /\ pc' = "finish"
    /\ Alike(mem, obj') /\ obj'.status.lastOp = obj.status.lastOp
    /\ Alike(mem, mem')
    /\ mem'.status.lastOp \in {obj.status.lastOp, mem.status.lastOp}
    /\ cache' = cache
    /\ cacheFresh' \in BOOLEAN
    /\ cacheFresh' => cacheFresh /\ obj' = obj
    /\ secret' \in {secret, Name}

ObjectReread ==
    /\ cache.exists /\ memFresh' = cacheFresh
    /\ mem' \in LiveObjects
    /\ mem'.deleted = cache.deleted
    /\ mem'.finalizer = cache.finalizer
    /\ mem'.name = Name
    /\ mem'.status = cache.status
    /\ UNCHANGED <<kubeVars, secret, pc>>

AnnotationGivenUp ==
    /\ Alike(mem, mem')
    /\ mem'.status.lastOp = mem.status.lastOp
    /\ pc' = "finish"
    /\ UNCHANGED <<kubeVars, secret, memFresh>>

\* It does one of the three.
LEMMA AnnotationOutcomes ==
    ASSUME Typed, UpdateCriticalAnnotations
    PROVE  AnnotationWritten \/ ObjectReread \/ AnnotationGivenUp
<1>1. /\ mem \in LiveObjects /\ obj \in Copies
      /\ cache.exists => cache \in LiveObjects
      /\ mem.name = Name /\ Name \in Ids
  BY CopyTypes DEF UpdateCriticalAnnotations, Typed, NamesInv, Ids
<1>2. CASE /\ memFresh
           /\ Store([mem EXCEPT !.status = obj.status])
           /\ mem' = [Decoded(mem) EXCEPT
                        !.status.ready = "Creating",
                        !.status.synced = IF mem.create = "succeeded"
                                            THEN "yes" ELSE "no"]
           /\ secret' = IF creds # NoName THEN creds ELSE secret
           /\ pc' = "finish"
           /\ UNCHANGED memFresh
  <2>1. obj.status \in Statuses
    BY <1>1, Exists
  <2>2. Alike(mem, obj') /\ obj'.status = obj.status
    BY <1>1, <1>2, <2>1, StatusReplaced DEF Store
  <2>3. /\ Alike(mem, Decoded(mem))
        /\ Decoded(mem).status.lastOp \in {obj.status.lastOp, mem.status.lastOp}
    BY <1>1, DecodedObject
  <2> DEFINE s == IF mem.create = "succeeded" THEN "yes" ELSE "no"
             d == Decoded(mem)
             c == [d EXCEPT !.status.ready = "Creating"]
  <2>4. d \in LiveObjects
    BY <2>3 DEF Alike
  <2>5. Alike(d, c) /\ c.status.lastOp = d.status.lastOp
    <3> HIDE DEF d
    <3> QED BY <2>4, ReadyReplaced
  <2>6. c \in LiveObjects
    BY <2>5 DEF Alike
  <2>7. /\ Alike(c, [c EXCEPT !.status.synced = s])
        /\ [c EXCEPT !.status.synced = s].status.lastOp = c.status.lastOp
    <3> HIDE DEF c
    <3> QED BY <2>6, SyncedReplaced
  <2>8. mem' = [c EXCEPT !.status.synced = s]
    <3>1. mem' = [d EXCEPT !.status.ready = "Creating", !.status.synced = s]
      BY <1>2
    <3> HIDE DEF d, s
    <3> QED BY <3>1, <2>4 DEF LiveObjects
  <2>9. secret' \in {secret, Name}
    BY <1>2, Parts DEF ProgressTypes
  <2> HIDE DEF c, d, s
  <2>10. Alike(mem, mem') /\ mem'.status.lastOp = d.status.lastOp
    BY <2>3, <2>5, <2>7, <2>8 DEF Alike, d
  <2> QED BY <1>2, <2>2, <2>3, <2>9, <2>10, Parts
         DEF Store, ObjectTypes, d, AnnotationWritten
<1>3. CASE /\ cache.exists
           /\ mem' = [cache EXCEPT !.create = mem.create, !.name = mem.name]
           /\ memFresh' = cacheFresh
           /\ UNCHANGED <<kubeVars, secret, pc>>
  <2>1. mem.create \in {"", "pending", "succeeded", "failed"}
    BY <1>1, LiveFields
  <2>2. /\ mem' \in LiveObjects
        /\ mem'.deleted = cache.deleted /\ mem'.finalizer = cache.finalizer
        /\ mem'.name = Name /\ mem'.status = cache.status
    BY <1>1, <1>3, <2>1 DEF LiveObjects
  <2> QED BY <1>3, <2>2 DEF ObjectReread
<1>4. CASE /\ mem' = Erred([mem EXCEPT !.status.ready = "Creating"])
           /\ pc' = "finish"
           /\ UNCHANGED <<kubeVars, secret, memFresh>>
  <2> DEFINE c == [mem EXCEPT !.status.ready = "Creating"]
  <2>1. Alike(mem, c) /\ c.status.lastOp = mem.status.lastOp
    BY <1>1, ReadyReplaced
  <2>2. c \in LiveObjects
    BY <2>1 DEF Alike
  <2>3. mem' = Erred(c)
    BY <1>4
  <2> HIDE DEF c
  <2>4. Alike(c, Erred(c)) /\ Erred(c).status.lastOp = c.status.lastOp
    BY <2>2, StatusSetters
  <2> QED BY <1>4, <2>1, <2>3, <2>4, AlikeChain DEF AnnotationGivenUp
<1> QED BY <1>2, <1>3, <1>4 DEF UpdateCriticalAnnotations

\* In each the object in memory is live and of the same name.
LEMMA AnnotationTyped == Typed /\ UpdateCriticalAnnotations => Typed'
<1> SUFFICES ASSUME Typed, UpdateCriticalAnnotations PROVE Typed'
  OBVIOUS
<1>1. pc = "annotate" /\ pc \in Steps /\ "finish" \in Steps /\ Name \in Ids
      /\ mem.name = Name /\ UNCHANGED <<polled, creds, broker, sent, boundVars>>
  BY DEF UpdateCriticalAnnotations, Typed, NamesInv, Steps, Ids
<1>2. secret' \in {secret, Name} /\ pc' \in {"annotate", "finish"}
      /\ pc' \in Steps
  BY <1>1, AnnotationOutcomes
     DEF AnnotationWritten, ObjectReread, AnnotationGivenUp
<1>3. /\ obj' \in Copies /\ (obj'.exists => obj'.name = Name)
      /\ cache' = cache /\ cacheFresh' \in BOOLEAN
      /\ cacheFresh' => cacheFresh /\ obj' = obj
      /\ mem' \in Copies /\ mem'.exists /\ mem'.name = Name
      /\ memFresh' \in BOOLEAN /\ (memFresh' => obj'.exists)
  <2>1. CASE AnnotationWritten
    BY <1>1, <2>1, Parts, LiveFields
       DEF AnnotationWritten, Alike, Copies, ObjectTypes
  <2>2. CASE ObjectReread
    BY <2>2, Parts, LiveFields
       DEF ObjectReread, Copies, ObjectTypes, NamesInv, VersionsInv, kubeVars
  <2>3. CASE AnnotationGivenUp
    BY <1>1, <2>3, Parts, LiveFields
       DEF AnnotationGivenUp, Alike, Copies, ObjectTypes, NamesInv,
           VersionsInv, kubeVars
  <2> QED BY <2>1, <2>2, <2>3, AnnotationOutcomes
<1>4. ObjectTypes'
  <2> HIDE DEF Steps
  <2> QED BY <1>2, <1>3, Parts DEF ObjectTypes, NamesInv, VersionsInv
<1>5. ProgressTypes'
  <2> HIDE DEF States
  <2> QED BY <1>1, <1>2, Parts DEF ProgressTypes
<1>6. OuterTypes'
  <2>1. secret' \in {NoName} \cup Ids
    BY <1>1, <1>2, Parts DEF OuterTypes
  <2> HIDE DEF Ids, Brokers
  <2> QED BY <1>1, <2>1, Parts DEF OuterTypes, boundVars
<1> QED BY <1>4, <1>5, <1>6, Parts

\* TriggerRotation leaves the object in memory but its name and status, and
\* the broker but a new identifier.
RotatedTo(new) ==
    /\ new \in Uuids /\ new \in Ids /\ broker[new] = NoBinding
    /\ broker' \in Brokers /\ faults' \in 0..MaxFaults
    /\ secret' \in {secret, new}
    /\ mem' \in LiveObjects
    /\ mem'.deleted = mem.deleted
    /\ mem'.finalizer = mem.finalizer
    /\ \/ mem'.status.lastOp = mem.status.lastOp
       \/ "async" \in BrokerModes
    /\ \/ broker' = broker
       \/ broker' = Bound(new, broker[Name].params)
       \/ /\ broker' = Binding(new, broker[Name].params)
          /\ "async" \in BrokerModes

\* Rotate draws an identifier that is not in use (uuid.New).
LEMMA RotateOutcome ==
    ASSUME Typed, Rotate
    PROVE  \E new \in Uuids : RotatedTo(new)
<1>1. mem \in LiveObjects /\ mem.name = Name /\ Name \in Ids
  BY CopyTypes DEF Rotate, Typed, NamesInv, Ids
<1>2. PICK new \in Uuids :
         /\ broker[new] = NoBinding
         /\ \E r \in Answers(RotateReplies(new, mem.name)) :
              /\ Answered(r)
              /\ mem' = LET named == Synced([mem EXCEPT !.name = new]) IN
                        CASE r.out = "error" -> Erred(mem)
                          [] r.out = "async" -> HandleAsyncStatus(named)
                          [] r.out = "sync"  -> named
              /\ secret' = IF r.out = "sync" THEN new ELSE secret
  BY DEF Rotate
<1> DEFINE n     == [mem EXCEPT !.name = new]
           named == Synced(n)
<1>3. PICK r \in Answers(RotateReplies(new, mem.name)) :
         /\ Answered(r)
         /\ mem' = CASE r.out = "error" -> Erred(mem)
                     [] r.out = "async" -> HandleAsyncStatus(named)
                     [] r.out = "sync"  -> named
         /\ secret' = IF r.out = "sync" THEN new ELSE secret
  BY <1>2
<1>4. new \in Ids /\ broker \in Brokers
  BY Parts DEF OuterTypes, Ids
<1>5. /\ Reply(r) /\ r.fault \in {0, 1}
      /\ \/ r.b = broker
         \/ r.b = Bound(new, broker[Name].params)
         \/ r.b = Binding(new, broker[Name].params) /\ "async" \in BrokerModes
      /\ r.out = "async" => "async" \in BrokerModes
  BY <1>1, <1>4, RotateAnswers
<1>6. /\ n \in LiveObjects /\ n.deleted = mem.deleted
      /\ n.finalizer = mem.finalizer /\ n.status = mem.status
  BY <1>1, <1>4 DEF LiveObjects
<1> HIDE DEF n
<1>7. Alike(n, named) /\ named.status.lastOp = n.status.lastOp
  BY <1>6, StatusSetters
<1>8. named \in LiveObjects
  BY <1>7 DEF Alike
<1> HIDE DEF named
<1>9. Alike(named, HandleAsyncStatus(named))
  BY <1>8, StatusSetters
<1>10. Alike(mem, Erred(mem)) /\ Erred(mem).status.lastOp = mem.status.lastOp
  BY <1>1, StatusSetters
<1>11. /\ mem' \in LiveObjects
       /\ mem'.deleted = mem.deleted
       /\ mem'.finalizer = mem.finalizer
       /\ mem'.status.lastOp = mem.status.lastOp \/ r.out = "async"
  <2>1. r.out \in {"error", "sync", "async"}
    BY <1>5 DEF Reply
  <2> QED BY <1>3, <1>6, <1>7, <1>9, <1>10, <2>1 DEF Alike
<1>12. broker' \in Brokers /\ faults' \in 0..MaxFaults /\ broker' = r.b
  BY <1>3, <1>5, Parts, AnsweredTypes DEF Answered
<1>13. secret' \in {secret, new}
  BY <1>3
<1> QED BY <1>2, <1>4, <1>5, <1>11, <1>12, <1>13 DEF RotatedTo

\* The copy it renamed is not written: the reconcile is at its end.
LEMMA RotateTyped == Typed /\ Rotate => Typed'
<1> SUFFICES ASSUME Typed, Rotate PROVE Typed'
  OBVIOUS
<1>1. PICK new \in Uuids : RotatedTo(new)
  BY RotateOutcome
<1>2. pc' = "finish"
      /\ UNCHANGED <<kubeVars, memFresh, polled, creds, sent, edits, instance>>
  BY DEF Rotate
<1>3. ObjectTypes'
  BY <1>1, <1>2, Parts, LiveFields
     DEF RotatedTo, ObjectTypes, NamesInv, VersionsInv, Copies, Steps, kubeVars
<1>4. ProgressTypes'
  <2> HIDE DEF States
  <2> QED BY <1>2, Parts DEF ProgressTypes
<1>5. OuterTypes'
  <2>1. secret' \in {NoName} \cup Ids /\ broker' \in Brokers
        /\ faults' \in 0..MaxFaults
    BY <1>1, Parts DEF RotatedTo, OuterTypes
  <2> HIDE DEF Ids, Brokers
  <2> QED BY <1>2, <2>1, Parts DEF OuterTypes
<1> QED BY <1>3, <1>4, <1>5, Parts

\* UnBind leaves the object in memory but its status, and the broker but the
\* binding it names.
UnbindOutcome ==
    /\ broker' \in Brokers /\ faults' \in 0..MaxFaults
    /\ Alike(mem, mem')
    /\ \/ mem'.status.lastOp = mem.status.lastOp
       \/ Running(Name)
       \/ "async" \in BrokerModes
    /\ \/ broker' = broker
       \/ broker' = Unbound(Name)
       \/ broker' = Unbinding(Name) /\ "async" \in BrokerModes

\* Unbind does no more.
LEMMA UnbindOutcomes ==
    ASSUME Typed, Unbind
    PROVE  UnbindOutcome
<1>1. mem \in LiveObjects /\ mem.name = Name /\ Name \in Ids
  BY CopyTypes DEF Unbind, Typed, NamesInv, Ids
<1> DEFINE d == Delete(mem)
<1>2. PICK r \in Answers(UnbindReplies(mem.name)) :
        /\ Answered(r)
        /\ mem' = CASE r.out = "error" -> Erred(d)
                    [] r.out = "async" -> Erred(HandleAsyncStatus(d))
                    [] r.out = "sync"  -> Synced(d)
  BY DEF Unbind
<1>3. /\ Reply(r) /\ r.fault \in {0, 1}
      /\ \/ r.b = broker
         \/ r.b = Unbound(Name)
         \/ r.b = Unbinding(Name) /\ "async" \in BrokerModes
      /\ r.out = "async" => Running(Name) \/ "async" \in BrokerModes
  BY <1>1, Parts, UnbindAnswers DEF OuterTypes
<1>4. Alike(mem, d) /\ d.status.lastOp = mem.status.lastOp
  BY <1>1, StatusSetters
<1>5. d \in LiveObjects
  BY <1>4 DEF Alike
<1> HIDE DEF d
<1>6. /\ Alike(d, Erred(d)) /\ Erred(d).status.lastOp = d.status.lastOp
      /\ Alike(d, Synced(d)) /\ Synced(d).status.lastOp = d.status.lastOp
      /\ Alike(d, HandleAsyncStatus(d))
  BY <1>5, StatusSetters
<1>7. HandleAsyncStatus(d) \in LiveObjects
  BY <1>6 DEF Alike
<1>8. Alike(HandleAsyncStatus(d), Erred(HandleAsyncStatus(d)))
  BY <1>7, StatusSetters
<1>9. Alike(mem, mem')
      /\ (mem'.status.lastOp = mem.status.lastOp \/ r.out = "async")
  <2>1. r.out \in {"error", "sync", "async"}
    BY <1>3 DEF Reply
  <2> QED BY <1>2, <1>4, <1>6, <1>8, <2>1 DEF Alike
<1>10. broker' \in Brokers /\ faults' \in 0..MaxFaults /\ broker' = r.b
  BY <1>2, <1>3, Parts, AnsweredTypes DEF Answered
<1> QED BY <1>3, <1>9, <1>10 DEF UnbindOutcome

\* Delete keeps the types.
LEMMA UnbindTyped == Typed /\ Unbind => Typed'
<1> SUFFICES ASSUME Typed, Unbind PROVE Typed'
  OBVIOUS
<1>1. UnbindOutcome
  BY UnbindOutcomes
<1>2. /\ pc \in {"upToDate", "outdated"} /\ pc' = "finish" /\ sent' = "delete"
      /\ UNCHANGED <<kubeVars, memFresh, polled, creds, secret, edits, instance>>
  BY DEF Unbind
<1>3. ObjectTypes'
  <2>1. Alike(mem, mem')
    BY <1>1 DEF UnbindOutcome
  <2> QED
    BY <1>2, <2>1, GoesOn, Parts DEF ObjectTypes, VersionsInv, Steps
<1>4. ProgressTypes'
  <2> HIDE DEF States
  <2> QED BY <1>2, Parts DEF ProgressTypes
<1>5. OuterTypes'
  <2> HIDE DEF Ids, Brokers
  <2> QED BY <1>1, <1>2, Parts DEF OuterTypes, UnbindOutcome
<1> QED BY <1>3, <1>4, <1>5, Parts

\* The last status update is one of a live object, or nothing is written.
LEMMA LastStatus ==
    ASSUME Typed, FinishReconcile
    PROVE  \/ UNCHANGED kubeVars
           \/ /\ memFresh
              /\ Alike(obj, obj')
              /\ obj'.status.lastOp = mem.status.lastOp
              /\ cache' = cache
              /\ cacheFresh' \in BOOLEAN
              /\ cacheFresh' => cacheFresh /\ obj' = obj
<1>1. mem \in LiveObjects
  BY CopyTypes DEF FinishReconcile
<1>2. CASE memFresh /\ Storable(mem.status)
  <2>1. obj \in LiveObjects
    BY <1>2, CopyTypes DEF Typed, VersionsInv
  <2> DEFINE m == IF pc = "upToDate" THEN Synced(mem) ELSE mem
  <2>2. Store([obj EXCEPT !.status = m.status])
    BY <1>2 DEF FinishReconcile
  <2>3. m \in LiveObjects /\ m.status.lastOp = mem.status.lastOp
    BY <1>1, StatusSetters DEF Alike
  <2> HIDE DEF m
  <2>4. m.status \in Statuses
    BY <2>3, LiveFields
  <2> QED BY <1>2, <2>1, <2>2, <2>3, <2>4, StatusWritten
<1>3. CASE ~(memFresh /\ Storable(mem.status))
  BY <1>3 DEF FinishReconcile
<1> QED BY <1>2, <1>3 DEF Typed, TypeOK

\* The reconcile is over, and what it wrote is live.
LEMMA FinishTyped == Typed /\ FinishReconcile => Typed'
<1> SUFFICES ASSUME Typed, FinishReconcile PROVE Typed'
  OBVIOUS
<1>1. Return
  BY DEF FinishReconcile
<1>2. obj' \in Copies /\ (obj'.exists => obj'.name = Name) /\ cache' = cache
      /\ cacheFresh' \in BOOLEAN /\ (cacheFresh' => cacheFresh /\ obj' = obj)
  <2>1. CASE UNCHANGED kubeVars
    BY <2>1, Parts DEF kubeVars, ObjectTypes, NamesInv
  <2>2. CASE memFresh /\ Alike(obj, obj')
    BY <2>2, LastStatus, Parts
       DEF Alike, Copies, ObjectTypes, NamesInv, VersionsInv, kubeVars
  <2> QED BY <2>1, <2>2, LastStatus
<1>3. OuterTypes'
  BY Parts, OuterSame DEF FinishReconcile
<1> QED BY <1>1, <1>2, <1>3, Ends, Parts

\* A crash loses the memory of the reconcile.
LEMMA CrashTyped == Typed /\ Crash => Typed'
<1> SUFFICES ASSUME Typed, Crash PROVE Typed'
  OBVIOUS
<1>1. Return /\ UNCHANGED <<kubeVars, outerVars, edits, instance>>
      /\ faults < MaxFaults /\ faults' = faults + 1
  BY DEF Crash
<1>2. obj' \in Copies /\ (obj'.exists => obj'.name = Name) /\ cache' = cache
      /\ cacheFresh' \in BOOLEAN /\ (cacheFresh' => cacheFresh /\ obj' = obj)
  BY <1>1, Parts DEF kubeVars, ObjectTypes, NamesInv, VersionsInv
<1>3. faults' \in 0..MaxFaults
  BY <1>1, Parts, MoreFaults
<1>4. OuterTypes'
  <2> HIDE DEF Ids, Brokers
  <2> QED BY <1>1, <1>3, Parts DEF OuterTypes, outerVars
<1> QED BY <1>1, <1>2, <1>4, Ends, Parts

\* A new object, as the user creates it.
LEMMA NewLive ==
    ASSUME NEW p \in Params
    PROVE  /\ NewObject(p) \in LiveObjects
           /\ NewObject(p).name = Name /\ NewObject(p).exists
           /\ ~NewObject(p).deleted /\ ~NewObject(p).finalizer
           /\ NewObject(p).status = NoStatus
BY Nothing DEF NewObject, LiveObjects, Ids

\* What the user leaves stored: a new object, the same with other parameters
\* or marked as deleted, or nothing.
LEMMA UserWrites ==
    ASSUME Typed, User
    PROVE  /\ cache' = cache /\ cacheFresh' \in BOOLEAN /\ ~memFresh'
           /\ cacheFresh' => cacheFresh /\ obj' = obj
           /\ UNCHANGED <<mem, pc, polled, creds, broker, sent, faults, instance>>
           /\ \/ UserCreates
              \/ UserEdits
              \/ UserDeletes
           /\ UserCreates => /\ ~obj.exists /\ obj' \in LiveObjects
                             /\ obj'.name = Name
                             /\ ~obj'.deleted /\ ~obj'.finalizer
                             /\ obj'.status = NoStatus
           /\ UserEdits => /\ obj.exists /\ obj' \in LiveObjects
                           /\ obj'.name = obj.name
                           /\ obj'.deleted = obj.deleted
                           /\ obj'.finalizer = obj.finalizer
                           /\ obj'.create = obj.create
                           /\ obj'.status = obj.status
           /\ UserDeletes => /\ obj.exists /\ ~obj.deleted
                             /\ obj.finalizer =>
                                  /\ obj' \in LiveObjects
                                  /\ obj'.name = obj.name
                                  /\ obj'.deleted
                                  /\ obj'.finalizer
                                  /\ obj'.create = obj.create
                                  /\ obj'.status = obj.status
                             /\ ~obj.finalizer => obj' = NoObject
<1>1. cacheFresh \in BOOLEAN
  BY Parts DEF ObjectTypes
<1>2. \E o : Store(o)
  BY DEF User, UserCreates, UserEdits, UserDeletes
<1>3. /\ cache' = cache /\ cacheFresh' \in BOOLEAN
      /\ cacheFresh' => cacheFresh /\ obj' = obj
  BY <1>1, <1>2 DEF Store
<1>4. /\ ~memFresh'
      /\ UNCHANGED <<mem, pc, polled, creds, broker, sent, faults, instance>>
  BY DEF User, UserCreates, UserEdits, UserDeletes, outerVars, boundVars
<1>5. UserCreates => /\ ~obj.exists /\ obj' \in LiveObjects
                     /\ obj'.name = Name
                     /\ ~obj'.deleted /\ ~obj'.finalizer
                     /\ obj'.status = NoStatus
  <2> SUFFICES ASSUME UserCreates
               PROVE  /\ ~obj.exists /\ obj' \in LiveObjects
                      /\ obj'.name = Name
                      /\ ~obj'.deleted /\ ~obj'.finalizer
                      /\ obj'.status = NoStatus
    OBVIOUS
  <2>1. PICK p \in Params : obj' = NewObject(p)
    BY DEF UserCreates, Store
  <2> QED BY <2>1, NewLive DEF UserCreates
<1>6. UserEdits => /\ obj.exists /\ obj' \in LiveObjects
                   /\ obj'.name = obj.name
                   /\ obj'.deleted = obj.deleted
                   /\ obj'.finalizer = obj.finalizer
                   /\ obj'.create = obj.create
                   /\ obj'.status = obj.status
  <2>1. UserEdits => obj \in LiveObjects
    BY CopyTypes DEF UserEdits
  <2> QED BY <2>1 DEF UserEdits, Store, LiveObjects
<1>7. UserDeletes => /\ obj.exists /\ ~obj.deleted
                     /\ obj.finalizer =>
                          /\ obj' \in LiveObjects
                          /\ obj'.name = obj.name
                          /\ obj'.deleted
                          /\ obj'.finalizer
                          /\ obj'.create = obj.create
                          /\ obj'.status = obj.status
                     /\ ~obj.finalizer => obj' = NoObject
  <2>1. UserDeletes => obj \in LiveObjects
    BY CopyTypes DEF UserDeletes
  <2> QED BY <2>1 DEF UserDeletes, Store, LiveObjects
<1> QED BY <1>3, <1>4, <1>5, <1>6, <1>7 DEF User

\* The user stores live objects of the same name.
LEMMA UserTyped == Typed /\ User => Typed'
<1> SUFFICES ASSUME Typed, User PROVE Typed'
  OBVIOUS
<1>1. obj' \in Copies /\ (obj'.exists => obj'.name = Name)
  <2>1. obj.exists => obj.name = Name
    BY DEF Typed, NamesInv
  <2> QED BY <2>1, UserWrites, Nothing DEF Copies
<1>2. ObjectTypes'
  <2>1. /\ cache' = cache /\ cacheFresh' \in BOOLEAN /\ ~memFresh'
        /\ memFresh' \in BOOLEAN
        /\ cacheFresh' => cacheFresh /\ obj' = obj
        /\ UNCHANGED <<mem, pc>>
    BY UserWrites DEF User, UserCreates, UserEdits, UserDeletes
  <2> HIDE DEF Steps
  <2> QED BY <1>1, <2>1, Parts DEF ObjectTypes, NamesInv, VersionsInv
<1>3. ProgressTypes'
  <2> HIDE DEF States
  <2> QED BY UserWrites, Parts DEF ProgressTypes
<1>4. edits' \in 0..MaxEdits
  <2>1. edits \in 0..MaxEdits
    BY Parts DEF OuterTypes
  <2>2. MaxEdits \in Nat
    BY ConstantsAssumption
  <2>3. edits' = edits \/ (edits < MaxEdits /\ edits' = edits + 1)
    BY DEF User, UserCreates, UserEdits, UserDeletes, boundVars
  <2> QED BY <2>1, <2>2, <2>3
<1>5. secret' \in {secret, NoName}
  BY DEF User, UserCreates, UserEdits, UserDeletes, outerVars
<1>6. OuterTypes'
  <2>1. secret' \in {NoName} \cup Ids
    BY <1>5, Parts DEF OuterTypes
  <2> HIDE DEF Ids, Brokers
  <2> QED BY <1>4, <2>1, UserWrites, Parts DEF OuterTypes
<1> QED BY <1>2, <1>3, <1>6, Parts

\* The broker, its instance and the renewal dates.
Outside == \/ BrokerSucceeds \/ BrokerFails \/ BrokerLosesBinding
           \/ RenewalComes \/ InstanceComes \/ InstanceDeleted
           \/ InstanceTaken

\* They change nothing the controller keeps.
LEMMA OutsideAlone ==
    Outside => UNCHANGED <<kubeVars, localVars, secret, sent>>
BY DEF Outside, BrokerSucceeds, BrokerFails, BrokerLosesBinding, RenewalComes,
       InstanceComes, InstanceDeleted, InstanceTaken, InstanceGoes, outerVars

\* The broker stays one.
LEMMA OutsideTyped == Typed /\ Outside => Typed'
<1> SUFFICES ASSUME Typed, Outside PROVE Typed'
  OBVIOUS
<1>1. UNCHANGED <<kubeVars, localVars, secret, sent>>
  BY OutsideAlone
<1>2. broker' \in Brokers
  BY BrokerAlone DEF Outside, InstanceComes, outerVars, InstanceDeleted,
     InstanceTaken
<1>3. faults' \in 0..MaxFaults
  <2>1. faults' = faults \/ (faults < MaxFaults /\ faults' = faults + 1)
    BY DEF Outside, BrokerSucceeds, BrokerFails, BrokerLosesBinding,
           RenewalComes, InstanceComes, InstanceDeleted, InstanceTaken,
           InstanceGoes, boundVars
  <2> QED BY <2>1, Parts, MoreFaults
<1>4. edits' \in 0..MaxEdits
  <2>1. edits \in 0..MaxEdits
    BY Parts DEF OuterTypes
  <2>2. MaxEdits \in Nat
    BY ConstantsAssumption
  <2>3. edits' = edits \/ (edits < MaxEdits /\ edits' = edits + 1)
    BY DEF Outside, BrokerSucceeds, BrokerFails, BrokerLosesBinding,
           RenewalComes, InstanceComes, InstanceDeleted, InstanceTaken,
           InstanceGoes, boundVars
  <2> QED BY <2>1, <2>2, <2>3
<1>5. instance' \in BOOLEAN
  BY Parts DEF OuterTypes, Outside, BrokerSucceeds, BrokerFails,
     BrokerLosesBinding, RenewalComes, InstanceComes, InstanceDeleted,
     InstanceTaken, InstanceGoes, boundVars
<1>6. ObjectTypes'
  <2> HIDE DEF Steps
  <2> QED
    BY <1>1, Parts
       DEF kubeVars, localVars, ObjectTypes, NamesInv, VersionsInv
<1>7. ProgressTypes'
  <2> HIDE DEF States
  <2> QED BY <1>1, Parts DEF localVars, ProgressTypes
<1>8. OuterTypes'
  <2> HIDE DEF Ids, Brokers
  <2> QED BY <1>1, <1>2, <1>3, <1>4, <1>5, Parts DEF OuterTypes
<1> QED BY <1>6, <1>7, <1>8, Parts

\* What does not change keeps its type.
LEMMA SameTyped == Typed /\ UNCHANGED vars => Typed'
<1> SUFFICES ASSUME Typed, UNCHANGED vars PROVE Typed'
  OBVIOUS
<1>1. OuterTypes'
  BY Parts, OuterSame DEF vars, outerVars, boundVars
<1>2. ObjectTypes' /\ ProgressTypes'
  <2> HIDE DEF Steps, States
  <2> QED
    BY Parts DEF vars, ObjectTypes, ProgressTypes, NamesInv, VersionsInv
<1> QED BY <1>1, <1>2, Parts

\* Every step keeps the types and the names.
LEMMA NextTyped == Typed /\ [OpenNext]_vars => Typed'
BY StartReconcileTyped, PollTyped, GetLatestTyped, GetBindingTyped,
   RemoveFinalizerTyped, AddFinalizerTyped, MarkCreatePendingTyped, BindTyped,
   AnnotationTyped, RotateTyped, UnbindTyped, FinishTyped, CrashTyped,
   CacheSyncTyped, UserTyped, OutsideTyped, SameTyped
   DEF OpenNext, Next, Reconcile, Outside

\* The types and the names hold in every state.
LEMMA AlwaysTyped == OpenSpec => []Typed
<1> QED BY InitTyped, NextTyped, PTL DEF OpenSpec

\* The variables keep their types: a running reconcile always has an object
\* in memory, and an object read again always has a polled state to be given.
LEMMA OpenTypes == OpenSpec => []TypeOK
<1>1. Typed => TypeOK
  BY DEF Typed
<1> QED BY <1>1, AlwaysTyped, PTL

\* TypeOK of ServiceBinding.
THEOREM BindingTypes == Spec => []TypeOK
<1> QED BY SpecOpen, OpenTypes, PTL

-----------------------------------------------------------------------------
(* What copies say of the stored object *)

SameMarks(o, p) == p.deleted = o.deleted /\ p.finalizer = o.finalizer

\* A step that leaves the marks of the stored object alone, and has in memory
\* what it had, what the cache has or nothing.
LEMMA MarksKept ==
    ASSUME Typed, CopiesInv, SameMarks(obj, obj'), cache' = cache, pc' # "bind",
           \/ SameMarks(mem, mem') /\ (memFresh' => memFresh) /\ pc' # "idle"
           \/ SameMarks(cache, mem') /\ (memFresh' => cacheFresh) /\ pc' # "idle"
           \/ Return
    PROVE  CopiesInv'
<1>1. Trails(cache)'
  BY DEF SameMarks, CopiesInv, Trails
<1>2. CASE SameMarks(mem, mem') /\ (memFresh' => memFresh) /\ pc' # "idle"
  BY <1>1, <1>2 DEF SameMarks, CopiesInv, Trails, FreshInv, StepInv
<1>3. CASE SameMarks(cache, mem') /\ (memFresh' => cacheFresh) /\ pc' # "idle"
  BY <1>1, <1>3
     DEF SameMarks, CopiesInv, Trails, FreshInv, StepInv, Typed, VersionsInv
<1>4. CASE Return
  BY <1>1, <1>4, Nothing DEF Return, CopiesInv, Trails, FreshInv, StepInv
<1> QED BY <1>2, <1>3, <1>4

\* The steps that write no mark, and start no Create.
Unmarking ==
    \/ StartReconcile \/ PollBindingLastOperation \/ GetLatestKubeObject
    \/ GetBinding \/ Bind \/ Rotate \/ Unbind \/ FinishReconcile \/ Crash

\* They keep what the copies say.
LEMMA UnmarkingCopies ==
    ASSUME Typed, CopiesInv, Unmarking
    PROVE  CopiesInv'
<1> USE DEF SameMarks
<1>1. CASE StartReconcile
  <2>1. SameMarks(cache, mem')
    <3>1. cache \in LiveObjects
      BY <1>1, CopyTypes DEF StartReconcile
    <3> DEFINE m == [cache EXCEPT !.status.ready = "Creating"]
    <3>2. Alike(cache, m)
      BY <3>1, ReadyReplaced
    <3>3. m \in LiveObjects
      BY <3>2 DEF Alike
    <3>4. Alike(m, Erred(m))
      BY <3>3, StatusSetters
    <3>5. mem' \in {Erred(m), cache}
      BY <1>1 DEF StartReconcile
    <3> HIDE DEF m
    <3> QED BY <3>2, <3>4, <3>5 DEF Alike
  <2>2. memFresh' = cacheFresh /\ pc' \in {"observe", "finish"}
        /\ UNCHANGED kubeVars
    BY <1>1 DEF StartReconcile
  <2> QED BY <2>1, <2>2, MarksKept DEF kubeVars
<1>2. CASE PollBindingLastOperation
  <2>1. mem \in LiveObjects
    BY <1>2, CopyTypes DEF PollBindingLastOperation
  <2>2. mem' \in {mem, Erred(mem)} /\ memFresh' = memFresh
        /\ pc' \in {"latest", "absent", "finish"} /\ UNCHANGED kubeVars
    BY <1>2 DEF PollBindingLastOperation
  <2> QED BY <2>1, <2>2, StatusSetters, MarksKept DEF kubeVars, Alike
<1>3. CASE GetLatestKubeObject
  <2>1. CASE cache.exists
    <3>1. cache \in LiveObjects /\ polled \in States
      BY <1>3, <2>1, CopyTypes DEF GetLatestKubeObject, Typed, TypeOK
    <3> DEFINE m == UpdateStatusFromLastOp(cache, polled)
    <3>2. Alike(cache, m)
      BY <3>1, StatusSetters
    <3>3. m \in LiveObjects
      BY <3>2 DEF Alike
    <3>4. Alike(m, Observe(m))
      BY <3>3, StatusSetters
    <3>5. mem' = Observe(m) /\ memFresh' = cacheFresh /\ pc' = "upToDate"
          /\ UNCHANGED kubeVars
      BY <1>3, <2>1 DEF GetLatestKubeObject
    <3> HIDE DEF m
    <3> QED BY <3>2, <3>4, <3>5, MarksKept DEF Alike, kubeVars
  <2>2. CASE ~cache.exists
    <3>1. Return /\ UNCHANGED kubeVars
      BY <1>3, <2>2 DEF GetLatestKubeObject
    <3>2. pc' # "bind"
      BY <3>1 DEF Return
    <3> QED BY <3>1, <3>2, MarksKept DEF kubeVars
  <2> QED BY <2>1, <2>2
<1>4. CASE GetBinding
  <2>1. mem \in LiveObjects /\ mem.name = Name /\ Name \in Ids
    BY <1>4, CopyTypes DEF GetBinding, Typed, NamesInv, Ids
  <2>2. broker[Name] \in Bindings
    BY <2>1, Parts DEF OuterTypes, Brokers
  <2>3. pc' \in {"absent", "finish", "upToDate", "outdated"}
    BY <1>4, <2>1, <2>2, ObservedStep, ConstantsAssumption DEF GetBinding
  <2>4. memFresh' = memFresh /\ UNCHANGED kubeVars
    BY <1>4 DEF GetBinding
  <2>5. SameMarks(mem, mem')
    BY <1>4, <2>1, <2>3, GotCopy DEF Alike
  <2> QED BY <2>3, <2>4, <2>5, MarksKept DEF kubeVars
<1>5. CASE Bind
  <2>1. pc' = "annotate" /\ memFresh' = memFresh /\ UNCHANGED kubeVars
    BY <1>5 DEF Bind
  <2>2. SameMarks(mem, mem')
    BY <1>5, BindMem
  <2> QED BY <2>1, <2>2, MarksKept DEF kubeVars
<1>6. CASE Rotate
  <2>1. pc' = "finish" /\ memFresh' = memFresh /\ UNCHANGED kubeVars
    BY <1>6 DEF Rotate
  <2>2. SameMarks(mem, mem')
    BY <1>6, RotateOutcome DEF RotatedTo
  <2> QED BY <2>1, <2>2, MarksKept DEF kubeVars
<1>7. CASE Unbind
  <2>1. pc' = "finish" /\ memFresh' = memFresh /\ UNCHANGED kubeVars
    BY <1>7 DEF Unbind
  <2>2. SameMarks(mem, mem')
    BY <1>7, UnbindOutcomes DEF UnbindOutcome, Alike
  <2> QED BY <2>1, <2>2, MarksKept DEF kubeVars
<1>8. CASE FinishReconcile \/ Crash
  <2>1. Return
    BY <1>8 DEF FinishReconcile, Crash
  <2>2. pc' # "bind"
    BY <2>1 DEF Return
  <2>3. SameMarks(obj, obj') /\ cache' = cache
    BY <1>8, LastStatus DEF Crash, kubeVars, Alike
  <2> QED BY <2>1, <2>2, <2>3, MarksKept
<1> QED
  BY <1>1, <1>2, <1>3, <1>4, <1>5, <1>6, <1>7, <1>8 DEF Unmarking

\* The finalizer is removed only by a copy that is at the stored version and
\* marked as deleted: then the cache is marked too, and promises nothing.
LEMMA RemoveFinalizerCopies ==
    ASSUME Typed, CopiesInv, RemoveFinalizer
    PROVE  CopiesInv'
<1>1. Return
  BY DEF RemoveFinalizer
<1>2. CASE memFresh /\ mem.finalizer
  <2>1. obj' = NoObject /\ cache' = cache /\ mem.deleted
    BY <1>2 DEF RemoveFinalizer, Store
  <2>2. cache.deleted
    BY <1>2, <2>1 DEF CopiesInv, FreshInv
  <2> QED
    BY <1>1, <2>1, <2>2, Nothing
       DEF Return, CopiesInv, FreshInv, Trails, StepInv
<1>3. CASE ~(memFresh /\ mem.finalizer)
  <2>1. UNCHANGED kubeVars /\ pc' # "bind"
    BY <1>1, <1>3 DEF RemoveFinalizer, Return
  <2> QED BY <1>1, <2>1, MarksKept DEF kubeVars, SameMarks
<1> QED BY <1>2, <1>3

\* It is added only by such a copy that is not: then neither is the cache.
LEMMA AddFinalizerCopies ==
    ASSUME Typed, CopiesInv, AddFinalizer
    PROVE  CopiesInv'
<1> DEFINE m == [mem EXCEPT !.finalizer = TRUE]
<1>1. obj \in Copies /\ mem \in LiveObjects /\ ~mem.deleted
      /\ pc \notin {"idle", "bind"} /\ memFresh' = memFresh
  BY CopyTypes DEF AddFinalizer
<1>2. m \in LiveObjects /\ m.finalizer /\ m.deleted = mem.deleted
  BY <1>1, FinalizerAdded
<1>3. UpdateObject(m, pc)
  BY DEF AddFinalizer
<1> HIDE DEF m
<1>4. CASE memFresh /\ pc' = pc /\ MainUpdate(m)
  <2>1. Alike(m, obj') /\ Alike(m, mem') /\ cache' = cache
    BY <1>1, <1>2, <1>4, Written
  <2>2. /\ ~obj'.deleted /\ obj'.finalizer /\ ~mem'.deleted /\ mem'.finalizer
        /\ mem'.deleted = obj'.deleted /\ mem'.finalizer = obj'.finalizer
    BY <1>1, <1>2, <2>1 DEF Alike
  <2>3. cache.deleted = obj.deleted /\ obj.deleted = mem.deleted
    BY <1>4 DEF CopiesInv, FreshInv
  <2>4. cache'.deleted = obj'.deleted
    BY <1>2, <2>1, <2>3 DEF Alike
  <2> QED
    BY <1>1, <1>4, <2>2, <2>4 DEF CopiesInv, FreshInv, Trails, StepInv
<1>5. CASE pc' = "finish" /\ Alike(mem, mem') /\ UNCHANGED kubeVars
  BY <1>1, <1>5, MarksKept DEF SameMarks, Alike, kubeVars
<1> QED BY <1>1, <1>2, <1>3, <1>4, <1>5, ObjectUpdated

\* Before Create the mark is on the stored object.
LEMMA MarkCreatePendingCopies ==
    ASSUME Typed, CopiesInv, MarkCreatePending
    PROVE  CopiesInv'
<1> DEFINE m == [mem EXCEPT !.create = "pending"]
<1>1. obj \in Copies /\ mem \in LiveObjects /\ mem.finalizer
      /\ memFresh' = memFresh
  BY CopyTypes DEF MarkCreatePending
<1>2. m \in LiveObjects /\ m.finalizer = mem.finalizer /\ m.deleted = mem.deleted
      /\ m.create = "pending"
  BY <1>1, CreateMarked DEF Marked
<1>3. UpdateObject(m, "bind")
  BY DEF MarkCreatePending
<1> HIDE DEF m
<1>4. CASE memFresh /\ pc' = "bind" /\ MainUpdate(m)
  <2>1. Alike(m, obj') /\ Alike(m, mem') /\ cache' = cache
    BY <1>1, <1>2, <1>4, Written
  <2>2. obj.deleted = mem.deleted /\ obj.finalizer = mem.finalizer
    BY <1>4 DEF CopiesInv, FreshInv
  <2>3. SameMarks(obj, obj') /\ SameMarks(mem, mem') /\ obj'.create = "pending"
    BY <1>2, <2>1, <2>2 DEF Alike, SameMarks
  <2>4. obj'.finalizer
    BY <1>1, <2>2, <2>3 DEF SameMarks
  <2> QED
    BY <1>1, <1>4, <2>1, <2>3, <2>4
       DEF CopiesInv, FreshInv, Trails, StepInv, SameMarks
<1>5. CASE pc' = "finish" /\ Alike(mem, mem') /\ UNCHANGED kubeVars
  BY <1>1, <1>5, MarksKept DEF SameMarks, Alike, kubeVars
<1> QED BY <1>1, <1>2, <1>3, <1>4, <1>5, ObjectUpdated

\* The annotations are written from a copy at the stored version, or the
\* object is read again from the cache.
LEMMA AnnotationCopies ==
    ASSUME Typed, CopiesInv, UpdateCriticalAnnotations
    PROVE  CopiesInv'
<1>1. pc = "annotate"
  BY DEF UpdateCriticalAnnotations
<1>2. CASE AnnotationWritten
  <2>1. SameMarks(obj, obj') /\ SameMarks(mem, mem') /\ cache' = cache
        /\ pc' = "finish" /\ memFresh' = memFresh
    BY <1>2 DEF AnnotationWritten, Alike, SameMarks, CopiesInv, FreshInv
  <2> QED BY <2>1, MarksKept
<1>3. CASE ObjectReread
  BY <1>1, <1>3, MarksKept DEF ObjectReread, SameMarks, kubeVars
<1>4. CASE AnnotationGivenUp
  BY <1>4, MarksKept DEF AnnotationGivenUp, Alike, SameMarks, kubeVars
<1> QED BY <1>2, <1>3, <1>4, AnnotationOutcomes

\* A new object is not held, and is created where none is stored.
LEMMA UserCopies ==
    ASSUME Typed, CopiesInv, User
    PROVE  CopiesInv'
<1>1. /\ cache' = cache /\ ~memFresh' /\ UNCHANGED <<mem, pc>>
  BY UserWrites
<1>2. CASE UserCreates
  <2>1. ~obj.finalizer /\ ~obj'.finalizer
    BY <1>2, UserWrites, CopyTypes, Exists
  <2> QED BY <1>1, <2>1 DEF CopiesInv, FreshInv, Trails, StepInv
<1>3. CASE UserEdits
  BY <1>1, <1>3, UserWrites DEF CopiesInv, FreshInv, Trails, StepInv
<1>4. CASE UserDeletes
  <2>1. obj.finalizer => obj'.finalizer /\ obj'.deleted /\ obj'.create = obj.create
    BY <1>4, UserWrites
  <2>2. ~obj.finalizer => ~obj'.finalizer
    BY <1>4, UserWrites, Nothing
  <2> QED BY <1>1, <2>1, <2>2 DEF CopiesInv, FreshInv, Trails, StepInv
<1> QED BY <1>2, <1>3, <1>4, UserWrites

\* A new cached object is the stored one.
LEMMA CacheSyncCopies ==
    ASSUME Typed, CopiesInv, CacheSync
    PROVE  CopiesInv'
BY DEF CacheSync, localVars, CopiesInv, FreshInv, Trails, StepInv

\* Every step keeps what the copies say.
LEMMA NextCopies == Typed /\ CopiesInv /\ [OpenNext]_vars => CopiesInv'
<1> SUFFICES ASSUME Typed, CopiesInv, [OpenNext]_vars PROVE CopiesInv'
  OBVIOUS
<1>1. CASE UNCHANGED <<kubeVars, localVars>>
  BY <1>1 DEF kubeVars, localVars, CopiesInv, FreshInv, Trails, StepInv
<1>2. CASE Outside \/ UNCHANGED vars
  BY <1>1, <1>2, OutsideAlone DEF vars, kubeVars, localVars
<1> QED
  BY <1>2, UnmarkingCopies, RemoveFinalizerCopies, AddFinalizerCopies,
     MarkCreatePendingCopies, AnnotationCopies, UserCopies, CacheSyncCopies
     DEF OpenNext, Next, Reconcile, Outside, Unmarking

\* At first there are no copies.
LEMMA InitCopies == Init => CopiesInv
BY Nothing DEF Init, CopiesInv, FreshInv, Trails, StepInv

\* The copies say so in every state.
LEMMA AlwaysCopies == OpenSpec => [](Typed /\ CopiesInv)
<1> QED BY InitTyped, NextTyped, InitCopies, NextCopies, PTL DEF OpenSpec

\* A broker is asked for a binding only once the finalizer and the "pending"
\* mark are on the stored object (MarkCreatePending, then Create), whatever
\* the answers, the caches and the user have been.
LEMMA OpenBinds == OpenSpec => BindLeavesEvidence
<1>1. Typed /\ CopiesInv /\ Bind
        => obj.exists /\ obj.finalizer /\ obj.create = "pending"
  <2> SUFFICES ASSUME Typed, CopiesInv, Bind
               PROVE  obj.exists /\ obj.finalizer /\ obj.create = "pending"
    OBVIOUS
  <2>1. obj.finalizer /\ obj.create = "pending"
    BY DEF Bind, CopiesInv, StepInv
  <2> QED BY <2>1, CopyTypes, Exists
<1> QED BY <1>1, AlwaysCopies, PTL DEF BindLeavesEvidence

\* BindLeavesEvidence of ServiceBinding, for every kind of broker: Bind comes
\* after MarkCreatePending.
THEOREM BindsLeaveEvidence == Spec => BindLeavesEvidence
<1> QED BY SpecOpen, OpenBinds, PTL

\* Credentials are rotated only for an object that is stored and held: the
\* copy Update works on shows the finalizer and no deletion, and a finalizer
\* of this controller goes only once a deletion has been seen in the cache.
LEMMA OpenRotates == OpenSpec => RotateOnlyHeld
<1>1. Typed /\ CopiesInv /\ Rotate => obj.exists /\ obj.finalizer
  <2> SUFFICES ASSUME Typed, CopiesInv, Rotate
               PROVE  obj.exists /\ obj.finalizer
    OBVIOUS
  <2>1. obj.finalizer
    BY DEF Rotate, CopiesInv, Trails
  <2> QED BY <2>1, CopyTypes, Exists
<1> QED BY <1>1, AlwaysCopies, PTL DEF RotateOnlyHeld

\* RotateOnlyHeld of ServiceBinding, for every kind of broker: Update works
\* on an object that is held.
THEOREM RotatesOnlyHeld == Spec => RotateOnlyHeld
<1> QED BY SpecOpen, OpenRotates, PTL

-----------------------------------------------------------------------------
(* What is written on the stored object *)

\* Only four steps make the stored object appear, disappear, be marked for
\* deletion or be held.
Marking == UserCreates \/ UserDeletes \/ AddFinalizer \/ RemoveFinalizer

Steady == obj'.exists = obj.exists /\ SameMarks(obj, obj')

\* No status update and no annotation does: it is accepted only from a copy
\* that agrees on those (FreshInv).
LEMMA SteadyObject ==
    ASSUME Typed, CopiesInv, [OpenNext]_vars, ~Marking
    PROVE  Steady
<1> USE DEF Steady, SameMarks
<1>1. CASE UNCHANGED obj
  BY <1>1
<1>2. CASE UserEdits
  BY <1>2, UserWrites, LiveFields DEF User
<1>3. CASE MarkCreatePending
  <2> DEFINE m == [mem EXCEPT !.create = "pending"]
  <2>1. obj \in Copies /\ mem \in LiveObjects
    BY <1>3, CopyTypes DEF MarkCreatePending
  <2>2. m \in LiveObjects /\ m.finalizer = mem.finalizer
        /\ m.deleted = mem.deleted
    BY <2>1, CreateMarked DEF Marked
  <2>3. UpdateObject(m, "bind")
    BY <1>3 DEF MarkCreatePending
  <2> HIDE DEF m
  <2>4. CASE memFresh /\ MainUpdate(m)
    <3>1. Alike(m, obj')
      BY <2>1, <2>2, <2>4, Written
    <3>2. obj.exists /\ mem.deleted = obj.deleted /\ mem.finalizer = obj.finalizer
      BY <2>4 DEF Typed, VersionsInv, CopiesInv, FreshInv
    <3>3. obj'.exists = TRUE /\ obj.exists = TRUE
      BY <3>1, <3>2, LiveFields, CopyTypes DEF Alike
    <3> QED BY <2>2, <3>1, <3>2, <3>3 DEF Alike
  <2>5. CASE UNCHANGED kubeVars
    BY <2>5 DEF kubeVars
  <2> QED BY <2>1, <2>2, <2>3, <2>4, <2>5, ObjectUpdated
<1>4. CASE UpdateCriticalAnnotations
  <2>1. CASE AnnotationWritten
    <3>1. obj.exists /\ mem.deleted = obj.deleted /\ mem.finalizer = obj.finalizer
      BY <2>1 DEF AnnotationWritten, Typed, VersionsInv, CopiesInv, FreshInv
    <3>2. Alike(mem, obj')
      BY <2>1 DEF AnnotationWritten
    <3>3. obj'.exists = TRUE /\ obj.exists = TRUE
      BY <3>1, <3>2, LiveFields, CopyTypes DEF Alike
    <3> QED BY <3>1, <3>2, <3>3 DEF Alike
  <2>2. CASE ObjectReread \/ AnnotationGivenUp
    BY <2>2 DEF ObjectReread, AnnotationGivenUp, kubeVars
  <2> QED BY <1>4, <2>1, <2>2, AnnotationOutcomes
<1>5. CASE FinishReconcile
  <2>1. CASE memFresh /\ Alike(obj, obj')
    <3>1. obj.exists
      BY <2>1 DEF Typed, VersionsInv
    <3>2. obj'.exists = TRUE /\ obj.exists = TRUE
      BY <2>1, <3>1, LiveFields, CopyTypes DEF Alike
    <3> QED BY <2>1, <3>2 DEF Alike
  <2>2. CASE UNCHANGED kubeVars
    BY <2>2 DEF kubeVars
  <2> QED BY <1>5, <2>1, <2>2, LastStatus
<1>6. CASE Reconcile \/ Crash
  BY <1>1, <1>3, <1>4, <1>5, <1>6
     DEF Reconcile, StartReconcile, PollBindingLastOperation,
         GetLatestKubeObject, GetBinding, Bind, Rotate, Unbind, Crash, Marking,
         kubeVars
<1>7. CASE CacheSync \/ Outside \/ UNCHANGED vars
  BY <1>1, <1>7, OutsideAlone DEF CacheSync, kubeVars, vars
<1> QED BY <1>2, <1>6, <1>7 DEF OpenNext, Next, User, Outside, Marking

\* AddFinalizer changes the stored object only from a copy at its version,
\* and then it is held.
LEMMA Held ==
    ASSUME Typed, CopiesInv, AddFinalizer
    PROVE  \/ obj' = obj
           \/ /\ obj.exists /\ ~obj.deleted /\ ~obj.finalizer
              /\ obj'.exists /\ ~obj'.deleted /\ obj'.finalizer
<1> DEFINE m == [mem EXCEPT !.finalizer = TRUE]
<1>1. obj \in Copies /\ mem \in LiveObjects /\ ~mem.deleted /\ ~mem.finalizer
  BY CopyTypes DEF AddFinalizer
<1>2. m \in LiveObjects /\ m.finalizer /\ m.deleted = mem.deleted
  BY <1>1, FinalizerAdded
<1>3. UpdateObject(m, pc)
  BY DEF AddFinalizer
<1> HIDE DEF m
<1>4. CASE memFresh /\ MainUpdate(m)
  <2>1. Alike(m, obj')
    BY <1>1, <1>2, <1>4, Written
  <2>2. obj.exists /\ mem.deleted = obj.deleted /\ mem.finalizer = obj.finalizer
    BY <1>4 DEF Typed, VersionsInv, CopiesInv, FreshInv
  <2>3. obj'.exists
    BY <2>1, LiveFields DEF Alike
  <2> QED BY <1>1, <1>2, <2>1, <2>2, <2>3 DEF Alike
<1>5. CASE UNCHANGED kubeVars
  BY <1>5 DEF kubeVars
<1> QED BY <1>1, <1>2, <1>3, <1>4, <1>5, ObjectUpdated

\* RemoveFinalizer changes it only from such a copy too, of an object that is
\* marked for deletion.
LEMMA Released ==
    ASSUME Typed, CopiesInv, RemoveFinalizer
    PROVE  \/ obj' = obj /\ sent' = sent
           \/ /\ obj.exists /\ obj.deleted /\ obj.finalizer /\ pc = "absent"
              /\ obj' = NoObject /\ sent' = ""
<1>1. CASE memFresh /\ mem.finalizer
  BY <1>1
     DEF RemoveFinalizer, Store, Typed, VersionsInv, CopiesInv, FreshInv
<1>2. CASE ~(memFresh /\ mem.finalizer)
  BY <1>2 DEF RemoveFinalizer, kubeVars
<1> QED BY <1>1, <1>2

\* A held object stays held until it is observed absent.
LEMMA StaysHeld ==
    ASSUME Typed, CopiesInv, [OpenNext]_vars, obj.finalizer,
           ~(RemoveFinalizer /\ pc = "absent")
    PROVE  obj'.finalizer
<1>1. obj.exists
  BY CopyTypes, Exists
<1>2. CASE UserDeletes
  BY <1>2, UserWrites DEF User
<1>3. CASE UserCreates
  BY <1>1, <1>3 DEF UserCreates
<1>4. CASE AddFinalizer
  BY <1>4, Held
<1>5. CASE RemoveFinalizer
  BY <1>5 DEF RemoveFinalizer
<1> QED BY <1>2, <1>3, <1>4, <1>5, SteadyObject DEF Marking, Steady, SameMarks

-----------------------------------------------------------------------------
(* Binds answered at once *)

\* A step that begins nothing, ends no bind of the object's name and binds
\* nothing under it.
BrokerKept ==
    /\ BrokerInv'
    /\ broker'[Name].op # "bind"
    /\ broker'[Name].present => broker[Name].present

\* One binding replaced by another.
LEMMA OneReplaced ==
    ASSUME broker \in Brokers, KeptInv, NEW id \in Ids, NEW b \in Bindings,
           broker' = [broker EXCEPT ![id] = b],
           b.op = "unbind" /\ b.state = "succeeded" => ~b.present,
           id = Name => b.op # "bind",
           id = Name /\ b.present => broker[Name].present
    PROVE  BrokerKept
<1>1. Name \in Ids
  BY DEF Ids
<1>2. \A i \in Ids : broker'[i] = IF i = id THEN b ELSE broker[i]
  BY DEF Brokers
<1>3. BrokerInv'
  BY <1>2 DEF KeptInv, BrokerInv
<1> QED BY <1>1, <1>2, <1>3 DEF BrokerKept, KeptInv

\* The broker on its own.
LEMMA OutsideKept ==
    ASSUME Typed, KeptInv, Outside
    PROVE  BrokerKept
<1>1. broker \in Brokers /\ Name \in Ids
  BY BrokerAlone DEF Ids
<1>2. NoBinding \in Bindings /\ NoBinding.op = "" /\ ~NoBinding.present
      /\ [NoBinding EXCEPT !.op = "unbind", !.state = "succeeded"] \in Bindings
      /\ ~[NoBinding EXCEPT !.op = "unbind", !.state = "succeeded"].present
      /\ [NoBinding EXCEPT !.op = "unbind", !.state = "succeeded"].op = "unbind"
  BY DEF NoBinding, Bindings, States
<1>3. \A id \in Ids : broker[id] \in Bindings
  BY <1>1 DEF Brokers
<1>4. CASE BrokerSucceeds
  <2>1. PICK id \in Ids :
          broker' = [broker EXCEPT ![id] =
                      IF broker[id].op = "bind"
                        THEN [@ EXCEPT !.present = TRUE, !.state = "succeeded"]
                        ELSE [NoBinding EXCEPT !.op = "unbind",
                                               !.state = "succeeded"]]
    BY <1>4 DEF BrokerSucceeds
  <2>2. CASE broker[id].op = "bind"
    <3> DEFINE b == [broker[id] EXCEPT !.present = TRUE, !.state = "succeeded"]
    <3>1. broker' = [broker EXCEPT ![id] = b]
      BY <2>1, <2>2
    <3>2. b \in Bindings /\ b.op = "bind"
      BY <1>3, <2>2 DEF Bindings, States
    <3>3. id # Name
      BY <2>2 DEF KeptInv
    <3> HIDE DEF b
    <3> QED BY <1>1, <3>1, <3>2, <3>3, OneReplaced
  <2>3. CASE broker[id].op # "bind"
    <3> DEFINE b == [NoBinding EXCEPT !.op = "unbind", !.state = "succeeded"]
    <3>1. broker' = [broker EXCEPT ![id] = b]
      BY <2>1, <2>3
    <3>2. b \in Bindings /\ b.op = "unbind" /\ ~b.present
      BY <1>2
    <3> HIDE DEF b
    <3> QED BY <1>1, <3>1, <3>2, OneReplaced
  <2> QED BY <2>2, <2>3
<1>5. CASE BrokerFails
  <2>1. PICK id \in Ids : broker' = [broker EXCEPT ![id].state = "failed"]
    BY <1>5 DEF BrokerFails
  <2> DEFINE b == [broker[id] EXCEPT !.state = "failed"]
  <2>2. broker' = [broker EXCEPT ![id] = b]
    BY <2>1
  <2>3. b \in Bindings /\ b.op = broker[id].op /\ b.state = "failed"
        /\ b.present = broker[id].present
    BY <1>3 DEF Bindings, States
  <2>4. id = Name => broker[id].op # "bind"
    BY DEF KeptInv
  <2> HIDE DEF b
  <2> QED BY <1>1, <2>2, <2>3, <2>4, OneReplaced
<1>6. CASE BrokerLosesBinding
  <2>1. PICK id \in Ids : broker' = [broker EXCEPT ![id] = NoBinding]
    BY <1>6 DEF BrokerLosesBinding
  <2> QED BY <1>1, <1>2, <2>1, OneReplaced
<1>7. CASE RenewalComes
  <2>1. PICK id \in Ids : broker' = [broker EXCEPT ![id].due = TRUE]
    BY <1>7 DEF RenewalComes
  <2> DEFINE b == [broker[id] EXCEPT !.due = TRUE]
  <2>2. broker' = [broker EXCEPT ![id] = b]
    BY <2>1
  <2>3. b \in Bindings /\ b.op = broker[id].op /\ b.state = broker[id].state
        /\ b.present = broker[id].present
    BY <1>3 DEF Bindings
  <2>4. id = Name => broker[id].op # "bind"
    BY DEF KeptInv
  <2>5. broker[id].op = "unbind" /\ broker[id].state = "succeeded"
          => ~broker[id].present
    BY DEF KeptInv, BrokerInv
  <2> HIDE DEF b
  <2> QED BY <1>1, <2>2, <2>3, <2>4, <2>5, OneReplaced
<1>8. CASE InstanceComes
  BY <1>8 DEF InstanceComes, outerVars, BrokerKept, KeptInv, BrokerInv
<1>9. CASE InstanceDeleted \/ InstanceTaken
  <2>1. \A id \in Ids : broker'[id] = NoBinding
    BY <1>9 DEF InstanceDeleted, InstanceTaken, InstanceGoes
  <2>2. BrokerInv'
    BY <1>2, <2>1 DEF BrokerInv
  <2> QED BY <1>1, <1>2, <2>1, <2>2 DEF BrokerKept
<1> QED BY <1>4, <1>5, <1>6, <1>7, <1>8, <1>9 DEF Outside

\* A binding bound or begun.
LEMMA Fresh ==
    ASSUME NEW p \in Params \cup {NoParams}
    PROVE  /\ [NoBinding EXCEPT !.present = TRUE, !.params = p] \in Bindings
           /\ [NoBinding EXCEPT !.present = TRUE, !.params = p].op = ""
           /\ [NoBinding EXCEPT !.params = p, !.op = "bind",
                                !.state = "in progress"] \in Bindings
           /\ [NoBinding EXCEPT !.params = p, !.op = "bind",
                                !.state = "in progress"].op = "bind"
BY DEF NoBinding, Bindings, States

\* Rotations touch other identifiers than the object's name.
LEMMA RotateKept ==
    ASSUME Typed, KeptInv, Rotate
    PROVE  BrokerKept
<1>1. PICK new \in Uuids : RotatedTo(new)
  BY RotateOutcome
<1>2. broker \in Brokers /\ Name \in Ids /\ new \in Ids /\ new # Name
  BY BrokerAlone, ConstantsAssumption DEF Ids
<1> DEFINE p == broker[Name].params
<1>3. p \in Params \cup {NoParams}
  BY <1>2 DEF Brokers, Bindings
<1>4. CASE broker' = broker
  BY <1>4 DEF BrokerKept, KeptInv, BrokerInv
<1>5. CASE broker' = Bound(new, p)
  <2> DEFINE b == [NoBinding EXCEPT !.present = TRUE, !.params = p]
  <2>1. broker' = [broker EXCEPT ![new] = b]
    BY <1>5 DEF Bound
  <2>2. b \in Bindings /\ b.op = ""
    BY <1>3, Fresh
  <2> HIDE DEF b, p
  <2> QED BY <1>2, <2>1, <2>2, OneReplaced
<1>6. CASE broker' = Binding(new, p)
  <2> DEFINE b == [NoBinding EXCEPT !.params = p, !.op = "bind",
                                    !.state = "in progress"]
  <2>1. broker' = [broker EXCEPT ![new] = b]
    BY <1>6 DEF Binding
  <2>2. b \in Bindings /\ b.op = "bind"
    BY <1>3, Fresh
  <2> HIDE DEF b, p
  <2> QED BY <1>2, <2>1, <2>2, OneReplaced
<1> QED BY <1>1, <1>4, <1>5, <1>6 DEF RotatedTo

\* An unbind only takes away.
LEMMA UnbindKept ==
    ASSUME Typed, KeptInv, Unbind
    PROVE  BrokerKept
<1>1. broker \in Brokers /\ Name \in Ids /\ broker[Name] \in Bindings
  BY BrokerAlone DEF Ids, Brokers
<1>2. NoBinding \in Bindings /\ NoBinding.op = "" /\ ~NoBinding.present
  BY DEF NoBinding, Bindings
<1>3. CASE broker' = broker
  BY <1>3 DEF BrokerKept, KeptInv, BrokerInv
<1>4. CASE broker' = Unbound(Name)
  BY <1>1, <1>2, <1>4, OneReplaced DEF Unbound
<1>5. CASE broker' = Unbinding(Name)
  <2> DEFINE b == [broker[Name] EXCEPT !.op = "unbind", !.state = "in progress"]
  <2>1. broker' = [broker EXCEPT ![Name] = b]
    BY <1>5 DEF Unbinding
  <2>2. b \in Bindings /\ b.op = "unbind" /\ b.state = "in progress"
        /\ b.present = broker[Name].present
    BY <1>1 DEF Bindings, States
  <2> HIDE DEF b
  <2> QED BY <1>1, <2>1, <2>2, OneReplaced
<1> QED BY <1>3, <1>4, <1>5, UnbindOutcomes DEF UnbindOutcome

\* A bind answered at once binds for an object that is held.
LEMMA BindKept ==
    ASSUME BindModes \subseteq {"sync"}, Typed, CopiesInv, KeptInv, Bind
    PROVE  KeptInv'
<1>1. broker \in Brokers /\ Name \in Ids
  BY BrokerAlone DEF Ids
<1>2. obj.finalizer /\ obj' = obj /\ pc' = "annotate"
  BY DEF Bind, CopiesInv, StepInv, kubeVars
<1>3. CASE broker' = broker
  BY <1>2, <1>3 DEF KeptInv, BrokerInv
<1>4. ASSUME NEW r \in Answers(BindReplies(Name, mem.params)), Answered(r),
             mem.params \in Params
      PROVE  KeptInv'
  <2> DEFINE b == [NoBinding EXCEPT !.present = TRUE, !.params = mem.params]
  <2>1. broker' = r.b
    BY <1>4 DEF Answered
  <2>2. broker' = broker \/ broker' = Bound(Name, mem.params)
    BY <1>1, <1>4, <2>1, BindAnswers
  <2>3. CASE broker' = Bound(Name, mem.params)
    <3>1. broker' = [broker EXCEPT ![Name] = b]
      BY <2>3 DEF Bound
    <3>2. b \in Bindings /\ b.op = ""
      BY <1>4, Fresh
    <3> HIDE DEF b
    <3>3. \A i \in Ids : broker'[i] = IF i = Name THEN b ELSE broker[i]
      BY <1>1, <3>1 DEF Brokers
    <3>4. BrokerInv'
      BY <3>2, <3>3 DEF KeptInv, BrokerInv
    <3> QED BY <1>1, <1>2, <3>2, <3>3, <3>4 DEF KeptInv
  <2> QED BY <1>3, <2>2, <2>3
<1> QED BY <1>3, <1>4, BindBroker

\* What is found absent is absent.
LEMMA FoundAbsent ==
    ASSUME Typed, KeptInv, GetBinding \/ PollBindingLastOperation,
           pc' = "absent"
    PROVE  ~broker[Name].present
<1>1. mem.name = Name /\ Name \in Ids
  BY DEF GetBinding, PollBindingLastOperation, Typed, NamesInv, Ids
<1>2. broker[Name] \in Bindings
  BY <1>1, BrokerAlone DEF Brokers
<1>3. CASE GetBinding
  <2>1. Observed(mem, broker[Name]) # "absent"
    BY <1>2, ObservedStep, ConstantsAssumption
  <2> QED BY <1>1, <1>3, <2>1 DEF GetBinding, IsResourceGone
<1>4. CASE PollBindingLastOperation
  <2>1. "gone" \in PollReplies(Name)
    BY <1>1, <1>4 DEF PollBindingLastOperation, HandlePollError
  <2>2. \/ broker[Name].state = "" /\ ~broker[Name].present
        \/ broker[Name].op = "unbind" /\ broker[Name].state = "succeeded"
    BY <1>2, <2>1 DEF PollReplies, Bindings, States
  <2> QED BY <1>1, <2>2 DEF KeptInv, BrokerInv
<1> QED BY <1>3, <1>4

\* Every other step leaves the broker alone, and finds nothing absent.
LEMMA OthersKept ==
    ASSUME Typed, [OpenNext]_vars, ~Bind, ~Rotate, ~Unbind, ~Outside
    PROVE  /\ broker' = broker
           /\ pc' = "absent" =>
                pc = "absent" \/ GetBinding \/ PollBindingLastOperation
<1>1. broker' = broker
  BY DEF OpenNext, Next, Reconcile, StartReconcile, PollBindingLastOperation,
         GetLatestKubeObject, GetBinding, RemoveFinalizer, AddFinalizer,
         MarkCreatePending, UpdateCriticalAnnotations, FinishReconcile, Crash,
         CacheSync, User, UserCreates, UserEdits, UserDeletes, Outside, vars,
         outerVars
<1>2. pc' = "absent" =>
        pc = "absent" \/ GetBinding \/ PollBindingLastOperation
  BY UserWrites
     DEF OpenNext, Next, Reconcile, StartReconcile, GetLatestKubeObject,
         RemoveFinalizer, AddFinalizer, MarkCreatePending, UpdateObject,
         UpdateCriticalAnnotations, FinishReconcile, Crash, Return,
         CacheSync, Outside, vars, localVars
<1> QED BY <1>1, <1>2

\* With binds answered at once, what is bound for the object stays bound for
\* an object that is held.
LEMMA NextKept ==
    ASSUME BindModes \subseteq {"sync"}, Typed, CopiesInv, KeptInv,
           [OpenNext]_vars
    PROVE  KeptInv'
<1>1. CASE BrokerKept /\ ~RemoveFinalizer /\ (pc' = "absent" => pc = "absent")
  BY <1>1, StaysHeld DEF KeptInv, BrokerKept
<1>2. CASE Bind
  BY <1>2, BindKept
<1>3. CASE Rotate
  BY <1>1, <1>3, RotateKept DEF Rotate, RemoveFinalizer
<1>4. CASE Unbind
  BY <1>1, <1>4, UnbindKept DEF Unbind, RemoveFinalizer
<1>5. CASE Outside
  <2>1. pc' = pc /\ UNCHANGED obj
    BY <1>5, OutsideAlone DEF localVars, kubeVars
  <2> QED BY <1>5, <2>1, OutsideKept DEF KeptInv, BrokerKept
<1>6. CASE ~Bind /\ ~Rotate /\ ~Unbind /\ ~Outside
  <2>1. broker' = broker
    BY <1>6, OthersKept
  <2>2. pc' = "absent" => ~broker[Name].present
    BY <1>6, OthersKept, FoundAbsent DEF KeptInv
  <2>3. broker[Name].present => obj'.finalizer
    BY StaysHeld DEF KeptInv
  <2> QED BY <2>1, <2>2, <2>3 DEF KeptInv, BrokerInv
<1> QED BY <1>2, <1>3, <1>4, <1>5, <1>6

\* At first nothing is bound.
LEMMA InitKept == Init => KeptInv
<1> SUFFICES ASSUME Init PROVE KeptInv
  OBVIOUS
<1>1. NoBinding.op = "" /\ ~NoBinding.present /\ Name \in Ids
  BY DEF NoBinding, Ids
<1>2. \A id \in Ids : broker[id] = NoBinding
  BY DEF Init
<1> QED BY <1>1, <1>2 DEF Init, KeptInv, BrokerInv

\* NoOrphan, for brokers that bind at once: an object that is gone has left
\* nothing bound under its name.  An unbind or a rotation may be answered
\* asynchronously, as spec.disableAsync leaves them to be.
LEMMA OpenOrphans ==
    ASSUME BindModes \subseteq {"sync"}
    PROVE  OpenSpec => []NoOrphan
<1>1. Typed /\ CopiesInv /\ KeptInv /\ [OpenNext]_vars => KeptInv'
  BY NextKept
<1>2. Typed /\ KeptInv => NoOrphan
  BY CopyTypes, Exists DEF KeptInv, NoOrphan
<1> QED BY <1>1, <1>2, InitKept, AlwaysCopies, PTL DEF OpenSpec

\* NoOrphan of ServiceBinding, for brokers that bind at once: RemoveFinalizer
\* comes after the binding is found absent.
THEOREM NothingOrphaned ==
    ASSUME BindModes \subseteq {"sync"}
    PROVE  Spec => []NoOrphan
<1> QED BY SpecOpen, OpenOrphans, PTL

-----------------------------------------------------------------------------
(* Every request answered at once *)

\* A deletion mark stays until the finalizer is removed.
LEMMA StaysDeleted ==
    ASSUME Typed, CopiesInv, [OpenNext]_vars, obj.deleted, ~RemoveFinalizer
    PROVE  obj'.deleted
<1>1. obj.exists
  BY CopyTypes, Exists
<1>2. CASE UserDeletes
  BY <1>2 DEF UserDeletes
<1>3. CASE UserCreates
  BY <1>1, <1>3 DEF UserCreates
<1>4. CASE AddFinalizer
  BY <1>4, Held
<1> QED BY <1>2, <1>3, <1>4, SteadyObject DEF Marking, Steady, SameMarks

\* The requests made for the object are recorded and forgotten by three steps.
LEMMA SteadyRequests ==
    ASSUME [OpenNext]_vars, ~Bind, ~Unbind, ~RemoveFinalizer
    PROVE  sent' = sent
<1>1. Outside => sent' = sent
  BY OutsideAlone
<1> QED
  BY <1>1
     DEF OpenNext, Next, Reconcile, StartReconcile, PollBindingLastOperation,
         GetLatestKubeObject, GetBinding, AddFinalizer, MarkCreatePending,
         UpdateCriticalAnnotations, Rotate, FinishReconcile, Crash, CacheSync,
         User, UserCreates, UserEdits, UserDeletes, Outside, outerVars, vars

NoneRunning == \A id \in Ids : ~Running(id)

\* One binding replaced by one that is not running.
LEMMA OneEnded ==
    ASSUME broker \in Brokers, NoneRunning, NEW id \in Ids, NEW b \in Bindings,
           broker' = [broker EXCEPT ![id] = b], b.state # "in progress"
    PROVE  NoneRunning'
BY DEF NoneRunning, Running, Brokers

\* Nothing the broker does begins an operation.
LEMMA OutsideEnded ==
    ASSUME Typed, NoneRunning, Outside
    PROVE  NoneRunning'
<1>1. broker \in Brokers
  BY BrokerAlone
<1>2. NoBinding \in Bindings /\ NoBinding.state = ""
  BY DEF NoBinding, Bindings
<1>3. \A id \in Ids : broker[id] \in Bindings
  BY <1>1 DEF Brokers
<1>4. CASE BrokerSucceeds \/ BrokerFails
  BY <1>4 DEF BrokerSucceeds, BrokerFails, NoneRunning
<1>5. CASE BrokerLosesBinding
  <2>1. PICK id \in Ids : broker' = [broker EXCEPT ![id] = NoBinding]
    BY <1>5 DEF BrokerLosesBinding
  <2> QED BY <1>1, <1>2, <2>1, OneEnded
<1>6. CASE RenewalComes
  <2>1. PICK id \in Ids : broker' = [broker EXCEPT ![id].due = TRUE]
    BY <1>6 DEF RenewalComes
  <2> DEFINE b == [broker[id] EXCEPT !.due = TRUE]
  <2>2. broker' = [broker EXCEPT ![id] = b]
    BY <2>1
  <2>3. b \in Bindings /\ b.state = broker[id].state
    BY <1>3 DEF Bindings
  <2>4. broker[id].state # "in progress"
    BY DEF NoneRunning, Running
  <2> HIDE DEF b
  <2> QED BY <1>1, <2>2, <2>3, <2>4, OneEnded
<1>7. CASE InstanceComes
  BY <1>7 DEF InstanceComes, outerVars, NoneRunning, Running
<1>8. CASE InstanceDeleted \/ InstanceTaken
  <2>1. \A id \in Ids : broker'[id] = NoBinding
    BY <1>8 DEF InstanceDeleted, InstanceTaken, InstanceGoes
  <2> QED BY <1>2, <2>1 DEF NoneRunning, Running
<1> QED BY <1>4, <1>5, <1>6, <1>7, <1>8 DEF Outside

\* Nor does what the controller asks for, if it is answered at once.
LEMMA NextEnded ==
    ASSUME BrokerModes \subseteq {"sync"}, Typed, NoneRunning, [OpenNext]_vars
    PROVE  NoneRunning'
<1>1. broker \in Brokers /\ Name \in Ids
  BY BrokerAlone DEF Ids
<1>2. NoBinding \in Bindings /\ NoBinding.state = ""
  BY DEF NoBinding, Bindings
<1>3. CASE broker' = broker
  BY <1>3 DEF NoneRunning, Running
<1>4. ASSUME NEW id \in Ids, NEW p \in Params \cup {NoParams},
             broker' = Bound(id, p)
      PROVE  NoneRunning'
  <2> DEFINE b == [NoBinding EXCEPT !.present = TRUE, !.params = p]
  <2>1. broker' = [broker EXCEPT ![id] = b]
    BY <1>4 DEF Bound
  <2>2. b \in Bindings /\ b.state = ""
    BY Fresh DEF NoBinding
  <2> HIDE DEF b
  <2> QED BY <1>1, <2>1, <2>2, OneEnded
<1>5. CASE Bind
  <2>1. "async" \notin BindModes
    BY DEF BindModes
  <2>2. ASSUME NEW r \in Answers(BindReplies(Name, mem.params)), Answered(r),
               mem.params \in Params
        PROVE  broker' = broker \/ broker' = Bound(Name, mem.params)
    BY <1>1, <2>1, <2>2, BindAnswers DEF Answered
  <2> QED BY <1>1, <1>3, <1>4, <1>5, <2>2, BindBroker
<1>6. CASE Rotate
  <2>1. PICK new \in Uuids : RotatedTo(new)
    BY <1>6, RotateOutcome
  <2>2. broker[Name].params \in Params \cup {NoParams}
    BY <1>1 DEF Brokers, Bindings
  <2> QED BY <1>3, <1>4, <2>1, <2>2 DEF RotatedTo
<1>7. CASE Unbind
  <2>1. broker' = broker \/ broker' = [broker EXCEPT ![Name] = NoBinding]
    BY <1>7, UnbindOutcomes DEF UnbindOutcome, Unbound
  <2> QED BY <1>1, <1>2, <1>3, <2>1, OneEnded
<1>8. CASE Outside
  BY <1>8, OutsideEnded
<1> QED BY <1>3, <1>5, <1>6, <1>7, <1>8, OthersKept

\* No copy of the object says that an operation is in progress.
QuietCopies == NotInProgress(obj) /\ NotInProgress(cache) /\ NotInProgress(mem)

\* None comes to say so: only an asynchronous answer is noted that way.
LEMMA NextQuiet ==
    ASSUME BrokerModes \subseteq {"sync"}, Typed, SyncInv, [OpenNext]_vars
    PROVE  QuietCopies'
<1> USE DEF NotInProgress
<1>1. NoneRunning /\ QuietCopies /\ pc # "latest"
  BY DEF SyncInv, NoneRunning, QuietCopies
<1>2. NoObject.status.lastOp = ""
  BY Nothing
<1>3. obj \in Copies /\ Name \in Ids
  BY CopyTypes DEF Ids
<1>4. CASE StartReconcile
  <2>1. cache \in LiveObjects
    BY <1>4, CopyTypes DEF StartReconcile
  <2> DEFINE m == [cache EXCEPT !.status.ready = "Creating"]
  <2>2. Alike(cache, m) /\ m.status.lastOp = cache.status.lastOp
    BY <2>1, ReadyReplaced
  <2>3. m \in LiveObjects
    BY <2>2 DEF Alike
  <2>4. Erred(m).status.lastOp = m.status.lastOp
    BY <2>3, StatusSetters
  <2>5. mem' \in {Erred(m), cache} /\ UNCHANGED kubeVars
    BY <1>4 DEF StartReconcile
  <2> HIDE DEF m
  <2> QED BY <1>1, <2>2, <2>4, <2>5 DEF QuietCopies, kubeVars
<1>5. CASE PollBindingLastOperation \/ GetLatestKubeObject
  BY <1>1, <1>5
     DEF PollBindingLastOperation, IsStateInProgress, GetLatestKubeObject,
         QuietCopies
<1>6. CASE GetBinding
  <2>1. mem \in LiveObjects
    BY <1>6, CopyTypes DEF GetBinding
  <2>2. Alike(mem, mem') /\ mem'.status.lastOp = mem.status.lastOp
        /\ UNCHANGED kubeVars
    <3>1. mem.name = Name
      BY <1>6 DEF GetBinding, Typed, NamesInv
    <3>2. broker[Name] \in Bindings
      BY <1>3, BrokerAlone DEF Brokers
    <3>3. pc' \in {"absent", "finish", "upToDate", "outdated"}
      BY <1>6, <3>1, <3>2, ObservedStep, ConstantsAssumption DEF GetBinding
    <3>4. UNCHANGED kubeVars
      BY <1>6 DEF GetBinding
    <3> QED BY <1>6, <2>1, <3>3, <3>4, GotCopy
  <2> QED BY <1>1, <2>2 DEF QuietCopies, kubeVars
<1>7. ASSUME NEW m \in LiveObjects, NEW next, UpdateObject(m, next),
             m.status = mem.status, mem \in LiveObjects
      PROVE  QuietCopies'
  <2>1. CASE MainUpdate(m)
    BY <1>1, <1>3, <1>7, <2>1, Written DEF QuietCopies
  <2>2. CASE mem'.status.lastOp = mem.status.lastOp /\ UNCHANGED kubeVars
    BY <1>1, <2>2 DEF QuietCopies, kubeVars
  <2> QED BY <1>3, <1>7, <2>1, <2>2, ObjectUpdated
<1>8. CASE AddFinalizer
  <2> DEFINE m == [mem EXCEPT !.finalizer = TRUE]
  <2>1. mem \in LiveObjects
    BY <1>8, CopyTypes DEF AddFinalizer
  <2>2. m \in LiveObjects /\ m.status = mem.status
    BY <2>1, FinalizerAdded
  <2>3. UpdateObject(m, pc)
    BY <1>8 DEF AddFinalizer
  <2> HIDE DEF m
  <2> QED BY <1>7, <2>1, <2>2, <2>3
<1>9. CASE MarkCreatePending
  <2> DEFINE m == [mem EXCEPT !.create = "pending"]
  <2>1. mem \in LiveObjects
    BY <1>9, CopyTypes DEF MarkCreatePending
  <2>2. m \in LiveObjects /\ m.status = mem.status
    BY <2>1, CreateMarked DEF Marked
  <2>3. UpdateObject(m, "bind")
    BY <1>9 DEF MarkCreatePending
  <2> HIDE DEF m
  <2> QED BY <1>7, <2>1, <2>2, <2>3
<1>10. CASE Bind
  <2>1. mem.params \in Params /\ broker \in Brokers /\ mem.name = Name
    BY <1>10, CopyTypes, LiveFields, BrokerAlone DEF Bind, Typed, NamesInv
  <2>2. "async" \notin BindModes /\ ~Running(Name)
    BY <1>1, <1>3 DEF BindModes, NoneRunning
  <2>3. \A r \in Answers(BindReplies(mem.name, mem.params)) : r.out # "async"
    BY <1>3, <2>1, <2>2, BindAnswers
  <2>4. mem'.status.lastOp = mem.status.lastOp
    BY <1>10, <2>3, BindMem
  <2>5. UNCHANGED kubeVars
    BY <1>10 DEF Bind
  <2> QED BY <1>1, <2>4, <2>5 DEF QuietCopies, kubeVars
<1>11. CASE UpdateCriticalAnnotations
  <2>1. CASE AnnotationWritten
    BY <1>1, <2>1 DEF AnnotationWritten, QuietCopies
  <2>2. CASE ObjectReread
    BY <1>1, <2>2 DEF ObjectReread, QuietCopies, kubeVars
  <2>3. CASE AnnotationGivenUp
    BY <1>1, <2>3 DEF AnnotationGivenUp, QuietCopies, kubeVars
  <2> QED BY <1>11, <2>1, <2>2, <2>3, AnnotationOutcomes
<1>12. CASE Rotate
  <2>1. mem'.status.lastOp = mem.status.lastOp
    BY <1>12, RotateOutcome DEF RotatedTo
  <2>2. UNCHANGED kubeVars
    BY <1>12 DEF Rotate
  <2> QED BY <1>1, <2>1, <2>2 DEF QuietCopies, kubeVars
<1>13. CASE Unbind
  <2>1. mem'.status.lastOp = mem.status.lastOp
    BY <1>1, <1>3, <1>13, UnbindOutcomes DEF UnbindOutcome, NoneRunning
  <2>2. UNCHANGED kubeVars
    BY <1>13 DEF Unbind
  <2> QED BY <1>1, <2>1, <2>2 DEF QuietCopies, kubeVars
<1>14. CASE RemoveFinalizer \/ FinishReconcile \/ Crash
  <2>1. mem' = NoObject
    BY <1>14 DEF RemoveFinalizer, FinishReconcile, Crash, Return
  <2>2. cache' = cache
    BY <1>14, LastStatus DEF RemoveFinalizer, Crash, Store, kubeVars
  <2>3. obj'.status.lastOp \in {"", obj.status.lastOp, mem.status.lastOp}
    BY <1>2, <1>14, LastStatus DEF RemoveFinalizer, Crash, Store, kubeVars
  <2> QED BY <1>1, <1>2, <2>1, <2>2, <2>3 DEF QuietCopies
<1>15. CASE User
  <2>1. mem' = mem /\ cache' = cache
    BY <1>15, UserWrites
  <2>2. obj'.status \in {NoStatus, obj.status}
    BY <1>15, UserWrites, Nothing
  <2> QED BY <1>1, <2>1, <2>2, Nothing DEF QuietCopies
<1>16. CASE CacheSync
  BY <1>1, <1>16 DEF CacheSync, localVars, QuietCopies
<1>17. CASE Outside \/ UNCHANGED vars
  <2>1. UNCHANGED <<kubeVars, mem>>
    BY <1>17, OutsideAlone DEF vars, localVars, kubeVars
  <2> QED BY <1>1, <2>1 DEF QuietCopies, kubeVars
<1> QED
  BY <1>4, <1>5, <1>6, <1>8, <1>9, <1>10, <1>11, <1>12, <1>13, <1>14, <1>15,
     <1>16, <1>17 DEF OpenNext, Next, Reconcile, Outside

\* What the steps of a reconcile and the requests know of a deletion.
DeletionKnown ==
    /\ pc # "latest"
    /\ pc \in {"upToDate", "outdated"} /\ mem.deleted => obj.deleted
    /\ sent = "delete" => obj.deleted
    /\ pc = "bind" => sent # "delete"

\* What is observed present under the object's name was bound for an object
\* that is still held, so a deletion that the copy shows is its own.
LEMMA NextKnown ==
    ASSUME BrokerModes \subseteq {"sync"}, Typed, CopiesInv, KeptInv, SyncInv,
           [OpenNext]_vars
    PROVE  DeletionKnown'
<1>1. DeletionKnown
  BY DEF SyncInv, DeletionKnown
<1>2. CASE RemoveFinalizer
  <2>1. pc' = "idle"
    BY <1>2 DEF RemoveFinalizer, Return
  <2> QED BY <1>1, <1>2, <2>1, Released DEF DeletionKnown
<1>3. CASE GetBinding
  <2>1. mem \in LiveObjects /\ mem.name = Name /\ Name \in Ids
    BY <1>3, CopyTypes DEF GetBinding, Typed, NamesInv, Ids
  <2>2. broker[Name] \in Bindings
    BY <2>1, BrokerAlone DEF Brokers
  <2>3. pc' \in {"absent", "finish", "upToDate", "outdated"}
    BY <1>3, <2>1, <2>2, ObservedStep, ConstantsAssumption DEF GetBinding
  <2>4. mem'.deleted = mem.deleted
    BY <1>3, <2>1, <2>3, GotCopy DEF Alike
  <2>5. pc' \in {"upToDate", "outdated"} => broker[Name].present
    BY <1>3, <2>1 DEF GetBinding, IsResourceGone
  <2>6. pc' \in {"upToDate", "outdated"} /\ mem.deleted => obj.deleted
    BY <2>5 DEF KeptInv, CopiesInv, Trails
  <2>7. UNCHANGED <<obj, sent>>
    BY <1>3 DEF GetBinding, kubeVars
  <2> QED BY <1>1, <2>3, <2>4, <2>6, <2>7 DEF DeletionKnown
<1>4. CASE AddFinalizer
  <2> DEFINE m == [mem EXCEPT !.finalizer = TRUE]
  <2>1. obj \in Copies /\ mem \in LiveObjects /\ ~mem.deleted
        /\ pc \in {"absent", "upToDate", "outdated"}
    BY <1>4, CopyTypes DEF AddFinalizer
  <2>2. m \in LiveObjects /\ m.deleted = mem.deleted
    BY <2>1, FinalizerAdded
  <2>3. UpdateObject(m, pc) /\ sent' = sent
    BY <1>4 DEF AddFinalizer, outerVars
  <2> HIDE DEF m
  <2>4. CASE pc' = pc /\ MainUpdate(m)
    <3>1. ~mem'.deleted
      BY <2>1, <2>2, <2>4, Written DEF Alike
    <3>2. obj.deleted => obj'.deleted
      BY <1>4, StaysDeleted DEF AddFinalizer, RemoveFinalizer
    <3> QED BY <1>1, <2>1, <2>3, <2>4, <3>1, <3>2 DEF DeletionKnown
  <2>5. CASE pc' = "finish" /\ UNCHANGED kubeVars
    BY <1>1, <2>3, <2>5 DEF DeletionKnown, kubeVars
  <2> QED BY <2>1, <2>2, <2>3, <2>4, <2>5, ObjectUpdated
<1>5. CASE MarkCreatePending
  <2>1. ~mem.deleted /\ sent' = sent
    BY <1>5 DEF MarkCreatePending, outerVars
  <2>2. obj.deleted => obj'.deleted
    BY <1>5, StaysDeleted DEF MarkCreatePending, RemoveFinalizer
  <2>3. \/ pc' = "finish"
        \/ pc' = "bind" /\ memFresh
    BY <1>5 DEF MarkCreatePending, UpdateObject
  <2>4. memFresh => ~obj.deleted
    BY <2>1 DEF CopiesInv, FreshInv
  <2> QED BY <1>1, <2>1, <2>2, <2>3, <2>4 DEF DeletionKnown
<1>6. CASE Unbind
  <2>1. obj.deleted /\ obj' = obj /\ pc' = "finish"
    BY <1>1, <1>6 DEF Unbind, DeletionKnown, kubeVars
  <2> QED BY <2>1 DEF DeletionKnown
<1>7. CASE Bind
  <2>1. pc' = "annotate" /\ obj' = obj /\ sent' \in {sent, "create"}
    BY <1>7 DEF Bind, kubeVars
  <2> QED BY <1>1, <2>1 DEF DeletionKnown
<1>8. CASE PollBindingLastOperation \/ GetLatestKubeObject
  BY <1>1, <1>8
     DEF DeletionKnown, PollBindingLastOperation, IsStateInProgress, SyncInv,
         NotInProgress, GetLatestKubeObject
<1>9. ASSUME ~RemoveFinalizer, ~Bind, ~Unbind,
             pc' \in {"idle", "observe", "annotate", "finish"}
                \/ UNCHANGED <<pc, mem>>
      PROVE  DeletionKnown'
  <2>1. obj.deleted => obj'.deleted
    BY <1>9, StaysDeleted
  <2>2. sent' = sent
    BY <1>9, SteadyRequests
  <2> QED BY <1>1, <1>9, <2>1, <2>2 DEF DeletionKnown
<1>10. CASE StartReconcile \/ UpdateCriticalAnnotations \/ Rotate
            \/ FinishReconcile \/ Crash
  <2>1. pc' \in {"idle", "observe", "annotate", "finish"}
    BY <1>10
       DEF StartReconcile, UpdateCriticalAnnotations, Rotate, FinishReconcile,
           Crash, Return
  <2> QED BY <1>2, <1>6, <1>7, <1>9, <2>1
<1>11. CASE User \/ CacheSync \/ Outside \/ UNCHANGED vars
  <2>1. UNCHANGED <<pc, mem>>
    BY <1>11, UserWrites, OutsideAlone DEF CacheSync, localVars, vars
  <2> QED BY <1>2, <1>6, <1>7, <1>9, <2>1
<1> QED
  BY <1>2, <1>3, <1>4, <1>5, <1>6, <1>7, <1>8, <1>10, <1>11
     DEF OpenNext, Next, Reconcile, Outside

\* The invariant of brokers that answer every request at once.
LEMMA NextSync ==
    ASSUME BrokerModes \subseteq {"sync"}, Typed, CopiesInv, KeptInv, SyncInv,
           [OpenNext]_vars
    PROVE  SyncInv'
<1>1. NoneRunning
  BY DEF SyncInv, NoneRunning
<1> QED
  BY <1>1, NextEnded, NextQuiet, NextKnown
     DEF SyncInv, NoneRunning, QuietCopies, DeletionKnown

\* At first nothing is in progress.
LEMMA InitSync == Init => SyncInv
<1> SUFFICES ASSUME Init PROVE SyncInv
  OBVIOUS
<1>1. NoBinding.state = ""
  BY DEF NoBinding
<1>2. \A id \in Ids : broker[id] = NoBinding
  BY DEF Init
<1> QED BY <1>1, <1>2, Nothing DEF Init, SyncInv, NotInProgress, Running

\* All four invariants hold in every state.
LEMMA AlwaysSync ==
    ASSUME BrokerModes \subseteq {"sync"}
    PROVE  OpenSpec => [](Typed /\ CopiesInv /\ KeptInv /\ SyncInv)
<1>1. BindModes \subseteq {"sync"}
  BY DEF BindModes
<1>2. Typed /\ CopiesInv /\ KeptInv /\ [OpenNext]_vars => KeptInv'
  BY <1>1, NextKept
<1>3. Typed /\ CopiesInv /\ KeptInv /\ SyncInv /\ [OpenNext]_vars => SyncInv'
  BY NextSync
<1> QED
  BY <1>2, <1>3, InitKept, InitSync, AlwaysCopies, PTL DEF OpenSpec

\* Credentials are given back only while the stored object is marked for
\* deletion, never on account of an object of the same name that only the
\* cache still shows (Delete works on what Observe was given).
LEMMA OpenUnbinds ==
    ASSUME BrokerModes \subseteq {"sync"}
    PROVE  OpenSpec => UnbindOnlyWhenDeleted
<1>1. Typed /\ CopiesInv /\ KeptInv /\ SyncInv /\ Unbind
        => obj.exists /\ obj.deleted
  <2> SUFFICES ASSUME Typed, SyncInv, Unbind PROVE obj.exists /\ obj.deleted
    OBVIOUS
  <2>1. obj.deleted
    BY DEF Unbind, SyncInv
  <2> QED BY <2>1, CopyTypes, Exists
<1> QED BY <1>1, AlwaysSync, PTL DEF UnbindOnlyWhenDeleted

\* UnbindOnlyWhenDeleted of ServiceBinding, for brokers that answer at once:
\* Unbind is called for the object that is stored.
THEOREM UnbindsOnlyDeleted ==
    ASSUME BrokerModes \subseteq {"sync"}
    PROVE  Spec => UnbindOnlyWhenDeleted
<1> QED BY SpecOpen, OpenUnbinds, PTL

-----------------------------------------------------------------------------
(* The refinement of ManagedLifecycle *)

\* How a step looks from outside, given what it does to the stored object.
LEMMA SameLife ==
    ASSUME Steady, sent' = sent
    PROVE  UNCHANGED L!vars
BY DEF Steady, SameMarks, L!vars

\* Every step is a step of ManagedLifecycle or invisible to it.
LEMMA StepRefines ==
    ASSUME Typed, CopiesInv, SyncInv, [OpenNext]_vars
    PROVE  [L!Next]_(L!vars)
<1>1. CASE UserCreates
  <2>1. ~obj.exists /\ sent' = sent /\ ~obj'.deleted /\ ~obj'.finalizer
        /\ obj' \in LiveObjects
    BY <1>1, UserWrites DEF User
  <2>2. obj'.exists
    BY <2>1, LiveFields
  <2> QED BY <2>1, <2>2 DEF L!Next, L!Create
<1>2. CASE UserDeletes
  <2>1. obj.exists /\ ~obj.deleted /\ sent' = sent
    BY <1>2, UserWrites DEF User
  <2>2. CASE obj.finalizer
    <3>1. obj' \in LiveObjects /\ obj'.deleted
      BY <1>2, <2>2, UserWrites DEF User
    <3>2. obj'.exists
      BY <3>1, LiveFields
    <3> QED BY <2>1, <2>2, <3>1, <3>2 DEF L!Next, L!Delete
  <2>3. CASE ~obj.finalizer
    <3>1. ~obj'.exists
      BY <1>2, <2>3, UserWrites, Nothing DEF User
    <3> QED BY <2>1, <2>3, <3>1 DEF L!Next, L!Delete
  <2> QED BY <2>2, <2>3
<1>3. CASE AddFinalizer
  <2>1. sent' = sent
    BY <1>3 DEF AddFinalizer, outerVars
  <2>2. CASE obj' = obj
    BY <2>1, <2>2, SameLife DEF Steady, SameMarks
  <2>3. CASE /\ obj.exists /\ ~obj.deleted /\ ~obj.finalizer
             /\ obj'.exists /\ ~obj'.deleted /\ obj'.finalizer
    BY <2>1, <2>3 DEF L!Next, L!Hold
  <2> QED BY <1>3, <2>2, <2>3, Held
<1>4. CASE RemoveFinalizer
  <2>1. CASE obj' = obj /\ sent' = sent
    BY <2>1, SameLife DEF Steady, SameMarks
  <2>2. CASE obj.exists /\ obj.deleted /\ obj' = NoObject /\ sent' = ""
    <3>1. ~obj'.exists
      BY <2>2, Nothing
    <3> QED BY <2>2, <3>1 DEF L!Next, L!Release
  <2> QED BY <1>4, <2>1, <2>2, Released
<1>5. CASE Bind
  <2>1. /\ obj' = obj
        /\ sent' \in {sent, "create"}
        /\ obj.finalizer /\ sent # "delete"
    BY <1>5 DEF Bind, kubeVars, CopiesInv, StepInv, SyncInv
  <2>2. obj.exists
    BY <2>1, CopyTypes, Exists
  <2>3. CASE sent' = sent
    BY <2>1, <2>3, SameLife DEF Steady, SameMarks
  <2>4. CASE sent' = "create"
    BY <2>1, <2>2, <2>4 DEF L!Next, L!AskCreate
  <2> QED BY <2>1, <2>3, <2>4
<1>6. CASE Unbind
  <2>1. obj' = obj /\ sent' = "delete" /\ obj.deleted
    BY <1>6 DEF Unbind, kubeVars, SyncInv
  <2>2. obj.exists
    BY <2>1, CopyTypes, Exists
  <2> QED BY <2>1, <2>2 DEF L!Next, L!AskDelete
<1>7. CASE ~Marking /\ ~Bind /\ ~Unbind
  <2>1. ~RemoveFinalizer
    BY <1>7 DEF Marking
  <2> QED BY <1>7, <2>1, SteadyObject, SteadyRequests, SameLife
<1> QED BY <1>1, <1>2, <1>3, <1>4, <1>5, <1>6, <1>7 DEF Marking

\* With a broker that answers at once, the controller implements
\* ManagedLifecycle: whatever caches, conflicts, crashes and lost replies do,
\* a binding is asked for only once the object is held and given back only
\* once it is being deleted, and one given back is not asked for again.
LEMMA OpenRefines ==
    ASSUME BrokerModes \subseteq {"sync"}
    PROVE  OpenSpec => Lifecycle
<1>1. Init => L!Init
  <2> SUFFICES ASSUME Init PROVE L!Init
    OBVIOUS
  <2>1. ~obj.exists /\ sent = ""
    BY Nothing DEF Init
  <2> QED BY <2>1 DEF L!Init
<1>2. Typed /\ CopiesInv /\ SyncInv /\ [OpenNext]_vars => [L!Next]_(L!vars)
  BY StepRefines
<1> QED BY <1>1, <1>2, AlwaysSync, PTL DEF OpenSpec, Lifecycle, L!Spec

\* Lifecycle of ServiceBinding, for brokers that answer at once: create and
\* delete of the abstract specification are the controller's Bind and Unbind.
THEOREM BindingRefines ==
    ASSUME BrokerModes \subseteq {"sync"}
    PROVE  Spec => Lifecycle
<1> QED BY SpecOpen, OpenRefines, PTL
=============================================================================
