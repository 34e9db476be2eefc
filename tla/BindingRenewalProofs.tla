------------------------ MODULE BindingRenewalProofs -------------------------
(***************************************************************************)
(* The dates of a binding, and what the controller makes of them in time,  *)
(* for every poll interval, latency, life of the credentials and renewal   *)
(* window, and for every number of faults.                                 *)
(*                                                                         *)
(* The properties are about the clock; the proofs mostly are not.  Base is *)
(* the time by which the controller will have seen the binding through one *)
(* whole reconcile, whatever faults are left.  A step moves it by one Wait *)
(* at most, and only if it ends a reconcile without a fault (Budget).      *)
(* The invariants bound every date the controller has to act on by Base,   *)
(* and by Base + Wait once the running reconcile will not act on it.       *)
(***************************************************************************)
EXTENDS BindingRenewal, TLAPS

-----------------------------------------------------------------------------
(* Types *)

\* SomeDates: dates the broker sets now, and none, are dates.
LEMMA SomeDates ==
    /\ NoDates \in Dates
    /\ now \in 0..MaxTime => DatesOf(now) \in Dates
<1>1. NoDates \in Dates
  BY ConstantsAssumption DEF NoDates, Dates
<1>2. ASSUME now \in 0..MaxTime PROVE DatesOf(now) \in Dates
  <2>1. now + Life - Window \in 0..MaxTime + Life
    BY <1>2, ConstantsAssumption
  <2>2. now + Life \in 0..MaxTime + Life
    BY <1>2, ConstantsAssumption
  <2>. QED BY <2>1, <2>2 DEF DatesOf, Dates
<1>. QED BY <1>1, <1>2

\* ErredCopies: a failed reconcile leaves of its copy all but the condition.
LEMMA ErredCopies ==
    \A o \in Objects :
        /\ Erred(o) \in Objects
        /\ Erred(o).meta = o.meta
        /\ Erred(o).create = o.create
        /\ Erred(o).lastOp = o.lastOp
        /\ Erred(o).healthy = o.healthy
        /\ Erred(o).synced = "no"
BY DEF Objects, Erred

\* SyncedCopies: and so does one that succeeded.
LEMMA SyncedCopies ==
    \A o \in Objects :
        /\ Synced(o) \in Objects
        /\ Synced(o).meta = o.meta
        /\ Synced(o).create = o.create
        /\ Synced(o).lastOp = o.lastOp
        /\ Synced(o).healthy = o.healthy
        /\ Synced(o).synced = "yes"
BY DEF Objects, Synced

\* ResponseCopies: the reply of the broker brings the dates, and nothing else.
LEMMA ResponseCopies ==
    \A o \in Objects : \A meta \in Dates :
        /\ SetResponseDataInStatus(o, meta) \in Objects
        /\ SetResponseDataInStatus(o, meta).meta = meta
        /\ SetResponseDataInStatus(o, meta).create = o.create
        /\ SetResponseDataInStatus(o, meta).lastOp = o.lastOp
        /\ SetResponseDataInStatus(o, meta).healthy = o.healthy
BY DEF Objects, SetResponseDataInStatus

\* AsyncCopies: an asynchronous reply changes the last operation alone.
LEMMA AsyncCopies ==
    \A o \in Objects :
        /\ HandleAsyncStatus(o) \in Objects
        /\ HandleAsyncStatus(o).meta = o.meta
        /\ HandleAsyncStatus(o).create = o.create
        /\ HandleAsyncStatus(o).healthy = o.healthy
        /\ HandleAsyncStatus(o).lastOp = "in progress"
BY DEF Objects, HandleAsyncStatus

\* Copies with another creation annotation.
Created(o, create) == [o EXCEPT !.create = create]

\* CreatedCopies: the annotation of a creation changes the annotation alone.
LEMMA CreatedCopies ==
    \A o \in Objects :
        \A create \in {"", "pending", "succeeded", "failed"} :
            /\ Created(o, create) \in Objects
            /\ Created(o, create).create = create
            /\ Created(o, create).meta = o.meta
            /\ Created(o, create).lastOp = o.lastOp
            /\ Created(o, create).healthy = o.healthy
            /\ Created(o, create).synced = o.synced
BY DEF Objects, Created

\* MarkedHealth: MarkBinding touches the condition Healthy alone; without
\* rotation it always sets it, and otherwise for expired credentials.
LEMMA MarkedHealth ==
    \A o \in Objects :
        /\ MarkBinding(o) \in Objects
        /\ MarkBinding(o).meta = o.meta
        /\ MarkBinding(o).create = o.create
        /\ MarkBinding(o).lastOp = o.lastOp
        /\ MarkBinding(o).synced = o.synced
        /\ ~site.rotate => MarkBinding(o).healthy # ""
        /\ MarkBinding(o).healthy = "" => ~(o.meta.expires < now)
<1>. DEFINE Marked(o, health) == [o EXCEPT !.healthy = health]
<1>1. ASSUME NEW o \in Objects, NEW health \in {"soon", "expired"}
      PROVE  /\ Marked(o, health) \in Objects
             /\ Marked(o, health).meta = o.meta
             /\ Marked(o, health).create = o.create
             /\ Marked(o, health).lastOp = o.lastOp
             /\ Marked(o, health).synced = o.synced
             /\ Marked(o, health).healthy # ""
  BY <1>1 DEF Objects
<1>2. \A o : MarkBinding(o) = IF o.meta.expires < now THEN Marked(o, "expired")
                             ELSE IF ~site.rotate THEN Marked(o, "soon")
                             ELSE o
  BY Zenon DEF MarkBinding
<1>. HIDE DEF Marked
<1>3. TAKE o \in Objects
<1>4. CASE o.meta.expires < now
  <2>1. MarkBinding(o) = Marked(o, "expired")
    BY <1>2, <1>4
  <2>2. /\ Marked(o, "expired") \in Objects
        /\ Marked(o, "expired").meta = o.meta
        /\ Marked(o, "expired").create = o.create
        /\ Marked(o, "expired").lastOp = o.lastOp
        /\ Marked(o, "expired").synced = o.synced
        /\ Marked(o, "expired").healthy # ""
    BY <1>1
  <2>. QED BY <1>4, <2>1, <2>2
<1>5. CASE ~(o.meta.expires < now) /\ ~site.rotate
  <2>1. MarkBinding(o) = Marked(o, "soon")
    BY <1>2, <1>5
  <2>2. /\ Marked(o, "soon") \in Objects
        /\ Marked(o, "soon").meta = o.meta
        /\ Marked(o, "soon").create = o.create
        /\ Marked(o, "soon").lastOp = o.lastOp
        /\ Marked(o, "soon").synced = o.synced
        /\ Marked(o, "soon").healthy # ""
    BY <1>1
  <2>. QED BY <1>5, <2>1, <2>2
<1>6. CASE ~(o.meta.expires < now) /\ site.rotate
  <2>1. MarkBinding(o) = o
    BY <1>2, <1>6
  <2>. QED BY <1>6, <2>1
<1>. QED BY <1>4, <1>5, <1>6

\* BlankObject: the empty copy an idle worker has is an object.
LEMMA BlankObject ==
    /\ NewObject \in Objects
    /\ NewObject.create = ""
    /\ NewObject.meta = NoDates
    /\ NewObject.lastOp = ""
    /\ NewObject.healthy = ""
BY SomeDates DEF NewObject, Objects

\* AnnotatedCopies: UpdateCriticalAnnotations writes only the annotation, and
\* the answer decoded over the copy changes only its dates: to the stored
\* ones, when there are any.
LEMMA AnnotatedCopies ==
    ASSUME TypeOK, Annotate
    PROVE  /\ obj' \in Objects
           /\ obj'.create = mem.create
           /\ obj'.meta = obj.meta
           /\ obj'.lastOp = obj.lastOp
           /\ obj'.healthy = obj.healthy
           /\ obj'.synced = obj.synced
           /\ mem' \in Objects
           /\ mem'.meta = IF obj.meta = NoDates THEN mem.meta ELSE obj.meta
           /\ mem'.create = mem.create
           /\ mem'.lastOp = mem.lastOp
           /\ mem'.healthy = mem.healthy
           /\ mem'.synced = IF mem.create = "succeeded" THEN "yes" ELSE "no"
<1>. DEFINE meta == IF obj.meta = NoDates THEN mem.meta ELSE obj.meta
            decoded == [mem EXCEPT !.meta = meta]
<1>1. obj \in Objects /\ mem \in Objects
  BY DEF TypeOK
<1>2. mem.create \in {"", "pending", "succeeded", "failed"} /\ meta \in Dates
  BY <1>1 DEF Objects
<1>3. /\ obj' = Created(obj, mem.create)
      /\ mem' = IF mem.create = "succeeded" THEN Synced(decoded)
                                            ELSE Erred(decoded)
  BY <1>1 DEF Annotate, Objects, Created
<1>4. /\ decoded \in Objects
      /\ decoded.meta = meta
      /\ decoded.create = mem.create
      /\ decoded.lastOp = mem.lastOp
      /\ decoded.healthy = mem.healthy
  BY <1>1, <1>2 DEF Objects
<1>5. /\ mem' \in Objects
      /\ mem'.meta = decoded.meta
      /\ mem'.create = decoded.create
      /\ mem'.lastOp = decoded.lastOp
      /\ mem'.healthy = decoded.healthy
      /\ mem'.synced = IF mem.create = "succeeded" THEN "yes" ELSE "no"
  <2>. HIDE DEF decoded
  <2>. QED BY <1>2, <1>3, <1>4, ErredCopies, SyncedCopies
<1>6. /\ obj' \in Objects
      /\ obj'.create = mem.create
      /\ obj'.meta = obj.meta
      /\ obj'.lastOp = obj.lastOp
      /\ obj'.healthy = obj.healthy
      /\ obj'.synced = obj.synced
  <2>1. obj' = Created(obj, mem.create)
    BY <1>3
  <2>2. mem.create \in {"", "pending", "succeeded", "failed"}
    BY <1>2
  <2>3. /\ Created(obj, mem.create) \in Objects
        /\ Created(obj, mem.create).create = mem.create
        /\ Created(obj, mem.create).meta = obj.meta
        /\ Created(obj, mem.create).lastOp = obj.lastOp
        /\ Created(obj, mem.create).healthy = obj.healthy
        /\ Created(obj, mem.create).synced = obj.synced
    BY <1>1, <2>2, CreatedCopies
  <2>. QED BY <2>1, <2>3
<1>. QED BY <1>4, <1>5, <1>6
\* BoundCopies: what a reply to the bind, and the lack of one, leave in the
\* copy.
LEMMA BoundCopies ==
    ASSUME TypeOK, Bind
    PROVE  /\ mem' \in Objects
           /\ mem'.create \in {"succeeded", "failed"}
           /\ mem'.meta = IF mem'.create = "succeeded" THEN got' ELSE mem.meta
           /\ mem'.lastOp = mem.lastOp
           /\ mem'.healthy = mem.healthy
           /\ mem'.create = "succeeded" =>
                  /\ got' = DatesOf(now)
                  /\ broker' = DatesOf(now)
                  /\ faults' = faults
           /\ mem'.create = "failed" =>
                  /\ got' = got
                  /\ broker' \in {broker, DatesOf(now)}
                  /\ Fault
<1>1. mem \in Objects /\ DatesOf(now) \in Dates
  BY SomeDates DEF TypeOK
<1>2. CASE /\ broker' = DatesOf(now)
           /\ got' = DatesOf(now)
           /\ mem' = Created(SetResponseDataInStatus(mem, got'), "succeeded")
           /\ faults' = faults
  <2>. DEFINE o == SetResponseDataInStatus(mem, got')
  <2>1. /\ o \in Objects /\ o.meta = got'
        /\ o.lastOp = mem.lastOp /\ o.healthy = mem.healthy
    BY <1>1, <1>2, ResponseCopies
  <2>2. mem' = Created(o, "succeeded")
    BY <1>2
  <2>. HIDE DEF o
  <2>3. /\ mem' \in Objects /\ mem'.create = "succeeded" /\ mem'.meta = o.meta
        /\ mem'.lastOp = o.lastOp /\ mem'.healthy = o.healthy
    BY <2>1, <2>2, CreatedCopies
  <2>. QED BY <1>2, <2>1, <2>3
<1>3. CASE /\ Fault
           /\ broker' \in {broker, DatesOf(now)}
           /\ mem' = Created(mem, "failed")
           /\ got' = got
  BY <1>1, <1>3, CreatedCopies
<1>. QED BY <1>2, <1>3 DEF Bind, Created

\* FaultsCounted: the faults stay within their bound.
LEMMA FaultsCounted ==
    ASSUME TypeOK, faults' = faults \/ Fault
    PROVE  faults' \in 0..MaxFaults
<1>1. faults \in 0..MaxFaults /\ MaxFaults \in Nat
  BY ConstantsAssumption DEF TypeOK
<1>. QED BY <1>1 DEF Fault

\* TypesHold: every step keeps the types: one step for each action.
LEMMA TypesHold == ASSUME TypeOK, [Next]_vars PROVE TypeOK'
<1>. USE SomeDates
<1>. obj \in Objects /\ mem \in Objects /\ broker \in Dates /\ got \in Dates
  BY DEF TypeOK
<1>1. CASE Tick
  <2>1. now' \in 0..MaxTime
    BY <1>1, ConstantsAssumption DEF Tick, TypeOK
  <2>. QED BY <1>1, <2>1 DEF Tick, TypeOK
<1>2. CASE BrokerForgets
  BY <1>2 DEF BrokerForgets, clockVars, TypeOK
<1>3. CASE StartReconcile
  <2>1. mem' \in Objects
    BY <1>3, ErredCopies DEF StartReconcile
  <2>2. pc' \in Steps
    BY <1>3 DEF StartReconcile, Steps
  <2>. QED BY <1>3, <2>1, <2>2 DEF StartReconcile, TypeOK
<1>4. CASE PollBindingLastOperation
  <2>1. mem' \in Objects /\ pc' \in Steps
    BY <1>4, ErredCopies DEF PollBindingLastOperation, Steps
  <2>. QED BY <1>4, <2>1 DEF PollBindingLastOperation, clockVars, TypeOK
<1>5. CASE GetBinding
  <2>1. mem' \in Objects
    BY <1>5, ErredCopies, ResponseCopies DEF GetBinding
  <2>2. pc' \in Steps
    BY <1>5 DEF GetBinding, Steps
  <2>3. got' \in Dates
    BY <1>5 DEF GetBinding, TypeOK
  <2>4. faults' \in 0..MaxFaults
    <3>1. faults' = faults \/ Fault
      BY <1>5 DEF GetBinding
    <3>. QED BY <3>1, FaultsCounted
  <2>. QED BY <1>5, <2>1, <2>2, <2>3, <2>4 DEF GetBinding, clockVars, TypeOK
<1>6. CASE CheckRenewal
  <2>1. pc' \in Steps
    BY <1>6 DEF CheckRenewal, Steps
  <2>. QED BY <1>6, <2>1 DEF CheckRenewal, clockVars, TypeOK
<1>7. CASE CheckExpiry
  <2>1. mem' \in Objects
    BY <1>7, ErredCopies, MarkedHealth DEF CheckExpiry
  <2>2. pc' \in Steps
    BY <1>7 DEF CheckExpiry, Steps
  <2>. QED BY <1>7, <2>1, <2>2 DEF CheckExpiry, clockVars, TypeOK
<1>8. CASE PublishObserved
  <2>1. mem' \in Objects /\ pc' \in Steps
    BY <1>8, SyncedCopies DEF PublishObserved, Steps
  <2>. QED BY <1>8, <2>1 DEF PublishObserved, clockVars, TypeOK
<1>9. CASE MarkCreatePending
  <2>1. mem' \in Objects /\ obj' \in Objects /\ pc' \in Steps
    BY <1>9, CreatedCopies DEF MarkCreatePending, Created, Steps
  <2>. QED BY <1>9, <2>1 DEF MarkCreatePending, clockVars, TypeOK
<1>10. CASE Bind
  <2>1. broker' \in Dates /\ got' \in Dates
    BY <1>10 DEF Bind, TypeOK
  <2>2. mem' \in Objects
    BY <1>10, <2>1, BoundCopies
  <2>3. faults' \in 0..MaxFaults
    BY <1>10, FaultsCounted DEF Bind
  <2>4. pc' \in Steps
    BY <1>10 DEF Bind, Steps
  <2>. QED BY <1>10, <2>1, <2>2, <2>3, <2>4 DEF Bind, clockVars, TypeOK
<1>11. CASE Annotate
  <2>1. mem' \in Objects /\ obj' \in Objects
    BY <1>11, AnnotatedCopies
  <2>2. secret' \in Dates /\ pc' \in Steps
    BY <1>11 DEF Annotate, TypeOK, Steps
  <2>. QED BY <1>11, <2>1, <2>2 DEF Annotate, clockVars, TypeOK
<1>12. CASE Rotate
  <2>1. mem' \in Objects
    BY <1>12, ErredCopies, SyncedCopies, AsyncCopies DEF Rotate
  <2>2. got' \in Dates
    BY <1>12 DEF Rotate, TypeOK
  <2>3. faults' \in 0..MaxFaults
    BY <1>12, FaultsCounted DEF Rotate
  <2>4. pc' \in Steps
    BY <1>12 DEF Rotate, Steps
  <2>. QED BY <1>12, <2>1, <2>2, <2>3, <2>4 DEF Rotate, clockVars, TypeOK
<1>13. CASE PublishRotated
  <2>1. mem' \in Objects /\ pc' \in Steps
    BY <1>13, SyncedCopies DEF PublishRotated, Steps
  <2>. QED BY <1>13, <2>1 DEF PublishRotated, clockVars, TypeOK
<1>14. ASSUME Return PROVE /\ next' \in 0..MaxTime + Poll
                           /\ mem' \in Objects
                           /\ got' \in Dates
                           /\ pc' \in Steps
  <2>1. now \in 0..MaxTime /\ MaxTime \in Nat /\ Poll \in Nat
    BY ConstantsAssumption DEF TypeOK
  <2>2. now + Poll \in 0..MaxTime + Poll
    BY <2>1
  <2>. QED BY <1>14, <2>2, BlankObject DEF Return, Steps
<1>15. CASE FinishReconcile
  <2>1. obj' \in Objects
    BY <1>15 DEF FinishReconcile, TypeOK
  <2>2. faults' \in 0..MaxFaults
    BY <1>15, FaultsCounted DEF FinishReconcile
  <2>. QED BY <1>14, <1>15, <2>1, <2>2 DEF FinishReconcile, TypeOK
<1>16. CASE Crash
  <2>1. faults' \in 0..MaxFaults
    BY <1>16, FaultsCounted DEF Crash
  <2>. QED BY <1>14, <1>16, <2>1 DEF Crash, TypeOK
<1>17. CASE UNCHANGED vars
  BY <1>17 DEF vars, TypeOK
<1>. QED
  BY <1>1, <1>2, <1>3, <1>4, <1>5, <1>6, <1>7, <1>8, <1>9, <1>10, <1>11,
     <1>12, <1>13, <1>15, <1>16, <1>17 DEF Next

\* TypesBegin: the initial states have their types.
LEMMA TypesBegin == ASSUME Init PROVE TypeOK
<1>1. 0 \in 0..MaxTime /\ 0 \in 0..MaxTime + Poll /\ 0 \in 0..MaxFaults
  BY ConstantsAssumption
<1>. QED BY <1>1, SomeDates, BlankObject DEF Init, TypeOK, Steps

\* RenewalTypes: the type invariant, for every site and every bound.
THEOREM RenewalTypes == Spec => []TypeOK
<1>1. Init => TypeOK
  BY TypesBegin
<1>2. TypeOK /\ [Next]_vars => TypeOK'
  BY TypesHold
<1>. QED BY <1>1, <1>2, PTL DEF Spec
-----------------------------------------------------------------------------
(* Time *)

\* A reconcile is begun and ended in time.
TimeInv ==
    /\ pc = "idle" => now <= next
    /\ pc # "idle" => started <= now /\ now <= started + Latency

Wait == Poll + Latency

Cost(k) == k * Wait

\* When the reconcile now waited for or running has ended at the latest, and
\* as many more as may fail.
BaseOf(start, fault) == start + Latency + Cost(MaxFaults - fault)

Base == BaseOf(IF pc = "idle" THEN next ELSE started, faults)

\* What a step may do to Base.
Budget ==
    /\ Base \in Int /\ Base' \in Int
    /\ pc = "idle" => Base' <= Base
    /\ pc # "idle" /\ pc' # "idle" =>
           (faults' = faults /\ Base' = Base) \/ (Fault /\ Base' + Wait = Base)
    /\ pc # "idle" /\ pc' = "idle" =>
           Base' <= Base + Wait /\ (Fault => Base' <= Base)

\* CostStep: each fault costs a Wait.
LEMMA CostStep ==
    ASSUME NEW k \in Nat
    PROVE  /\ Wait \in Nat
           /\ Wait >= Latency
           /\ Cost(k) \in Nat
           /\ Cost(k + 1) = Cost(k) + Wait
<1>1. Wait \in Nat /\ Wait >= Latency
  BY ConstantsAssumption DEF Wait
<1>2. k * Wait \in Nat /\ (k + 1) * Wait = k * Wait + Wait
  BY <1>1
<1>. QED BY <1>1, <1>2 DEF Cost

\* CostMonotone: fewer faults cost less.
LEMMA CostMonotone ==
    ASSUME NEW k \in Nat, NEW m \in Nat, k <= m
    PROVE  Cost(k) <= Cost(m)
<1>1. Wait \in Nat
  BY ConstantsAssumption DEF Wait
<1>2. m - k \in Nat /\ (m - k) * Wait >= 0
  BY <1>1
<1>3. (m - k) * Wait = m * Wait - k * Wait
  BY <1>1
<1>4. k * Wait \in Int /\ m * Wait \in Int
  BY <1>1
<1>. QED BY <1>2, <1>3, <1>4 DEF Cost

\* BaseInSlack: while a reconcile runs, Slack after its beginning leaves one
\* Wait more than is needed; and the clock is never past Base.
LEMMA BaseInSlack ==
    ASSUME TypeOK, TimeInv
    PROVE  /\ Base \in Int
           /\ Wait \in Nat
           /\ Slack \in Int
           /\ now <= Base
           /\ pc # "idle" => Base + Wait <= started + Slack
           /\ pc # "idle" => Base >= started
<1>1. /\ faults \in 0..MaxFaults /\ now \in Nat /\ next \in Nat
      /\ started \in Nat
  BY ConstantsAssumption DEF TypeOK
<1>2. MaxFaults \in Nat /\ Latency \in Nat /\ Poll \in Nat
  BY ConstantsAssumption
<1>3. MaxFaults - faults \in Nat /\ MaxFaults - faults <= MaxFaults
  BY <1>1, <1>2
<1>4. /\ Cost(MaxFaults - faults) \in Nat
      /\ Cost(MaxFaults - faults) <= Cost(MaxFaults)
      /\ Cost(MaxFaults) \in Nat
      /\ Cost(MaxFaults + 1) = Cost(MaxFaults) + Wait
      /\ Wait \in Nat
  BY <1>2, <1>3, CostStep, CostMonotone
<1>5. Slack = Cost(MaxFaults + 1) + Latency
  BY DEF Slack, Cost, Wait
<1>. QED BY <1>1, <1>2, <1>4, <1>5 DEF Base, BaseOf, TimeInv

\* BaseMoves: every step keeps to Budget.
LEMMA BaseMoves ==
    ASSUME TypeOK, TypeOK', TimeInv, Next
    PROVE  Budget
<1>1. /\ faults \in 0..MaxFaults /\ now \in Nat /\ next \in Nat
      /\ started \in Nat
  BY ConstantsAssumption DEF TypeOK
<1>2. /\ faults' \in 0..MaxFaults /\ now' \in Nat /\ next' \in Nat
      /\ started' \in Nat
  BY ConstantsAssumption DEF TypeOK
<1>3. MaxFaults \in Nat /\ Latency \in Nat /\ Poll \in Nat
  BY ConstantsAssumption
<1>. DEFINE cost == Cost(MaxFaults - faults)
            costThen == Cost(MaxFaults - faults')
<1>4. /\ cost \in Nat /\ costThen \in Nat /\ Wait \in Nat
      /\ Wait = Poll + Latency
  <2>1. \A f \in 0..MaxFaults : MaxFaults - f \in Nat
    BY <1>3
  <2>2. MaxFaults - faults \in Nat /\ MaxFaults - faults' \in Nat
    BY <1>1, <1>2, <2>1
  <2>. QED BY <2>2, CostStep DEF Wait
<1>5. faults' = faults => costThen = cost
  OBVIOUS
<1>6. Fault => costThen + Wait = cost
  <2>. SUFFICES ASSUME Fault PROVE costThen + Wait = cost
    OBVIOUS
  <2>1. /\ MaxFaults - faults' \in Nat
        /\ (MaxFaults - faults') + 1 = MaxFaults - faults
    BY <1>1, <1>2, <1>3 DEF Fault
  <2>. QED BY <2>1, CostStep
<1>7. /\ Base = (IF pc = "idle" THEN next ELSE started) + Latency + cost
      /\ Base' = (IF pc' = "idle" THEN next' ELSE started') + Latency
                     + costThen
  BY DEF Base, BaseOf
<1>. HIDE DEF cost, costThen
<1>8. Base \in Int /\ Base' \in Int
  BY <1>1, <1>2, <1>3, <1>4, <1>7
<1>9. CASE Tick \/ BrokerForgets
  <2>1. /\ pc' = pc /\ next' = next /\ started' = started /\ faults' = faults
    BY <1>9 DEF Tick, BrokerForgets, clockVars
  <2>. QED BY <1>3, <1>4, <1>5, <1>7, <1>8, <2>1 DEF Budget
<1>10. CASE StartReconcile
  <2>1. /\ pc = "idle" /\ pc' # "idle" /\ started' = now /\ faults' = faults
        /\ now <= next
    BY <1>10 DEF StartReconcile, TimeInv
  <2>. QED BY <1>1, <1>2, <1>3, <1>4, <1>5, <1>7, <1>8, <2>1 DEF Budget
<1>11. CASE \/ PollBindingLastOperation \/ GetBinding \/ CheckRenewal
            \/ CheckExpiry \/ PublishObserved \/ MarkCreatePending \/ Bind
            \/ Annotate \/ Rotate \/ PublishRotated
  <2>1. pc # "idle" /\ pc' # "idle" /\ started' = started
    BY <1>11 DEF PollBindingLastOperation, GetBinding, CheckRenewal,
       CheckExpiry, PublishObserved, MarkCreatePending, Bind, Annotate,
       Rotate, PublishRotated, clockVars
  <2>2. faults' = faults \/ Fault
    BY <1>11 DEF PollBindingLastOperation, GetBinding, CheckRenewal,
       CheckExpiry, PublishObserved, MarkCreatePending, Bind, Annotate,
       Rotate, PublishRotated
  <2>3. (faults' = faults /\ Base' = Base) \/ (Fault /\ Base' + Wait = Base)
    <3>1. CASE faults' = faults
      BY <1>1, <1>3, <1>4, <1>5, <1>7, <2>1, <3>1
    <3>2. CASE Fault
      BY <1>1, <1>3, <1>4, <1>6, <1>7, <2>1, <3>2
    <3>. QED BY <2>2, <3>1, <3>2
  <2>. QED BY <1>8, <2>1, <2>3 DEF Budget
<1>12. CASE FinishReconcile \/ Crash
  <2>1. /\ pc # "idle" /\ pc' = "idle" /\ next' = now + Poll
        /\ now <= started + Latency
    BY <1>12 DEF FinishReconcile, Crash, Return, TimeInv
  <2>2. faults' = faults \/ Fault
    BY <1>12 DEF FinishReconcile, Crash
  <2>3. faults' = faults => Base' <= Base + Wait
    BY <1>1, <1>3, <1>4, <1>5, <1>7, <2>1
  <2>4. Fault => Base' <= Base
    BY <1>1, <1>2, <1>3, <1>4, <1>6, <1>7, <2>1
  <2>5. Base' <= Base + Wait
    BY <1>4, <1>8, <2>2, <2>3, <2>4
  <2>. QED BY <1>8, <2>1, <2>4, <2>5 DEF Budget
<1>. QED BY <1>9, <1>10, <1>11, <1>12 DEF Next

\* TimeHolds: the clock stops for a reconcile that is due or not done.
LEMMA TimeHolds ==
    ASSUME TypeOK, TypeOK', TimeInv, [Next]_vars
    PROVE  TimeInv'
<1>1. /\ now \in Nat /\ now' \in Nat /\ next \in Nat /\ started \in Nat
      /\ Poll \in Nat /\ Latency \in Nat
  BY ConstantsAssumption DEF TypeOK
<1>2. CASE Tick
  BY <1>1, <1>2 DEF Tick, TimeInv
<1>3. CASE StartReconcile
  BY <1>1, <1>3 DEF StartReconcile, TimeInv
<1>4. CASE FinishReconcile \/ Crash
  BY <1>1, <1>4 DEF FinishReconcile, Crash, Return, TimeInv
<1>5. CASE \/ PollBindingLastOperation \/ GetBinding \/ CheckRenewal
           \/ CheckExpiry \/ PublishObserved \/ MarkCreatePending \/ Bind
           \/ Annotate \/ Rotate \/ PublishRotated
  <2>1. pc # "idle" /\ pc' # "idle" /\ started' = started /\ now' = now
    BY <1>5 DEF PollBindingLastOperation, GetBinding, CheckRenewal,
       CheckExpiry, PublishObserved, MarkCreatePending, Bind, Annotate,
       Rotate, PublishRotated, clockVars
  <2>. QED BY <2>1 DEF TimeInv
<1>6. CASE BrokerForgets \/ UNCHANGED vars
  BY <1>6 DEF BrokerForgets, clockVars, vars, TimeInv
<1>. QED BY <1>2, <1>3, <1>4, <1>5, <1>6 DEF Next
-----------------------------------------------------------------------------
(* What the steps of a reconcile know *)

Paired(dates) == dates # NoDates => dates.expires = dates.renew + Window

\* The steps that act on the dates the broker told.
Looks == {"renewal", "expiry", "upToDate", "outdated"}

\* The dates a step has in got and in the copy are the broker's, unless it
\* dropped the binding since, as expired; a binding is made only when there
\* is none; no marked copy is stored; and who rotates, and how.
FlowInv ==
    /\ Paired(broker) /\ Paired(got)
    /\ "in progress" \in {obj.lastOp, mem.lastOp}
           => site.rotate /\ site.async /\ site.format = "both"
    /\ obj.healthy = ""
    /\ mem.healthy # "" =>
           /\ pc \in {"upToDate", "outdated", "publish", "finish"}
           /\ site.format = "both"
    /\ mem.create = "pending" => obj.create = "pending"
    /\ pc \in {"renewal", "expiry", "outdated", "publish"}
           => site.format # "noRenewal"
    /\ pc \in {"outdated", "publish"} => site.rotate /\ site.format = "both"
    /\ pc = "publish" => ~site.async
    /\ obj.create = "pending" => pc \in {"idle", "bind", "annotate", "finish"}
    /\ pc = "finish" /\ obj.create = "pending" => mem.create = "pending"
    /\ pc = "annotate" => mem.create \in {"succeeded", "failed"}
    /\ pc \in {"absent", "bind"} => broker = NoDates
    /\ pc \in Looks =>
           /\ got # NoDates
           /\ mem.meta = got
           /\ broker = got \/ (broker = NoDates /\ got.expires < now)
    /\ pc = "annotate" /\ mem.create = "succeeded" =>
           /\ mem.meta = got
           /\ broker \in {got, NoDates}

\* FreshDates: dates set now are dates, and are Life and Window apart.
LEMMA FreshDates ==
    ASSUME TypeOK
    PROVE  /\ DatesOf(now) \in Dates
           /\ DatesOf(now) # NoDates
           /\ DatesOf(now).expires = now + Life
           /\ DatesOf(now).renew = now + Life - Window
           /\ Paired(DatesOf(now))
<1>1. now \in 0..MaxTime /\ MaxTime \in Nat /\ Life \in Nat /\ Window \in Nat
  BY ConstantsAssumption DEF TypeOK
<1>2. now + Life # 0
  BY <1>1, ConstantsAssumption
<1>3. /\ DatesOf(now).expires = now + Life
      /\ DatesOf(now).renew = now + Life - Window
  BY DEF DatesOf
<1>4. DatesOf(now) # NoDates
  BY <1>2 DEF DatesOf, NoDates
<1>5. DatesOf(now).expires = DatesOf(now).renew + Window
  BY <1>1, <1>3
<1>. QED BY <1>1, <1>3, <1>4, <1>5, SomeDates DEF Paired

\* FlowHolds: one step for each action.
LEMMA FlowHolds ==
    ASSUME TypeOK, TypeOK', FlowInv, [Next]_vars
    PROVE  FlowInv'
<1>1. obj \in Objects /\ mem \in Objects /\ broker \in Dates /\ got \in Dates
  BY DEF TypeOK
<1>2. CASE Tick
  <2>1. UNCHANGED <<site, pc, obj, mem, got, broker>>
    BY <1>2 DEF Tick
  <2>2. pc \in Looks /\ got.expires < now => got.expires < now'
    <3>1. got.expires \in Int /\ now \in Int /\ now' = now + 1
      BY <1>1, <1>2, ConstantsAssumption DEF Tick, TypeOK, Dates
    <3>. QED BY <3>1
  <2>. QED BY <2>1, <2>2 DEF FlowInv, Paired
<1>3. CASE BrokerForgets
  BY <1>3 DEF BrokerForgets, clockVars, FlowInv, Paired
<1>4. CASE StartReconcile
  <2>1. /\ mem'.lastOp = obj.lastOp /\ mem'.create = obj.create
        /\ mem'.healthy = obj.healthy
    BY <1>1, <1>4, ErredCopies DEF StartReconcile
  <2>2. /\ pc' \in {"observe", "finish"}
        /\ obj.create = "pending" => pc' = "finish"
        /\ UNCHANGED <<site, now, obj, got, broker>>
    BY <1>4 DEF StartReconcile
  <2>. QED BY <2>1, <2>2 DEF FlowInv, Looks, Paired
<1>5. CASE PollBindingLastOperation
  <2>1. /\ mem'.lastOp = mem.lastOp /\ mem'.create = mem.create
        /\ mem'.healthy = mem.healthy
    BY <1>1, <1>5, ErredCopies DEF PollBindingLastOperation
  <2>2. /\ pc = "observe" /\ pc' = "finish"
        /\ UNCHANGED <<site, now, obj, got, broker>>
    BY <1>5 DEF PollBindingLastOperation, clockVars
  <2>. QED BY <2>1, <2>2 DEF FlowInv, Looks, Paired
<1>6. CASE GetBinding
  <2>1. /\ pc = "observe"
        /\ UNCHANGED <<site, now, obj, broker>>
    BY <1>6 DEF GetBinding, clockVars
  <2>2. /\ mem'.lastOp = mem.lastOp /\ mem'.create = mem.create
        /\ mem'.healthy = mem.healthy
    <3>1. \/ mem' = mem
          \/ mem' = SetResponseDataInStatus(mem, broker)
          \/ mem' = Erred(mem)
      BY <1>6 DEF GetBinding
    <3>. QED BY <1>1, <3>1, ErredCopies, ResponseCopies
  <2>3. CASE broker = NoDates /\ pc' = "absent" /\ UNCHANGED got
    BY <2>1, <2>2, <2>3 DEF FlowInv, Looks, Paired
  <2>4. CASE /\ broker # NoDates
             /\ got' = broker
             /\ mem' = SetResponseDataInStatus(mem, broker)
             /\ pc' = IF site.format = "noRenewal" THEN "upToDate"
                                                   ELSE "renewal"
    <3>1. mem'.meta = got'
      BY <1>1, <2>4, ResponseCopies
    <3>. QED BY <2>1, <2>2, <2>4, <3>1 DEF FlowInv, Looks, Paired
  <2>5. CASE pc' = "finish" /\ UNCHANGED got
    BY <2>1, <2>2, <2>5 DEF FlowInv, Looks, Paired
  <2>. QED BY <1>6, <2>3, <2>4, <2>5 DEF GetBinding
<1>7. CASE CheckRenewal
  <2>1. /\ pc = "renewal" /\ pc' \in {"expiry", "upToDate"}
        /\ UNCHANGED <<site, now, obj, mem, got, broker>>
    BY <1>7 DEF CheckRenewal, clockVars
  <2>. QED BY <2>1 DEF FlowInv, Looks, Paired
<1>8. CASE CheckExpiry
  <2>1. /\ pc = "expiry"
        /\ pc' = IF site.format = "badExpiry" THEN "finish"
                 ELSE IF site.rotate THEN "outdated" ELSE "upToDate"
        /\ UNCHANGED <<site, now, obj, got, broker>>
    BY <1>8 DEF CheckExpiry, ParseISO8601Time, clockVars
  <2>2. /\ mem'.lastOp = mem.lastOp /\ mem'.meta = mem.meta
        /\ mem'.create = mem.create
    <3>1. mem' \in {Erred(mem), MarkBinding(mem)}
      BY <1>8 DEF CheckExpiry
    <3>2. CASE mem' = Erred(mem)
      BY <1>1, <3>2, ErredCopies, Zenon
    <3>3. CASE mem' = MarkBinding(mem)
      BY <1>1, <3>3, MarkedHealth, Zenon
    <3>. QED BY <3>1, <3>2, <3>3
  <2>3. site.format # "noRenewal" /\ site.format # "badExpiry"
            => site.format = "both"
    BY ConstantsAssumption DEF TypeOK, Sites
  <2>4. site.format = "badExpiry" => mem'.healthy = mem.healthy
    BY <1>1, <1>8, ErredCopies DEF CheckExpiry, ParseISO8601Time
  <2>. QED BY <2>1, <2>2, <2>3, <2>4 DEF FlowInv, Looks, Paired
<1>9. CASE PublishObserved \/ PublishRotated
  <2>1. /\ mem'.lastOp = mem.lastOp /\ mem'.create = mem.create
        /\ mem'.healthy = mem.healthy
    BY <1>1, <1>9, SyncedCopies DEF PublishObserved, PublishRotated
  <2>2. /\ pc \in {"upToDate", "publish"} /\ pc' = "finish"
        /\ UNCHANGED <<site, now, obj, got, broker>>
    BY <1>9 DEF PublishObserved, PublishRotated, clockVars
  <2>. QED BY <2>1, <2>2 DEF FlowInv, Looks, Paired
<1>10. CASE MarkCreatePending
  <2>1. /\ mem'.lastOp = mem.lastOp /\ obj'.lastOp = obj.lastOp
        /\ mem'.healthy = mem.healthy /\ obj'.healthy = obj.healthy
        /\ obj'.create = "pending"
    BY <1>1, <1>10, CreatedCopies DEF MarkCreatePending, Created
  <2>2. /\ pc = "absent" /\ pc' = "bind"
        /\ UNCHANGED <<site, now, got, broker>>
    BY <1>10 DEF MarkCreatePending, clockVars
  <2>. QED BY <2>1, <2>2 DEF FlowInv, Looks, Paired
<1>11. CASE Bind
  <2>1. pc = "bind" /\ pc' = "annotate" /\ UNCHANGED <<site, now, obj>>
    BY <1>11 DEF Bind, clockVars
  <2>2. Paired(broker') /\ Paired(got')
    BY <1>11, FreshDates, BoundCopies DEF FlowInv
  <2>3. mem'.create = "succeeded" => broker' = got' /\ mem'.meta = got'
    BY <1>11, BoundCopies
  <2>4. /\ mem'.lastOp = mem.lastOp /\ mem'.healthy = mem.healthy
        /\ mem'.create \in {"succeeded", "failed"}
    BY <1>11, BoundCopies
  <2>. QED BY <2>1, <2>2, <2>3, <2>4 DEF FlowInv, Looks, Paired
<1>12. CASE Annotate
  <2>1. /\ pc = "annotate" /\ pc' = "finish"
        /\ UNCHANGED <<site, now, got, broker>>
    BY <1>12 DEF Annotate, clockVars
  <2>2. /\ obj'.create = mem.create /\ mem'.create = mem.create
        /\ obj'.lastOp = obj.lastOp /\ mem'.lastOp = mem.lastOp
        /\ obj'.healthy = obj.healthy /\ mem'.healthy = mem.healthy
    BY <1>12, AnnotatedCopies
  <2>. QED BY <2>1, <2>2 DEF FlowInv, Looks, Paired
<1>13. CASE Rotate
  <2>1. /\ pc = "outdated" /\ UNCHANGED <<site, now, obj, broker>>
        /\ pc' \in {"publish", "finish"}
        /\ pc' = "publish" => ~site.async
        /\ got' \in {got, DatesOf(now)}
    BY <1>13 DEF Rotate, clockVars
  <2>2. Paired(got')
    BY <2>1, FreshDates DEF FlowInv
  <2>3. mem'.lastOp = mem.lastOp \/ site.async
    BY <1>1, <1>13, ErredCopies DEF Rotate
  <2>5. mem'.create = mem.create
    <3>1. mem' \in {mem, Erred(mem), Synced(HandleAsyncStatus(mem))}
      BY <1>13 DEF Rotate
    <3>2. /\ HandleAsyncStatus(mem) \in Objects
          /\ HandleAsyncStatus(mem).create = mem.create
      BY <1>1, AsyncCopies
    <3>. QED BY <1>1, <3>1, <3>2, ErredCopies, SyncedCopies
  <2>4. site.rotate /\ site.format = "both"
    BY <2>1 DEF FlowInv
  <2>. QED BY <2>1, <2>2, <2>3, <2>4, <2>5 DEF FlowInv, Looks, Paired
<1>14. CASE FinishReconcile \/ Crash
  <2>1. /\ pc' = "idle" /\ mem' = NewObject /\ got' = NoDates
        /\ UNCHANGED <<site, now, broker>>
        /\ obj' = obj \/ (obj' = mem /\ mem.healthy = "")
    BY <1>14 DEF FinishReconcile, Crash, Return, Storable
  <2>2. /\ obj'.lastOp \in {obj.lastOp, mem.lastOp} /\ mem'.lastOp = ""
        /\ mem'.healthy = "" /\ mem'.create = ""
    BY <2>1, BlankObject
  <2>. QED BY <2>1, <2>2 DEF FlowInv, Looks, Paired
<1>15. CASE UNCHANGED vars
  BY <1>15 DEF vars, FlowInv, Paired
<1>. QED
  BY <1>2, <1>3, <1>4, <1>5, <1>6, <1>7, <1>8, <1>9, <1>10, <1>11, <1>12,
     <1>13, <1>14, <1>15 DEF Next
-----------------------------------------------------------------------------
(* The dates in the status *)

\* The copy has the stored dates until the broker told others, and after that
\* those of the credentials it publishes.
MetaInv ==
    /\ pc \in {"observe", "absent", "bind"} => mem.meta = obj.meta
    /\ pc = "annotate" /\ mem.create = "failed" => mem.meta = obj.meta
    /\ pc = "finish" /\ ~site.rotate /\ site.format = "both" =>
           \/ mem.meta = obj.meta
           \/ mem.meta = secret /\ broker \in {secret, NoDates}

\* MetaHolds: one step for each action.
LEMMA MetaHolds ==
    ASSUME TypeOK, TypeOK', FlowInv, FlowInv', MetaInv, [Next]_vars
    PROVE  MetaInv'
<1>1. obj \in Objects /\ mem \in Objects /\ broker \in Dates /\ got \in Dates
  BY DEF TypeOK
<1>2. CASE Tick \/ BrokerForgets \/ CheckRenewal \/ UNCHANGED vars
  <2>1. /\ UNCHANGED <<site, obj, mem, secret>>
        /\ broker' \in {broker, NoDates}
        /\ pc' = pc \/ pc' \in {"expiry", "upToDate"}
    BY <1>2 DEF Tick, BrokerForgets, CheckRenewal, clockVars, vars
  <2>. QED BY <2>1 DEF MetaInv
<1>3. CASE StartReconcile
  <2>1. mem'.meta = obj.meta /\ obj' = obj
    BY <1>1, <1>3, ErredCopies DEF StartReconcile
  <2>2. pc' \in {"observe", "finish"}
    BY <1>3 DEF StartReconcile
  <2>. QED BY <2>1, <2>2 DEF MetaInv
<1>4. CASE PollBindingLastOperation
  <2>1. pc = "observe" /\ pc' = "finish" /\ obj' = obj
    BY <1>4 DEF PollBindingLastOperation
  <2>2. mem'.meta = mem.meta
    BY <1>1, <1>4, ErredCopies DEF PollBindingLastOperation
  <2>. QED BY <2>1, <2>2 DEF MetaInv
<1>5. CASE GetBinding
  <2>1. pc = "observe" /\ obj' = obj
    BY <1>5 DEF GetBinding
  <2>2. CASE pc' = "absent" /\ mem' = mem
    BY <2>1, <2>2 DEF MetaInv
  <2>3. CASE pc' \in {"upToDate", "renewal"}
    BY <2>1, <2>3 DEF MetaInv
  <2>4. CASE pc' = "finish" /\ mem' = Erred(mem)
    BY <1>1, <2>1, <2>4, ErredCopies DEF MetaInv
  <2>. QED BY <1>5, <2>2, <2>3, <2>4 DEF GetBinding
<1>6. CASE CheckExpiry
  <2>1. /\ site' = site
        /\ site.format = "both" => pc' \in {"outdated", "upToDate"}
        /\ pc' \in {"outdated", "upToDate", "finish"}
    BY <1>6 DEF CheckExpiry, ParseISO8601Time, clockVars
  <2>. QED BY <2>1 DEF MetaInv
<1>7. CASE PublishObserved
  <2>1. /\ pc = "upToDate" /\ pc' = "finish" /\ secret' = got
        /\ broker' = broker
    BY <1>7 DEF PublishObserved
  <2>2. mem'.meta = mem.meta
    BY <1>1, <1>7, SyncedCopies DEF PublishObserved
  <2>3. mem.meta = got /\ broker \in {got, NoDates}
    BY <2>1 DEF FlowInv, Looks
  <2>. QED BY <2>1, <2>2, <2>3 DEF MetaInv
<1>8. CASE MarkCreatePending
  <2>1. mem'.meta = mem.meta /\ obj'.meta = obj.meta
    BY <1>1, <1>8, CreatedCopies DEF MarkCreatePending, Created
  <2>2. pc = "absent" /\ pc' = "bind"
    BY <1>8 DEF MarkCreatePending
  <2>. QED BY <2>1, <2>2 DEF MetaInv
<1>9. CASE Bind
  <2>1. pc = "bind" /\ pc' = "annotate" /\ obj' = obj
    BY <1>9 DEF Bind
  <2>2. mem'.create = "failed" => mem'.meta = mem.meta
    BY <1>9, BoundCopies
  <2>. QED BY <2>1, <2>2 DEF MetaInv
<1>10. CASE Annotate
  <2>1. /\ pc = "annotate" /\ pc' = "finish" /\ broker' = broker
        /\ secret' = IF mem.create = "succeeded" THEN got ELSE secret
    BY <1>10 DEF Annotate
  <2>2. /\ mem'.meta = IF obj.meta = NoDates THEN mem.meta ELSE obj.meta
        /\ obj'.meta = obj.meta
    BY <1>10, AnnotatedCopies
  <2>3. CASE mem.create = "succeeded"
    <3>1. mem.meta = got /\ broker \in {got, NoDates}
      BY <2>1, <2>3 DEF FlowInv
    <3>. QED BY <2>1, <2>2, <2>3, <3>1 DEF MetaInv
  <2>4. CASE mem.create = "failed"
    BY <2>1, <2>2, <2>4 DEF MetaInv
  <2>. QED BY <2>1, <2>3, <2>4 DEF FlowInv
<1>11. CASE Rotate \/ PublishRotated
  <2>1. site.rotate /\ site' = site /\ pc' \in {"publish", "finish"}
    BY <1>11 DEF Rotate, PublishRotated, clockVars, FlowInv
  <2>. QED BY <2>1 DEF MetaInv
<1>12. CASE FinishReconcile \/ Crash
  <2>1. pc' = "idle"
    BY <1>12 DEF FinishReconcile, Crash, Return
  <2>. QED BY <2>1 DEF MetaInv
<1>. QED
  BY <1>2, <1>3, <1>4, <1>5, <1>6, <1>7, <1>8, <1>9, <1>10, <1>11, <1>12
     DEF Next

ShownBy(dates, t) == dates.expires - Life + Slack >= t

\* Dates the status does not show yet are young, and so not yet due: they will be shown by Base,
\* or, once the running reconcile will not store them, one Wait later, and
\* even then within Slack of their making.
Young ==
    /\ broker \notin {NoDates, obj.meta} =>
           /\ ShownBy(broker, Base)
           /\ pc = "annotate" => ShownBy(broker, Base + Wait)
           /\ pc = "finish" /\ mem.meta # broker
                  => ShownBy(broker, Base + Wait)
    /\ secret \notin {NoDates, obj.meta} =>
           /\ ShownBy(secret, Base)
           /\ pc = "annotate" /\ mem.create = "failed"
                  => ShownBy(secret, Base + Wait)
           /\ pc = "finish" /\ mem.meta # secret
                  => ShownBy(secret, Base + Wait)
    /\ pc = "annotate" /\ mem.create = "succeeded"
           => ShownBy(got, Base + Wait)
    /\ pc \in Looks /\ got # obj.meta => ShownBy(got, Base)
    /\ pc = "expiry" => got = obj.meta
    /\ mem.healthy # "" => mem.meta = obj.meta

ShownInv ==
    ~site.rotate /\ site.format = "both" /\ ~Interrupted => Young

\* ShownLater: what is shown by some time is shown by any earlier demand.
LEMMA ShownLater ==
    ASSUME NEW dates \in Dates, NEW t \in Int, NEW u \in Int, u <= t,
           Slack \in Int, ShownBy(dates, t)
    PROVE  ShownBy(dates, u)
<1>1. dates.expires \in Int /\ Life \in Int
  BY ConstantsAssumption DEF Dates
<1>. QED BY <1>1 DEF ShownBy
\* SiteStays: nothing changes the site.
LEMMA SiteStays == ASSUME [Next]_vars PROVE site' = site
BY DEF Next, Tick, BrokerForgets, StartReconcile, PollBindingLastOperation,
   GetBinding, CheckRenewal, CheckExpiry, PublishObserved, MarkCreatePending,
   Bind, Annotate, Rotate, PublishRotated, FinishReconcile, Crash, clockVars,
   vars

\* FaultsMove: a fault is counted.
LEMMA FaultsMove == ASSUME TypeOK, Fault PROVE faults' # faults
BY ConstantsAssumption DEF TypeOK, Fault

\* BaseInSlackThen: the same of the state a step leads to.
LEMMA BaseInSlackThen ==
    (TypeOK /\ TimeInv /\ pc # "idle")'
        => (Base + Wait <= started + Slack /\ Base \in Int)'
<1>1. TypeOK /\ TimeInv /\ pc # "idle"
          => Base + Wait <= started + Slack /\ Base \in Int
  BY BaseInSlack
<1>. QED BY <1>1, PTL

\* FreshShown: dates set now are as young as they can be.
LEMMA FreshShown ==
    ASSUME TypeOK, TimeInv, pc # "idle"
    PROVE  ShownBy(DatesOf(now), Base + Wait)
<1>1. /\ now \in Nat /\ started \in Nat /\ Life \in Nat
      /\ Base \in Int /\ Wait \in Nat /\ Slack \in Int
      /\ Base + Wait <= started + Slack
      /\ started <= now
  BY BaseInSlack, ConstantsAssumption DEF TypeOK, TimeInv
<1>2. DatesOf(now).expires = now + Life
  BY FreshDates
<1>. QED BY <1>1, <1>2 DEF ShownBy

\* Resumed: a creation once interrupted stays so.
LEMMA Resumed ==
    ASSUME TypeOK, FlowInv, [Next]_vars, ~Interrupted'
    PROVE  ~Interrupted
<1>. SUFFICES ASSUME Interrupted PROVE FALSE
  OBVIOUS
<1>1. obj.create = "pending" /\ pc \in {"idle", "finish"}
  BY DEF Interrupted, FlowInv
<1>2. pc = "finish" => mem.create = "pending"
  BY <1>1 DEF FlowInv
<1>3. CASE Tick \/ BrokerForgets \/ StartReconcile \/ UNCHANGED vars
  <2>1. obj' = obj /\ pc' \notin {"bind", "annotate"}
    BY <1>1, <1>3
       DEF Tick, BrokerForgets, StartReconcile, vars
  <2>. QED BY <1>1, <2>1 DEF Interrupted
<1>4. CASE FinishReconcile \/ Crash
  <2>1. obj'.create = "pending" /\ pc' = "idle"
    BY <1>1, <1>2, <1>4 DEF FinishReconcile, Crash, Return
  <2>. QED BY <2>1 DEF Interrupted
<1>. QED
  BY <1>1, <1>3, <1>4 DEF Next, PollBindingLastOperation, GetBinding,
     CheckRenewal, CheckExpiry, PublishObserved, MarkCreatePending, Bind,
     Annotate, Rotate, PublishRotated

\* DueIsShown: dates the status does not show yet are not due.
LEMMA DueIsShown ==
    ASSUME TypeOK, TimeInv, FlowInv, pc = "renewal", Due(mem.meta),
           Life - Window >= Slack
    PROVE  ~ShownBy(got, Base)
<1>1. got # NoDates /\ mem.meta = got /\ Paired(got)
  BY DEF FlowInv, Looks
<1>2. /\ got.renew \in Int /\ now \in Int /\ Life \in Nat /\ Window \in Nat
  BY ConstantsAssumption DEF TypeOK, Dates
<1>3. now <= Base /\ Base \in Int /\ Slack \in Int
  BY BaseInSlack
<1>4. got.expires = got.renew + Window /\ got.renew < now
  BY <1>1 DEF Paired, Due
<1>. QED BY <1>2, <1>3, <1>4 DEF ShownBy, Base

\* ShownHolds: one step for each action.
LEMMA ShownHolds ==
    ASSUME TypeOK, TypeOK', TimeInv, TimeInv', FlowInv, FlowInv', MetaInv,
           MetaInv', ShownInv, Life - Window >= Slack, [Next]_vars
    PROVE  ShownInv'
<1>. SUFFICES ASSUME ~site'.rotate, site'.format = "both", ~Interrupted'
              PROVE  Young'
  BY DEF ShownInv
<1>1. CASE UNCHANGED vars
  <2>1. ~Interrupted /\ UNCHANGED <<site, pc, obj, mem, got, broker, secret>>
    BY <1>1, Resumed DEF vars
  <2>2. Base' = Base
    BY <1>1 DEF vars, Base
  <2>3. Young
    BY <2>1 DEF ShownInv
  <2>. QED BY <2>1, <2>2, <2>3 DEF Young, Looks, ShownBy
<1>. SUFFICES ASSUME Next PROVE Young'
  BY <1>1
<1>2. Young /\ ~site.rotate /\ site.format = "both"
  <2>1. site' = site
    BY SiteStays
  <2>2. ~Interrupted
    BY Resumed
  <2>. QED BY <2>1, <2>2 DEF ShownInv
<1>3. /\ Budget
      /\ Base \in Int /\ Base' \in Int /\ Wait \in Nat /\ Slack \in Int
  BY BaseMoves, BaseInSlack DEF Budget
<1>4. /\ obj \in Objects /\ mem \in Objects /\ broker \in Dates
      /\ got \in Dates /\ secret \in Dates
  BY DEF TypeOK
<1>5. ASSUME NEW dates \in Dates
      PROVE  /\ Base' <= Base /\ ShownBy(dates, Base) => ShownBy(dates, Base')
             /\ Base' <= Base /\ ShownBy(dates, Base + Wait)
                    => ShownBy(dates, Base' + Wait)
             /\ Base' <= Base + Wait /\ ShownBy(dates, Base + Wait)
                    => ShownBy(dates, Base')
             /\ Base' + Wait = Base /\ ShownBy(dates, Base)
                    => ShownBy(dates, Base' + Wait)
             /\ ShownBy(dates, Base + Wait) => ShownBy(dates, Base)
  <2>1. dates.expires \in Int /\ Life \in Int
    BY <1>5, ConstantsAssumption DEF Dates
  <2>. QED BY <1>3, <2>1 DEF ShownBy, Base
<1>17. /\ mem.healthy # "" => pc \in {"upToDate", "outdated", "publish",
                                     "finish"}
       /\ mem'.healthy # "" => pc' \in {"upToDate", "outdated", "publish",
                                       "finish"}
  BY DEF FlowInv
<1>6. CASE Tick \/ BrokerForgets \/ CheckRenewal
  <2>1. /\ UNCHANGED <<obj, mem, got, secret>>
        /\ broker' \in {broker, NoDates}
        /\ pc' = pc \/ (pc \in Looks /\ pc' \in Looks)
        /\ pc = "idle" <=> pc' = "idle"
        /\ faults' = faults
    BY <1>6 DEF Tick, BrokerForgets, CheckRenewal, clockVars, Looks
  <2>2. Base' <= Base
    BY <1>3, <2>1, FaultsMove DEF Budget, Base
  <2>3. pc' = "expiry" => got = obj.meta
    <3>1. CASE pc' = pc
      BY <1>2, <3>1 DEF Young
    <3>2. CASE pc' # pc /\ pc' = "expiry"
      <4>1. pc = "renewal" /\ Due(mem.meta)
        BY <1>6, <3>2 DEF Tick, BrokerForgets, CheckRenewal
      <4>2. ~ShownBy(got, Base)
        BY <4>1, DueIsShown
      <4>. QED BY <1>2, <4>1, <4>2 DEF Young, Looks
    <3>. QED BY <3>1, <3>2
  <2>. QED BY <1>2, <1>4, <1>5, <2>1, <2>2, <2>3 DEF Young, Looks
<1>7. CASE StartReconcile
  <2>1. /\ UNCHANGED <<obj, got, broker, secret>>
        /\ pc = "idle" /\ pc' \in {"observe", "finish"}
        /\ pc' = "finish" => obj.create = "pending"
    BY <1>7 DEF StartReconcile
  <2>2. pc' = "observe"
    BY <2>1 DEF Interrupted
  <2>3. Base' <= Base
    BY <1>3, <2>1 DEF Budget, Base
  <2>. QED BY <1>2, <1>4, <1>5, <1>17, <2>1, <2>2, <2>3 DEF Young, Looks
<1>8. CASE PollBindingLastOperation
  BY <1>2, <1>8 DEF PollBindingLastOperation, FlowInv
<1>9. CASE GetBinding
  <2>1. /\ UNCHANGED <<obj, broker, secret>>
        /\ pc = "observe" /\ pc' # "idle"
    BY <1>9 DEF GetBinding
  <2>2. CASE pc' = "absent" /\ UNCHANGED <<mem, got, faults>>
    <3>1. Base' <= Base
      BY <1>3, <2>1, <2>2, FaultsMove DEF Budget, Base
    <3>. QED BY <1>2, <1>4, <1>5, <1>17, <2>1, <2>2, <3>1 DEF Young, Looks
  <2>3. CASE /\ broker # NoDates
             /\ got' = broker
             /\ pc' = "renewal"
             /\ UNCHANGED faults
    <3>1. Base' <= Base
      BY <1>3, <2>1, <2>3, FaultsMove DEF Budget, Base
    <3>. QED BY <1>2, <1>4, <1>5, <1>17, <2>1, <2>3, <3>1 DEF Young, Looks
  <2>4. CASE Fault /\ pc' = "finish" /\ mem' = Erred(mem) /\ UNCHANGED got
    <3>1. Base' + Wait = Base
      BY <1>3, <2>1, <2>4, FaultsMove DEF Budget, Base
    <3>2. Base' <= Base
      BY <1>3, <3>1 DEF Base
    <3>3. mem'.healthy = ""
      BY <1>4, <1>17, <2>1, <2>4, ErredCopies
    <3>. QED BY <1>2, <1>4, <1>5, <2>1, <2>4, <3>1, <3>2, <3>3 DEF Young, Looks
  <2>. QED BY <1>2, <1>9, <2>2, <2>3, <2>4 DEF GetBinding
<1>10. CASE CheckExpiry
  <2>1. /\ UNCHANGED <<obj, got, broker, secret>>
        /\ pc \in Looks /\ pc' \in Looks /\ pc' # "idle" /\ pc # "idle"
        /\ faults' = faults
    BY <1>2, <1>10 DEF CheckExpiry, ParseISO8601Time, clockVars, Looks
  <2>2. Base' <= Base
    BY <1>3, <2>1, FaultsMove DEF Budget, Base
  <2>3. pc = "expiry" /\ pc' \in {"outdated", "upToDate"}
        /\ mem' = MarkBinding(mem)
    BY <1>2, <1>10 DEF CheckExpiry, ParseISO8601Time
  <2>4. mem'.meta = got
    <3>1. mem'.meta = mem.meta
      BY <1>4, <2>3, MarkedHealth
    <3>. QED BY <2>1, <3>1 DEF FlowInv, Looks
  <2>. QED BY <1>2, <1>4, <1>5, <2>1, <2>2, <2>3, <2>4 DEF Young, Looks
<1>11. CASE PublishObserved
  <2>1. /\ UNCHANGED <<obj, got, broker>> /\ secret' = got
        /\ pc = "upToDate" /\ pc' = "finish" /\ faults' = faults
    BY <1>11 DEF PublishObserved, clockVars
  <2>2. Base' <= Base
    BY <1>3, <2>1, FaultsMove DEF Budget, Base
  <2>3. mem'.meta = mem.meta /\ mem'.healthy = mem.healthy
    BY <1>4, <1>11, SyncedCopies DEF PublishObserved
  <2>4. mem.meta = got /\ broker \in {got, NoDates}
    BY <2>1 DEF FlowInv, Looks
  <2>. QED BY <1>2, <1>4, <1>5, <2>1, <2>2, <2>3, <2>4 DEF Young, Looks
<1>12. CASE MarkCreatePending
  <2>1. /\ UNCHANGED <<got, broker, secret>>
        /\ pc = "absent" /\ pc' = "bind" /\ faults' = faults
    BY <1>12 DEF MarkCreatePending, clockVars
  <2>2. Base' <= Base
    BY <1>3, <2>1, FaultsMove DEF Budget, Base
  <2>3. obj'.meta = obj.meta
    BY <1>4, <1>12, CreatedCopies DEF MarkCreatePending, Created
  <2>. QED BY <1>2, <1>4, <1>5, <1>17, <2>1, <2>2, <2>3 DEF Young, Looks
<1>13. CASE Bind
  <2>1. /\ UNCHANGED <<now, started, obj, secret>>
        /\ pc = "bind" /\ pc' = "annotate" /\ broker = NoDates
    BY <1>13 DEF Bind, clockVars, FlowInv
  <2>2. ShownBy(DatesOf(now), Base' + Wait)
    <3>1. /\ now \in Nat /\ started' \in Nat /\ Life \in Nat
          /\ Base' + Wait <= started' + Slack
          /\ started' <= now
      BY <2>1, BaseInSlackThen, ConstantsAssumption DEF TypeOK, TimeInv, Base
    <3>. QED BY <1>3, <3>1, FreshDates DEF ShownBy, Base
  <2>3. ShownBy(DatesOf(now), Base')
    <3>1. DatesOf(now).expires \in Int /\ Life \in Int
      BY FreshDates, ConstantsAssumption DEF Dates
    <3>. QED BY <1>3, <2>2, <3>1 DEF ShownBy, Base
  <2>4. broker' \in {NoDates, DatesOf(now)}
    BY <1>13, <2>1, BoundCopies
  <2>5. CASE mem'.create = "succeeded"
    <3>1. got' = DatesOf(now) /\ faults' = faults
      BY <1>13, <2>5, BoundCopies
    <3>2. Base' <= Base
      BY <1>3, <2>1, <3>1, FaultsMove DEF Budget, Base
    <3>. QED
      BY <1>2, <1>4, <1>5, <1>17, <2>1, <2>2, <2>3, <2>4, <2>5, <3>1,
         <3>2 DEF Young, Looks
  <2>6. CASE mem'.create = "failed"
    <3>1. Fault
      BY <1>13, <2>6, BoundCopies
    <3>2. Base' + Wait = Base
      BY <1>3, <2>1, <3>1, FaultsMove DEF Budget, Base
    <3>3. Base' <= Base
      BY <1>3, <3>2 DEF Base
    <3>. QED
      BY <1>2, <1>4, <1>5, <1>17, <2>1, <2>2, <2>3, <2>4, <2>6, <3>2,
         <3>3 DEF Young, Looks
  <2>. QED BY <1>13, <2>5, <2>6, BoundCopies
<1>14. CASE Annotate
  <2>1. /\ UNCHANGED <<got, broker>>
        /\ pc = "annotate" /\ pc' = "finish" /\ faults' = faults
        /\ secret' = IF mem.create = "succeeded" THEN got ELSE secret
    BY <1>14 DEF Annotate, clockVars
  <2>2. Base' <= Base
    BY <1>3, <2>1, FaultsMove DEF Budget, Base
  <2>3. obj'.meta = obj.meta
    BY <1>14, AnnotatedCopies
  <2>4. mem.create \in {"succeeded", "failed"}
    BY <2>1 DEF FlowInv
  <2>5. mem'.healthy = ""
    BY <1>14, <1>17, <2>1, AnnotatedCopies
  <2>. QED BY <2>5, <1>2, <1>4, <1>5, <2>1, <2>2, <2>3, <2>4 DEF Young, Looks
<1>15. CASE Rotate \/ PublishRotated
  BY <1>2, <1>15 DEF Rotate, PublishRotated, FlowInv
<1>16. CASE FinishReconcile \/ Crash
  <2>1. /\ UNCHANGED <<broker, secret>>
        /\ pc # "idle" /\ pc' = "idle"
    BY <1>16 DEF FinishReconcile, Crash, Return
  <2>2. CASE Fault /\ obj' = obj
    <3>1. Base' <= Base
      BY <1>3, <2>1, <2>2 DEF Budget, Base
    <3>. QED BY <1>2, <1>4, <1>5, <1>17, <2>1, <2>2, <3>1 DEF Young, Looks
  <2>4. CASE pc = "finish" /\ obj' = obj /\ mem.healthy # ""
    <3>1. Base' <= Base + Wait
      BY <1>3, <2>1 DEF Budget, Base
    <3>2. mem.meta = obj.meta
      BY <1>2, <2>4 DEF Young
    <3>. QED BY <1>2, <1>4, <1>5, <1>17, <2>1, <2>4, <3>1, <3>2 DEF Young, Looks
  <2>3. CASE pc = "finish" /\ obj' = mem
    <3>1. Base' <= Base + Wait
      BY <1>3, <2>1 DEF Budget, Base
    <3>2. \/ mem.meta = obj.meta
          \/ mem.meta = secret /\ broker \in {secret, NoDates}
      BY <1>2, <2>3 DEF MetaInv
    <3>. QED BY <1>2, <1>4, <1>5, <1>17, <2>1, <2>3, <3>1, <3>2 DEF Young, Looks
  <2>. QED BY <1>16, <2>2, <2>3, <2>4 DEF FinishReconcile, Crash, Storable
<1>. QED
  BY <1>6, <1>7, <1>8, <1>9, <1>10, <1>11, <1>12, <1>13, <1>14, <1>15, <1>16
     DEF Next
\* The invariant the properties share.
Flows == TypeOK /\ TimeInv /\ FlowInv

\* FlowsBegin: it holds at the beginning.
LEMMA FlowsBegin == ASSUME Init PROVE Flows
<1>1. TypeOK
  BY TypesBegin
<1>2. TimeInv
  BY DEF Init, TimeInv
<1>3. FlowInv
  BY BlankObject DEF Init, FlowInv, Paired, Looks
<1>. QED BY <1>1, <1>2, <1>3 DEF Flows

\* FlowsHold: and every step keeps it.
LEMMA FlowsHold == ASSUME Flows, [Next]_vars PROVE Flows'
<1>1. TypeOK'
  BY TypesHold DEF Flows
<1>2. TimeInv'
  BY <1>1, TimeHolds DEF Flows
<1>3. FlowInv'
  BY <1>1, FlowHolds DEF Flows
<1>. QED BY <1>1, <1>2, <1>3 DEF Flows

\* ShowsDates: DatesShown, if credentials are not due for renewal before
\* Slack: the status comes to show the dates of the published ones within it,
\* before the statuses that carry a warning are refused.
THEOREM ShowsDates ==
    ASSUME Life - Window >= Slack
    PROVE  Spec => []DatesShown
<1>. DEFINE SInv == Flows /\ MetaInv /\ ShownInv
<1>1. Init => SInv
  <2>. SUFFICES ASSUME Init PROVE MetaInv /\ ShownInv
    <3>1. Init => Flows
      BY FlowsBegin
    <3>. QED BY <3>1
  <2>. QED BY BlankObject DEF Init, MetaInv, ShownInv, Young, Looks
<1>2. SInv /\ [Next]_vars => SInv'
  <2>. SUFFICES ASSUME SInv, [Next]_vars PROVE SInv'
    OBVIOUS
  <2>1. Flows'
    BY FlowsHold
  <2>2. MetaInv'
    BY <2>1, MetaHolds DEF Flows
  <2>3. ShownInv'
    BY <2>1, <2>2, ShownHolds DEF Flows
  <2>. QED BY <2>1, <2>2, <2>3
<1>3. SInv => DatesShown
  <2>. SUFFICES ASSUME SInv, ~site.rotate, site.format = "both",
                       secret # NoDates, ~Interrupted, obj.meta # secret
                PROVE  ~(now > secret.expires - Life + Slack)
    BY DEF DatesShown
  <2>1. ShownBy(secret, Base)
    BY DEF ShownInv, Young
  <2>2. now <= Base /\ Base \in Int /\ Slack \in Int
    BY BaseInSlack DEF Flows
  <2>3. now \in Int /\ secret.expires \in Int /\ Life \in Int
    BY ConstantsAssumption DEF Flows, TypeOK, Dates
  <2>. QED BY <2>1, <2>2, <2>3 DEF ShownBy, Base
<1>. QED BY <1>1, <1>2, <1>3, PTL DEF Spec
-----------------------------------------------------------------------------
(* The renewal *)

LastsTo(dates, t) == dates.expires >= t

\* NumbersTyped: a Wait and Slack are numbers, and the life of credentials is
\* longer than any bound on their window.
LEMMA NumbersTyped ==
    /\ Wait \in Nat
    /\ Slack \in Int
    /\ Window >= Slack => Life >= Slack
<1>1. /\ Cost(MaxFaults) \in Nat
      /\ Cost(MaxFaults + 1) = Cost(MaxFaults) + Wait
      /\ Wait \in Nat
  BY CostStep, ConstantsAssumption
<1>2. Slack = Cost(MaxFaults + 1) + Latency
  BY DEF Slack, Cost, Wait
<1>3. Latency \in Nat /\ Window \in Nat /\ Life \in Nat /\ Window < Life
  BY ConstantsAssumption
<1>. QED BY <1>1, <1>2, <1>3

\* LastsMoves: what Budget makes of a bound by Base.
LEMMA LastsMoves ==
    ASSUME TypeOK, Budget, Wait \in Nat, NEW dates \in Dates
    PROVE  /\ Base' <= Base /\ LastsTo(dates, Base) => LastsTo(dates, Base')
           /\ Base' <= Base /\ LastsTo(dates, Base + Wait)
                  => LastsTo(dates, Base' + Wait)
           /\ Base' <= Base + Wait /\ LastsTo(dates, Base + Wait)
                  => LastsTo(dates, Base')
           /\ Base' + Wait = Base /\ LastsTo(dates, Base)
                  => LastsTo(dates, Base' + Wait)
           /\ LastsTo(dates, Base + Wait) => LastsTo(dates, Base)
<1>1. dates.expires \in Int
  BY ConstantsAssumption DEF Dates
<1>2. Base \in Int /\ Base' \in Int
  BY DEF Budget
<1>. QED BY <1>1, <1>2 DEF LastsTo, Base

\* NotDueYet: dates that are not due when they are looked at have the whole
\* window left.
LEMMA NotDueYet ==
    ASSUME TypeOK, TimeInv, FlowInv, pc = "renewal", ~Due(mem.meta)
    PROVE  /\ got.renew \in Int /\ started \in Int /\ Window \in Int
           /\ got.renew >= started
           /\ got.expires = got.renew + Window
           /\ ~(got.expires < now)
<1>1. got # NoDates /\ mem.meta = got /\ Paired(got)
  BY DEF FlowInv, Looks
<1>2. /\ got.renew \in Int /\ now \in Int /\ started \in Int
      /\ Window \in Nat /\ started <= now
  BY ConstantsAssumption DEF TypeOK, TimeInv, Dates
<1>. QED BY <1>1, <1>2 DEF Paired, Due

\* NotDueLasts: if the window is as wide as Slack, they last to the end of the
\* next reconcile that may be counted on.
LEMMA NotDueLasts ==
    ASSUME TypeOK, TimeInv, FlowInv, pc = "renewal", ~Due(mem.meta),
           Window >= Slack
    PROVE  LastsTo(got, Base + Wait)
<1>1. /\ got.renew \in Int /\ started \in Int /\ Window \in Int
      /\ got.renew >= started
      /\ got.expires = got.renew + Window
  BY NotDueYet
<1>2. /\ Base \in Int /\ Wait \in Nat /\ Slack \in Int
      /\ Base + Wait <= started + Slack
  BY BaseInSlack
<1>. QED BY <1>1, <1>2 DEF LastsTo, Base

\* The published credentials last to t, and to t + Wait if a step may find
\* that the broker has dropped the binding it is to rotate: then the running
\* reconcile fails without a fault.
Survives(t) ==
    \/ LastsTo(secret, t + Wait)
    \/ /\ LastsTo(secret, t)
       /\ broker = NoDates => pc \notin Looks
       /\ broker # NoDates => LastsTo(broker, t)

Renewed ==
    /\ secret # NoDates /\ ~Interrupted =>
           /\ Survives(Base)
           /\ pc = "finish" \/ (pc = "annotate" /\ mem.create = "failed")
                  => Survives(Base + Wait)
    /\ pc = "upToDate" => broker = got /\ LastsTo(got, Base + Wait)
    /\ pc = "publish" \/ (pc = "annotate" /\ mem.create = "succeeded")
           => LastsTo(got, Base + Wait + Wait)

RenewInv ==
    site.rotate /\ site.format = "both" /\ ~site.async /\ ~site.refuses
        => Renewed

\* FreshLastsLong: with a life that leaves a Wait more than Slack, dates set
\* now last a Wait more.
LEMMA FreshLastsLong ==
    ASSUME TypeOK, TypeOK', TimeInv', pc' # "idle", now' = now,
           Life >= Slack + Wait
    PROVE  LastsTo(DatesOf(now), Base' + Wait + Wait)
<1>1. now \in Nat /\ started' \in Nat /\ Life \in Nat
  BY ConstantsAssumption DEF TypeOK
<1>2. started' <= now
  BY DEF TimeInv
<1>3. Base' + Wait <= started' + Slack /\ Base' \in Int
  BY BaseInSlackThen
<1>4. Wait \in Nat /\ Slack \in Int
  BY NumbersTyped
<1>. QED BY <1>1, <1>2, <1>3, <1>4, FreshDates DEF LastsTo, Base

\* RenewHolds: one step for each action.
LEMMA RenewHolds ==
    ASSUME TypeOK, TypeOK', TimeInv, TimeInv', FlowInv, FlowInv', RenewInv,
           Window >= Slack, Life >= Slack + Wait, [Next]_vars
    PROVE  RenewInv'
<1>. SUFFICES ASSUME site'.rotate, site'.format = "both", ~site'.async,
                     ~site'.refuses
              PROVE  Renewed'
  BY DEF RenewInv
<1>1. /\ Renewed
      /\ site.rotate /\ site.format = "both" /\ ~site.async /\ ~site.refuses
  BY SiteStays DEF RenewInv
<1>2. CASE UNCHANGED vars
  <2>1. UNCHANGED <<site, pc, obj, mem, got, broker, secret>>
    BY <1>2 DEF vars
  <2>2. Base' = Base
    BY <1>2 DEF vars, Base
  <2>. QED
    BY <1>1, <2>1, <2>2 DEF Renewed, Survives, Looks, LastsTo, Interrupted
<1>. SUFFICES ASSUME Next PROVE Renewed'
  BY <1>2
<1>3. /\ Budget
      /\ Base \in Int /\ Base' \in Int /\ Wait \in Nat /\ now <= Base
  BY BaseMoves, BaseInSlack DEF Budget
<1>4. /\ obj \in Objects /\ mem \in Objects /\ broker \in Dates
      /\ got \in Dates /\ secret \in Dates
  BY DEF TypeOK
<1>5. ASSUME NEW dates \in Dates
      PROVE  /\ Base' <= Base =>
                    /\ LastsTo(dates, Base) => LastsTo(dates, Base')
                    /\ LastsTo(dates, Base + Wait)
                           => LastsTo(dates, Base' + Wait)
                    /\ LastsTo(dates, Base + Wait + Wait)
                           => LastsTo(dates, Base' + Wait + Wait)
             /\ Base' <= Base + Wait =>
                    /\ LastsTo(dates, Base + Wait) => LastsTo(dates, Base')
                    /\ LastsTo(dates, Base + Wait + Wait)
                           => LastsTo(dates, Base' + Wait)
             /\ Base' + Wait = Base =>
                    /\ Base' <= Base
                    /\ LastsTo(dates, Base) => LastsTo(dates, Base' + Wait)
                    /\ LastsTo(dates, Base + Wait)
                           => LastsTo(dates, Base' + Wait + Wait)
  <2>1. dates.expires \in Int
    BY <1>5, ConstantsAssumption DEF Dates
  <2>. QED BY <1>3, <2>1 DEF LastsTo, Base
<1>6. ASSUME NEW dates \in Dates
      PROVE  /\ LastsTo(dates, Base + Wait) => LastsTo(dates, Base)
             /\ LastsTo(dates, Base + Wait + Wait)
                    => LastsTo(dates, Base + Wait)
             /\ LastsTo(dates, Base' + Wait) => LastsTo(dates, Base')
             /\ LastsTo(dates, Base' + Wait + Wait)
                    => LastsTo(dates, Base' + Wait)
             /\ LastsTo(dates, Base) => ~(dates.expires < now)
  <2>1. dates.expires \in Int /\ now \in Int
    BY <1>6, ConstantsAssumption DEF Dates, TypeOK
  <2>. QED BY <1>3, <2>1 DEF LastsTo, Base
<1>7. ~Interrupted' => ~Interrupted
  BY Resumed
<1>8. CASE Tick
  <2>1. /\ UNCHANGED <<obj, mem, got, secret, pc, broker, faults>>
    BY <1>8 DEF Tick
  <2>2. Base' <= Base
    BY <1>3, <2>1, FaultsMove DEF Budget, Base
  <2>. QED
    BY <1>1, <1>4, <1>5, <1>7, <2>1, <2>2 DEF Renewed, Survives, Looks
<1>9. CASE BrokerForgets
  <2>1. /\ UNCHANGED <<obj, mem, got, secret, pc, faults>>
        /\ broker # NoDates /\ broker' = NoDates /\ broker.expires < now
    BY <1>9 DEF BrokerForgets, clockVars
  <2>2. Base' <= Base
    BY <1>3, <2>1, FaultsMove DEF Budget, Base
  <2>3. ~LastsTo(broker, Base) /\ ~LastsTo(broker, Base + Wait)
    BY <1>4, <1>6, <2>1
  <2>. QED
    BY <1>1, <1>4, <1>5, <1>6, <1>7, <2>1, <2>2, <2>3
       DEF Renewed, Survives, Looks
<1>10. CASE StartReconcile
  <2>1. /\ UNCHANGED <<obj, got, broker, secret>>
        /\ pc = "idle" /\ pc' \in {"observe", "finish"}
        /\ pc' = "finish" => Interrupted'
    BY <1>10 DEF StartReconcile, Interrupted
  <2>2. Base' <= Base
    BY <1>3, <2>1 DEF Budget, Base
  <2>. QED
    BY <1>1, <1>4, <1>5, <1>7, <2>1, <2>2 DEF Renewed, Survives, Looks
<1>11. CASE PollBindingLastOperation
  BY <1>1, <1>11 DEF PollBindingLastOperation, FlowInv
<1>12. CASE GetBinding
  <2>1. /\ UNCHANGED <<obj, broker, secret>>
        /\ pc = "observe" /\ pc' # "idle"
    BY <1>12 DEF GetBinding
  <2>2. CASE /\ pc' = "absent" \/ (broker # NoDates /\ pc' = "renewal")
             /\ UNCHANGED faults
    <3>1. Base' <= Base
      BY <1>3, <2>1, <2>2, FaultsMove DEF Budget, Base
    <3>. QED
      BY <1>1, <1>4, <1>5, <1>7, <2>1, <2>2, <3>1
         DEF Renewed, Survives, Looks
  <2>3. CASE Fault /\ pc' = "finish"
    <3>1. Base' + Wait = Base
      BY <1>3, <2>1, <2>3, FaultsMove DEF Budget, Base
    <3>. QED
      BY <1>1, <1>4, <1>5, <1>6, <1>7, <2>1, <2>3, <3>1
         DEF Renewed, Survives, Looks
  <2>. QED BY <1>1, <1>12, <2>2, <2>3 DEF GetBinding
<1>13. CASE CheckRenewal
  <2>1. /\ UNCHANGED <<obj, mem, got, broker, secret>>
        /\ pc = "renewal" /\ pc' \in {"expiry", "upToDate"}
        /\ pc' = "upToDate" => ~Due(mem.meta)
        /\ faults' = faults
    BY <1>13 DEF CheckRenewal, clockVars
  <2>2. Base' <= Base
    BY <1>3, <2>1, FaultsMove DEF Budget, Base
  <2>3. pc' = "upToDate" => LastsTo(got, Base + Wait)
    BY <2>1, NotDueLasts
  <2>4. pc' = "upToDate" => broker = got
    BY <2>1, NotDueYet DEF FlowInv, Looks
  <2>. QED
    BY <1>1, <1>4, <1>5, <1>7, <2>1, <2>2, <2>3, <2>4
       DEF Renewed, Survives, Looks
<1>14. CASE CheckExpiry
  <2>1. /\ UNCHANGED <<obj, got, broker, secret>>
        /\ pc = "expiry" /\ pc' = "outdated" /\ faults' = faults
    BY <1>1, <1>14 DEF CheckExpiry, ParseISO8601Time, clockVars
  <2>2. Base' <= Base
    BY <1>3, <2>1, FaultsMove DEF Budget, Base
  <2>. QED
    BY <1>1, <1>4, <1>5, <1>7, <2>1, <2>2 DEF Renewed, Survives, Looks
<1>15. CASE PublishObserved
  <2>1. /\ UNCHANGED <<obj, got, broker>> /\ secret' = got
        /\ pc = "upToDate" /\ pc' = "finish" /\ faults' = faults
    BY <1>15 DEF PublishObserved, clockVars
  <2>2. Base' <= Base
    BY <1>3, <2>1, FaultsMove DEF Budget, Base
  <2>3. broker = got /\ LastsTo(got, Base + Wait)
    BY <1>1, <2>1 DEF Renewed
  <2>4. broker # NoDates
    BY <2>1, <2>3 DEF FlowInv, Looks
  <2>. QED
    BY <1>4, <1>5, <1>6, <2>1, <2>2, <2>3, <2>4 DEF Renewed, Survives, Looks
<1>16. CASE MarkCreatePending
  <2>1. /\ UNCHANGED <<got, broker, secret>>
        /\ pc = "absent" /\ pc' = "bind" /\ faults' = faults
    BY <1>16 DEF MarkCreatePending, clockVars
  <2>2. Base' <= Base
    BY <1>3, <2>1, FaultsMove DEF Budget, Base
  <2>. QED
    BY <1>1, <1>4, <1>5, <1>7, <2>1, <2>2 DEF Renewed, Survives, Looks
<1>17. CASE Bind
  <2>1. /\ UNCHANGED <<now, started, obj, secret>>
        /\ pc = "bind" /\ pc' = "annotate" /\ broker = NoDates
    BY <1>17 DEF Bind, clockVars, FlowInv
  <2>2. LastsTo(DatesOf(now), Base' + Wait + Wait)
    BY <2>1, FreshLastsLong
  <2>3. DatesOf(now) \in Dates /\ broker' \in {NoDates, DatesOf(now)}
    BY <1>17, <2>1, BoundCopies, FreshDates
  <2>4. CASE mem'.create = "succeeded"
    <3>1. got' = DatesOf(now) /\ faults' = faults
      BY <1>17, <2>4, BoundCopies
    <3>2. Base' <= Base
      BY <1>3, <2>1, <3>1, FaultsMove DEF Budget, Base
    <3>. QED
      BY <1>1, <1>4, <1>5, <1>6, <1>7, <2>1, <2>2, <2>3, <2>4, <3>1, <3>2
         DEF Renewed, Survives, Looks
  <2>5. CASE mem'.create = "failed"
    <3>1. Fault
      BY <1>17, <2>5, BoundCopies
    <3>2. Base' + Wait = Base
      BY <1>3, <2>1, <3>1, FaultsMove DEF Budget, Base
    <3>. QED
      BY <1>1, <1>4, <1>5, <1>6, <1>7, <2>1, <2>2, <2>3, <2>5, <3>2
         DEF Renewed, Survives, Looks
  <2>. QED BY <1>17, <2>4, <2>5, BoundCopies
<1>18. CASE Annotate
  <2>1. /\ UNCHANGED <<got, broker>>
        /\ pc = "annotate" /\ pc' = "finish" /\ faults' = faults
        /\ secret' = IF mem.create = "succeeded" THEN got ELSE secret
    BY <1>18 DEF Annotate, clockVars
  <2>2. Base' <= Base
    BY <1>3, <2>1, FaultsMove DEF Budget, Base
  <2>3. mem.create \in {"succeeded", "failed"}
    BY <2>1 DEF FlowInv
  <2>. QED
    BY <1>1, <1>4, <1>5, <1>6, <1>7, <2>1, <2>2, <2>3
       DEF Renewed, Survives, Looks
<1>19. CASE Rotate
  <2>1. /\ UNCHANGED <<now, started, obj, broker, secret>>
        /\ pc = "outdated"
    BY <1>19 DEF Rotate, clockVars
  <2>2. CASE got' = DatesOf(now) /\ pc' = "publish" /\ UNCHANGED faults
    <3>1. LastsTo(DatesOf(now), Base' + Wait + Wait)
      BY <2>1, <2>2, FreshLastsLong
    <3>2. Base' <= Base
      BY <1>3, <2>1, <2>2, FaultsMove DEF Budget, Base
    <3>. QED
      BY <1>1, <1>4, <1>5, <1>7, <2>1, <2>2, <3>1, <3>2
         DEF Renewed, Survives, Looks
  <2>3. CASE broker = NoDates /\ pc' = "finish" /\ UNCHANGED faults
    <3>1. Base' <= Base
      BY <1>3, <2>1, <2>3, FaultsMove DEF Budget, Base
    <3>. QED
      BY <1>1, <1>4, <1>5, <1>6, <1>7, <2>1, <2>3, <3>1
         DEF Renewed, Survives, Looks
  <2>4. CASE Fault /\ pc' = "finish"
    <3>1. Base' + Wait = Base
      BY <1>3, <2>1, <2>4, FaultsMove DEF Budget, Base
    <3>. QED
      BY <1>1, <1>4, <1>5, <1>6, <1>7, <2>1, <2>4, <3>1
         DEF Renewed, Survives, Looks
  <2>. QED BY <1>1, <1>19, <2>2, <2>3, <2>4 DEF Rotate, Refused
<1>20. CASE PublishRotated
  <2>1. /\ UNCHANGED <<obj, got, broker>> /\ secret' = got
        /\ pc = "publish" /\ pc' = "finish" /\ faults' = faults
    BY <1>20 DEF PublishRotated, clockVars
  <2>2. Base' <= Base
    BY <1>3, <2>1, FaultsMove DEF Budget, Base
  <2>. QED
    BY <1>1, <1>4, <1>5, <1>6, <2>1, <2>2 DEF Renewed, Survives, Looks
<1>21. CASE FinishReconcile \/ Crash
  <2>1. /\ UNCHANGED <<broker, secret>>
        /\ pc # "idle" /\ pc' = "idle"
    BY <1>21 DEF FinishReconcile, Crash, Return
  <2>2. CASE Fault
    <3>1. Base' <= Base
      BY <1>3, <2>1, <2>2 DEF Budget, Base
    <3>. QED
      BY <1>1, <1>4, <1>5, <1>7, <2>1, <2>2, <3>1
         DEF Renewed, Survives, Looks
  <2>3. CASE pc = "finish"
    <3>1. Base' <= Base + Wait
      BY <1>3, <2>1 DEF Budget, Base
    <3>. QED
      BY <1>1, <1>4, <1>5, <1>7, <2>1, <2>3, <3>1
         DEF Renewed, Survives, Looks
  <2>. QED BY <1>21, <2>2, <2>3 DEF FinishReconcile, Crash
<1>. QED
  BY <1>8, <1>9, <1>10, <1>11, <1>12, <1>13, <1>14, <1>15, <1>16, <1>17,
     <1>18, <1>19, <1>20, <1>21 DEF Next

\* NeverExpires: NeverExpired, if the window is as wide as Slack and the
\* credentials live a Wait longer: the broker may drop the binding just before
\* it is rotated, and one reconcile then fails that met no fault.
THEOREM NeverExpires ==
    ASSUME Window >= Slack, Life >= Slack + Wait
    PROVE  Spec => []NeverExpired
<1>. DEFINE RInv == Flows /\ RenewInv
<1>1. Init => RInv
  <2>. SUFFICES ASSUME Init PROVE RenewInv
    BY FlowsBegin
  <2>. QED BY DEF Init, RenewInv, Renewed, Looks
<1>2. RInv /\ [Next]_vars => RInv'
  <2>. SUFFICES ASSUME RInv, [Next]_vars PROVE RInv'
    OBVIOUS
  <2>1. Flows'
    BY FlowsHold
  <2>2. RenewInv'
    BY <2>1, RenewHolds DEF Flows
  <2>. QED BY <2>1, <2>2
<1>3. RInv => NeverExpired
  <2>. SUFFICES ASSUME RInv, site.rotate, site.format = "both", ~site.async,
                       ~site.refuses, secret # NoDates, ~Interrupted
                PROVE  now <= secret.expires
    BY DEF NeverExpired
  <2>1. LastsTo(secret, Base) \/ LastsTo(secret, Base + Wait)
    BY DEF RenewInv, Renewed, Survives
  <2>2. now <= Base /\ Base \in Int /\ Wait \in Nat
    BY BaseInSlack DEF Flows
  <2>3. now \in Int /\ secret.expires \in Int
    BY ConstantsAssumption DEF Flows, TypeOK, Dates
  <2>. QED BY <2>1, <2>2, <2>3 DEF LastsTo, Base
<1>. QED BY <1>1, <1>2, <1>3, PTL DEF Spec
-----------------------------------------------------------------------------
(* The report *)

Reports(o) == o.synced = "no"

\* What these dates call for is on the object by t, if it is there within
\* Slack of their renewal date.
NotedBy(dates, t) == dates.renew + Slack >= t

\* While the object reports nothing, the binding and the published
\* credentials are not due for long: Slack reaches to Base, and if the running
\* reconcile will not report anything either, one Wait further.
Noted ==
    /\ secret # NoDates =>
           /\ ~Reports(obj) => NotedBy(secret, Base)
           /\ pc = "finish" /\ ~Reports(mem) => NotedBy(secret, Base + Wait)
    /\ broker # NoDates =>
           /\ ~Reports(obj) => NotedBy(broker, Base)
           /\ pc = "finish" /\ ~Reports(mem) => NotedBy(broker, Base + Wait)
           /\ pc = "annotate" => NotedBy(broker, Base + Wait)
    /\ pc \in Looks /\ ~Reports(obj) => NotedBy(got, Base)
    /\ pc = "upToDate" => NotedBy(got, Base + Wait)
    /\ pc = "annotate" /\ mem.create = "succeeded"
           => NotedBy(got, Base + Wait)

NotedInv == site.format = "badExpiry" => Noted

\* NotedMoves: what Budget makes of such a bound.
LEMMA NotedMoves ==
    ASSUME TypeOK, Budget, Wait \in Nat, NEW dates \in Dates
    PROVE  /\ Base' <= Base /\ NotedBy(dates, Base) => NotedBy(dates, Base')
           /\ Base' <= Base /\ NotedBy(dates, Base + Wait)
                  => NotedBy(dates, Base' + Wait)
           /\ Base' <= Base + Wait /\ NotedBy(dates, Base + Wait)
                  => NotedBy(dates, Base')
           /\ Base' + Wait = Base /\ NotedBy(dates, Base)
                  => NotedBy(dates, Base' + Wait)
           /\ NotedBy(dates, Base + Wait) => NotedBy(dates, Base)
<1>1. dates.renew \in Int /\ Slack \in Int
  BY NumbersTyped, ConstantsAssumption DEF Dates
<1>2. Base \in Int /\ Base' \in Int
  BY DEF Budget
<1>. QED BY <1>1, <1>2 DEF NotedBy, Base

\* NotDueNoted: dates that are not due when they are looked at can be left to
\* the next reconcile that may be counted on.
LEMMA NotDueNoted ==
    ASSUME TypeOK, TimeInv, FlowInv, pc = "renewal", ~Due(mem.meta)
    PROVE  NotedBy(got, Base + Wait)
<1>1. /\ got.renew \in Int /\ started \in Int
      /\ got.renew >= started
  BY NotDueYet
<1>2. /\ Base \in Int /\ Wait \in Nat /\ Slack \in Int
      /\ Base + Wait <= started + Slack
  BY BaseInSlack
<1>. QED BY <1>1, <1>2 DEF NotedBy, Base

\* FreshNoted: and so can dates set now.
LEMMA FreshNoted ==
    ASSUME TypeOK, TimeInv, pc # "idle"
    PROVE  NotedBy(DatesOf(now), Base + Wait)
<1>1. /\ now \in Nat /\ started \in Nat /\ Life \in Nat /\ Window \in Nat
      /\ Window < Life /\ started <= now
  BY ConstantsAssumption DEF TypeOK, TimeInv
<1>2. /\ Base \in Int /\ Wait \in Nat /\ Slack \in Int
      /\ Base + Wait <= started + Slack
  BY BaseInSlack
<1>. QED BY <1>1, <1>2, FreshDates DEF NotedBy, Base

\* NotedHolds: one step for each action.
LEMMA NotedHolds ==
    ASSUME TypeOK, TypeOK', TimeInv, TimeInv', FlowInv, FlowInv', NotedInv,
           [Next]_vars
    PROVE  NotedInv'
<1>. SUFFICES ASSUME site'.format = "badExpiry" PROVE Noted'
  BY DEF NotedInv
<1>1. Noted /\ site.format = "badExpiry"
  BY SiteStays DEF NotedInv
<1>2. CASE UNCHANGED vars
  <2>1. UNCHANGED <<site, pc, obj, mem, got, broker, secret>>
    BY <1>2 DEF vars
  <2>2. Base' = Base
    BY <1>2 DEF vars, Base
  <2>. QED BY <1>1, <2>1, <2>2 DEF Noted, Looks, NotedBy, Reports
<1>. SUFFICES ASSUME Next PROVE Noted'
  BY <1>2
<1>3. /\ Budget
      /\ Base \in Int /\ Base' \in Int /\ Wait \in Nat /\ Slack \in Int
  BY BaseMoves, BaseInSlack DEF Budget
<1>4. /\ obj \in Objects /\ mem \in Objects /\ broker \in Dates
      /\ got \in Dates /\ secret \in Dates
  BY DEF TypeOK
<1>5. ASSUME NEW dates \in Dates
      PROVE  /\ Base' <= Base /\ NotedBy(dates, Base) => NotedBy(dates, Base')
             /\ Base' <= Base /\ NotedBy(dates, Base + Wait)
                    => NotedBy(dates, Base' + Wait)
             /\ Base' <= Base + Wait /\ NotedBy(dates, Base + Wait)
                    => NotedBy(dates, Base')
             /\ Base' + Wait = Base /\ NotedBy(dates, Base)
                    => NotedBy(dates, Base' + Wait)
             /\ NotedBy(dates, Base + Wait) => NotedBy(dates, Base)
  BY <1>3, <1>5, NotedMoves
<1>6. CASE Tick \/ BrokerForgets
  <2>1. /\ UNCHANGED <<obj, mem, got, secret, pc>>
        /\ broker' \in {broker, NoDates}
        /\ faults' = faults
    BY <1>6 DEF Tick, BrokerForgets, clockVars
  <2>2. Base' <= Base
    BY <1>3, <2>1, FaultsMove DEF Budget, Base
  <2>. QED BY <1>1, <1>4, <1>5, <2>1, <2>2 DEF Noted, Looks
<1>7. CASE StartReconcile
  <2>1. /\ UNCHANGED <<obj, got, broker, secret>>
        /\ pc = "idle" /\ pc' \in {"observe", "finish"}
        /\ pc' = "finish" => mem' = Erred(obj)
    BY <1>7 DEF StartReconcile
  <2>2. Base' <= Base
    BY <1>3, <2>1 DEF Budget, Base
  <2>3. pc' = "finish" => Reports(mem')
    BY <1>4, <2>1, ErredCopies DEF Reports
  <2>. QED BY <1>1, <1>4, <1>5, <2>1, <2>2, <2>3 DEF Noted, Looks
<1>8. CASE PollBindingLastOperation
  BY <1>1, <1>8 DEF PollBindingLastOperation, FlowInv
<1>9. CASE GetBinding
  <2>1. /\ UNCHANGED <<obj, broker, secret>>
        /\ pc = "observe" /\ pc' # "idle"
    BY <1>9 DEF GetBinding
  <2>2. CASE pc' = "absent" /\ UNCHANGED <<mem, got, faults>>
    <3>1. Base' <= Base
      BY <1>3, <2>1, <2>2, FaultsMove DEF Budget, Base
    <3>. QED BY <1>1, <1>4, <1>5, <2>1, <2>2, <3>1 DEF Noted, Looks
  <2>3. CASE /\ broker # NoDates
             /\ got' = broker
             /\ pc' = "renewal"
             /\ UNCHANGED faults
    <3>1. Base' <= Base
      BY <1>3, <2>1, <2>3, FaultsMove DEF Budget, Base
    <3>. QED BY <1>1, <1>4, <1>5, <2>1, <2>3, <3>1 DEF Noted, Looks
  <2>4. CASE Fault /\ pc' = "finish" /\ mem' = Erred(mem) /\ UNCHANGED got
    <3>1. Base' <= Base
      BY <1>3, <2>1, <2>4, FaultsMove DEF Budget, Base
    <3>2. Reports(mem')
      BY <1>4, <2>4, ErredCopies DEF Reports
    <3>. QED BY <1>1, <1>4, <1>5, <2>1, <2>4, <3>1, <3>2 DEF Noted, Looks
  <2>. QED BY <1>1, <1>9, <2>2, <2>3, <2>4 DEF GetBinding
<1>10. CASE CheckRenewal
  <2>1. /\ UNCHANGED <<obj, mem, got, broker, secret>>
        /\ pc = "renewal" /\ pc' \in {"expiry", "upToDate"}
        /\ pc' = "upToDate" => ~Due(mem.meta)
        /\ faults' = faults
    BY <1>10 DEF CheckRenewal, clockVars
  <2>2. Base' <= Base
    BY <1>3, <2>1, FaultsMove DEF Budget, Base
  <2>3. pc' = "upToDate" => NotedBy(got, Base + Wait)
    BY <2>1, NotDueNoted
  <2>. QED BY <1>1, <1>4, <1>5, <2>1, <2>2, <2>3 DEF Noted, Looks
<1>11. CASE CheckExpiry
  <2>1. /\ UNCHANGED <<obj, got, broker, secret>>
        /\ pc = "expiry" /\ pc' = "finish" /\ mem' = Erred(mem)
        /\ faults' = faults
    BY <1>1, <1>11 DEF CheckExpiry, ParseISO8601Time, clockVars
  <2>2. Base' <= Base
    BY <1>3, <2>1, FaultsMove DEF Budget, Base
  <2>3. Reports(mem')
    BY <1>4, <2>1, ErredCopies DEF Reports
  <2>. QED BY <1>1, <1>4, <1>5, <2>1, <2>2, <2>3 DEF Noted, Looks
<1>12. CASE PublishObserved
  <2>1. /\ UNCHANGED <<obj, got, broker>> /\ secret' = got
        /\ pc = "upToDate" /\ pc' = "finish" /\ faults' = faults
    BY <1>12 DEF PublishObserved, clockVars
  <2>2. Base' <= Base
    BY <1>3, <2>1, FaultsMove DEF Budget, Base
  <2>3. broker \in {got, NoDates}
    BY <2>1 DEF FlowInv, Looks
  <2>4. NotedBy(got, Base + Wait) /\ NotedBy(got, Base)
    BY <1>1, <1>4, <1>5, <2>1 DEF Noted
  <2>. QED
    BY <1>1, <1>4, <1>5, <2>1, <2>2, <2>3, <2>4 DEF Noted, Looks
<1>13. CASE MarkCreatePending
  <2>1. /\ UNCHANGED <<got, broker, secret>>
        /\ pc = "absent" /\ pc' = "bind" /\ faults' = faults
    BY <1>13 DEF MarkCreatePending, clockVars
  <2>2. Base' <= Base
    BY <1>3, <2>1, FaultsMove DEF Budget, Base
  <2>3. Reports(obj') <=> Reports(obj)
    <3>1. obj' = Created(obj, "pending")
      BY <1>13 DEF MarkCreatePending, Created
    <3>2. obj'.synced = obj.synced
      BY <1>4, <3>1, CreatedCopies
    <3>. QED BY <3>2 DEF Reports
  <2>. QED BY <1>1, <1>4, <1>5, <2>1, <2>2, <2>3 DEF Noted, Looks
<1>14. CASE Bind
  <2>1. /\ UNCHANGED <<now, started, obj, secret>>
        /\ pc = "bind" /\ pc' = "annotate" /\ broker = NoDates
    BY <1>14 DEF Bind, clockVars, FlowInv
  <2>2. Base' <= Base
    <3>1. faults' = faults \/ Fault
      BY <1>14 DEF Bind
    <3>. QED BY <1>3, <2>1, <3>1, FaultsMove DEF Budget, Base
  <2>3. DatesOf(now) \in Dates /\ NotedBy(DatesOf(now), Base + Wait)
    BY <2>1, FreshDates, FreshNoted
  <2>4. /\ broker' \in {NoDates, DatesOf(now)}
        /\ mem'.create = "succeeded" => got' = DatesOf(now)
    BY <1>14, <2>1, BoundCopies
  <2>. QED
    BY <1>1, <1>4, <1>5, <2>1, <2>2, <2>3, <2>4 DEF Noted, Looks
<1>15. CASE Annotate
  <2>1. /\ UNCHANGED <<got, broker>>
        /\ pc = "annotate" /\ pc' = "finish" /\ faults' = faults
        /\ secret' = IF mem.create = "succeeded" THEN got ELSE secret
    BY <1>15 DEF Annotate, clockVars
  <2>2. Base' <= Base
    BY <1>3, <2>1, FaultsMove DEF Budget, Base
  <2>3. Reports(obj') = Reports(obj)
    BY <1>15, AnnotatedCopies DEF Reports
  <2>4. mem.create = "succeeded" \/ Reports(mem')
    BY <1>15, AnnotatedCopies DEF Reports
  <2>. QED BY <1>1, <1>4, <1>5, <2>1, <2>2, <2>3, <2>4 DEF Noted, Looks
<1>16. CASE Rotate \/ PublishRotated
  BY <1>1, <1>16 DEF Rotate, PublishRotated, FlowInv
<1>17. CASE FinishReconcile \/ Crash
  <2>1. /\ UNCHANGED <<broker, secret>>
        /\ pc # "idle" /\ pc' = "idle"
    BY <1>17 DEF FinishReconcile, Crash, Return
  <2>2. CASE Fault /\ obj' = obj
    <3>1. Base' <= Base
      BY <1>3, <2>1, <2>2 DEF Budget, Base
    <3>. QED BY <1>1, <1>4, <1>5, <2>1, <2>2, <3>1 DEF Noted, Looks
  <2>3. CASE pc = "finish" /\ obj' = mem
    <3>1. Base' <= Base + Wait
      BY <1>3, <2>1 DEF Budget, Base
    <3>. QED BY <1>1, <1>4, <1>5, <2>1, <2>3, <3>1 DEF Noted, Looks
  <2>4. Storable(mem)
    BY <1>1 DEF FlowInv, Storable
  <2>. QED BY <1>17, <2>2, <2>3, <2>4 DEF FinishReconcile, Crash
<1>. QED
  BY <1>6, <1>7, <1>8, <1>9, <1>10, <1>11, <1>12, <1>13, <1>14, <1>15,
     <1>16, <1>17 DEF Next

Rotating(o) == o.lastOp = "in progress"

NotedNext(dates, t) == dates.renew + Slack + Wait >= t

\* The published credentials are those of the binding, which nothing replaces
\* and, as it is not expired, the broker does not drop; they are not due for
\* long, unless a rotation is to be stored.
Unrotated ==
    secret # NoDates /\ ~Rotating(obj) =>
        /\ broker = secret
        /\ NotedBy(secret, Base)
        /\ pc \notin {"absent", "bind", "annotate"}
        /\ mem.healthy = ""
        /\ obj.create # "pending"
        /\ pc = "finish" /\ ~Rotating(mem) => NotedBy(secret, Base + Wait)

\* Once it is, every reconcile polls it, in vain, and reports that.
Rotated ==
    Rotating(obj) =>
        /\ secret # NoDates /\ ~Reports(obj) => NotedNext(secret, Base)
        /\ pc \in {"idle", "observe", "finish"}
        /\ pc # "idle" => Rotating(mem)
        /\ pc = "finish" => Reports(mem) /\ mem.healthy = ""

Polled ==
    Rotating(mem) =>
        /\ pc \in {"observe", "finish"}
        /\ pc = "observe" => Rotating(obj)

\* What is about to be published.
Told ==
    pc = "upToDate" \/ (pc = "annotate" /\ mem.create = "succeeded") =>
        /\ broker = got
        /\ NotedBy(got, Base + Wait)
        /\ mem.healthy = ""

StuckInv ==
    site.format = "both" /\ site.rotate /\ site.async
        => Unrotated /\ Rotated /\ Polled /\ Told

\* NotedNextMoves: a Wait more covers the reconcile that finds out.
LEMMA NotedNextMoves ==
    ASSUME TypeOK, Budget, Wait \in Nat, NEW dates \in Dates
    PROVE  /\ Base' <= Base /\ NotedNext(dates, Base)
                  => NotedNext(dates, Base')
           /\ Base' <= Base + Wait /\ NotedBy(dates, Base)
                  => NotedNext(dates, Base')
<1>1. dates.renew \in Int /\ Slack \in Int
  BY NumbersTyped, ConstantsAssumption DEF Dates
<1>2. Base \in Int /\ Base' \in Int
  BY DEF Budget
<1>. QED BY <1>1, <1>2 DEF NotedBy, NotedNext, Base

\* NotExpired: what is not due before Base - Slack has not expired now.
LEMMA NotExpired ==
    ASSUME TypeOK, TimeInv, Window >= Slack, NEW dates \in Dates,
           dates # NoDates, Paired(dates), NotedBy(dates, Base)
    PROVE  ~(dates.expires < now)
<1>1. dates.expires = dates.renew + Window
  BY DEF Paired
<1>2. /\ dates.renew \in Int /\ dates.expires \in Int /\ now \in Int
      /\ Window \in Int
  BY ConstantsAssumption DEF Dates, TypeOK
<1>3. now <= Base /\ Base \in Int /\ Slack \in Int
  BY BaseInSlack
<1>. QED BY <1>1, <1>2, <1>3 DEF NotedBy, Base

\* StuckHolds: one step for each action.
LEMMA StuckHolds ==
    ASSUME TypeOK, TypeOK', TimeInv, TimeInv', FlowInv, FlowInv', StuckInv,
           [Next]_vars, Window >= Slack
    PROVE  StuckInv'
<1>. SUFFICES ASSUME site'.format = "both", site'.rotate, site'.async
              PROVE  (Unrotated /\ Rotated /\ Polled /\ Told)'
  BY DEF StuckInv
<1>1. /\ Unrotated /\ Rotated /\ Polled /\ Told
      /\ site.format = "both" /\ site.rotate /\ site.async
  BY SiteStays DEF StuckInv
<1>2. CASE UNCHANGED vars
  <2>1. UNCHANGED <<site, pc, obj, mem, got, broker, secret>>
    BY <1>2 DEF vars
  <2>2. Base' = Base
    BY <1>2 DEF vars, Base
  <2>. QED BY <1>1, <2>1, <2>2 DEF Unrotated, Rotated, Polled, Told, NotedBy,
              NotedNext, Reports, Rotating
<1>. SUFFICES ASSUME Next
              PROVE  (Unrotated /\ Rotated /\ Polled /\ Told)'
  BY <1>2
<1>3. /\ Budget
      /\ Base \in Int /\ Base' \in Int /\ Wait \in Nat /\ Slack \in Int
  BY BaseMoves, BaseInSlack DEF Budget
<1>4. /\ obj \in Objects /\ mem \in Objects /\ broker \in Dates
      /\ got \in Dates /\ secret \in Dates
  BY DEF TypeOK
<1>5. ASSUME NEW dates \in Dates
      PROVE  /\ Base' <= Base /\ NotedBy(dates, Base) => NotedBy(dates, Base')
             /\ Base' <= Base /\ NotedBy(dates, Base + Wait)
                    => NotedBy(dates, Base' + Wait)
             /\ Base' <= Base + Wait /\ NotedBy(dates, Base + Wait)
                    => NotedBy(dates, Base')
             /\ Base' + Wait = Base /\ NotedBy(dates, Base)
                    => NotedBy(dates, Base' + Wait)
             /\ NotedBy(dates, Base + Wait) => NotedBy(dates, Base)
             /\ Base' <= Base /\ NotedNext(dates, Base)
                    => NotedNext(dates, Base')
             /\ Base' <= Base + Wait /\ NotedBy(dates, Base)
                    => NotedNext(dates, Base')
  <2>1. /\ Base' <= Base /\ NotedNext(dates, Base) => NotedNext(dates, Base')
        /\ Base' <= Base + Wait /\ NotedBy(dates, Base)
               => NotedNext(dates, Base')
    BY <1>3, NotedNextMoves
  <2>2. /\ Base' <= Base /\ NotedBy(dates, Base) => NotedBy(dates, Base')
        /\ Base' <= Base /\ NotedBy(dates, Base + Wait)
               => NotedBy(dates, Base' + Wait)
        /\ Base' <= Base + Wait /\ NotedBy(dates, Base + Wait)
               => NotedBy(dates, Base')
        /\ Base' + Wait = Base /\ NotedBy(dates, Base)
               => NotedBy(dates, Base' + Wait)
        /\ NotedBy(dates, Base + Wait) => NotedBy(dates, Base)
    BY <1>3, NotedMoves
  <2>. QED BY <2>1, <2>2
<1>6. secret # NoDates /\ ~Rotating(obj)
          => /\ Paired(secret)
             /\ ~(secret.expires < now)
  <2>. SUFFICES ASSUME secret # NoDates, ~Rotating(obj)
                PROVE  Paired(secret) /\ ~(secret.expires < now)
    OBVIOUS
  <2>1. broker = secret /\ NotedBy(secret, Base)
    BY <1>1 DEF Unrotated
  <2>2. Paired(secret)
    BY <2>1 DEF FlowInv
  <2>. QED BY <1>4, <2>1, <2>2, NotExpired
<1>7. CASE Tick
  <2>1. UNCHANGED <<obj, mem, got, broker, secret, pc, faults>>
    BY <1>7 DEF Tick
  <2>2. Base' <= Base
    BY <1>3, <2>1, FaultsMove DEF Budget, Base
  <2>. QED BY <1>1, <1>4, <1>5, <2>1, <2>2
           DEF Unrotated, Rotated, Polled, Told, Rotating, Reports
<1>8. CASE BrokerForgets
  <2>1. /\ UNCHANGED <<obj, mem, got, secret, pc, faults>>
        /\ broker # NoDates /\ broker.expires < now
    BY <1>8 DEF BrokerForgets, clockVars
  <2>2. Base' <= Base
    BY <1>3, <2>1, FaultsMove DEF Budget, Base
  <2>3. ~(secret # NoDates /\ ~Rotating(obj))
    BY <1>1, <1>6, <2>1 DEF Unrotated
  <2>4. ~(pc = "upToDate" \/ (pc = "annotate" /\ mem.create = "succeeded"))
    <3>. SUFFICES ASSUME pc = "upToDate"
                            \/ (pc = "annotate" /\ mem.create = "succeeded")
                  PROVE  FALSE
      OBVIOUS
    <3>1. broker = got /\ NotedBy(broker, Base)
      BY <1>1, <1>4, <1>5 DEF Told
    <3>2. Paired(broker)
      BY DEF FlowInv
    <3>. QED BY <1>4, <2>1, <3>1, <3>2, NotExpired
  <2>. QED BY <1>1, <1>4, <1>5, <2>1, <2>2, <2>3, <2>4
           DEF Unrotated, Rotated, Polled, Told, Rotating, Reports
<1>9. CASE StartReconcile
  <2>1. /\ UNCHANGED <<obj, got, broker, secret>>
        /\ pc = "idle" /\ pc' \in {"observe", "finish"}
        /\ pc' = "finish" => mem' = Erred(obj) /\ obj.create = "pending"
        /\ pc' = "observe" => mem' = obj
    BY <1>9 DEF StartReconcile
  <2>2. Base' <= Base
    BY <1>3, <2>1 DEF Budget, Base
  <2>3. pc' = "finish" => Reports(mem')
    BY <1>4, <2>1, ErredCopies DEF Reports
  <2>4. (Rotating(mem') <=> Rotating(obj)) /\ mem'.healthy = ""
    <3>1. mem'.lastOp = obj.lastOp /\ mem'.healthy = obj.healthy
      BY <1>4, <2>1, ErredCopies
    <3>2. obj.healthy = ""
      BY DEF FlowInv
    <3>. QED BY <3>1, <3>2 DEF Rotating
  <2>. QED BY <1>1, <1>4, <1>5, <2>1, <2>2, <2>3, <2>4
           DEF Unrotated, Rotated, Polled, Told
<1>10. CASE PollBindingLastOperation
  <2>1. /\ UNCHANGED <<obj, got, broker, secret, faults>>
        /\ pc = "observe" /\ pc' = "finish" /\ mem' = Erred(mem)
        /\ Rotating(mem)
    BY <1>10 DEF PollBindingLastOperation, clockVars, Rotating
  <2>2. Base' <= Base
    BY <1>3, <2>1, FaultsMove DEF Budget, Base
  <2>3. Reports(mem') /\ mem'.healthy = mem.healthy /\ Rotating(mem')
    BY <1>4, <2>1, ErredCopies DEF Reports, Rotating
  <2>4. mem.healthy = ""
    BY <2>1 DEF FlowInv
  <2>. QED BY <1>1, <1>4, <1>5, <2>1, <2>2, <2>3, <2>4
           DEF Unrotated, Rotated, Polled, Told
<1>11. CASE GetBinding
  <2>1. /\ UNCHANGED <<obj, broker, secret>>
        /\ pc = "observe" /\ pc' # "idle" /\ ~Rotating(mem)
    BY <1>11 DEF GetBinding, Rotating
  <2>2. ~Rotating(obj)
    BY <1>1, <2>1 DEF Rotated
  <2>3. mem.healthy = ""
    BY <2>1 DEF FlowInv
  <2>4. CASE broker = NoDates /\ pc' = "absent" /\ UNCHANGED <<mem, faults>>
    <3>1. secret = NoDates
      BY <1>1, <2>2, <2>4 DEF Unrotated
    <3>. QED BY <2>1, <2>2, <2>4, <3>1
             DEF Unrotated, Rotated, Polled, Told, Rotating
  <2>5. CASE /\ got' = broker
             /\ mem' = SetResponseDataInStatus(mem, broker)
             /\ pc' = "renewal"
             /\ UNCHANGED faults
    <3>1. Base' <= Base
      BY <1>3, <2>1, <2>5, FaultsMove DEF Budget, Base
    <3>2. mem'.healthy = "" /\ ~Rotating(mem')
      BY <1>4, <2>1, <2>3, <2>5, ResponseCopies DEF Rotating
    <3>. QED BY <1>1, <1>4, <1>5, <2>1, <2>2, <2>5, <3>1, <3>2
             DEF Unrotated, Rotated, Polled, Told, Rotating
  <2>6. CASE Fault /\ pc' = "finish" /\ mem' = Erred(mem)
    <3>1. Base' + Wait = Base /\ Base' <= Base
      BY <1>3, <2>1, <2>6, FaultsMove DEF Budget, Base
    <3>2. mem'.healthy = "" /\ ~Rotating(mem')
      BY <1>4, <2>1, <2>3, <2>6, ErredCopies DEF Rotating
    <3>. QED BY <1>1, <1>4, <1>5, <2>1, <2>2, <2>6, <3>1, <3>2
             DEF Unrotated, Rotated, Polled, Told, Rotating
  <2>. QED BY <1>1, <1>11, <2>4, <2>5, <2>6 DEF GetBinding
<1>12. CASE CheckRenewal
  <2>1. /\ UNCHANGED <<obj, mem, got, broker, secret>>
        /\ pc = "renewal" /\ pc' \in {"expiry", "upToDate"}
        /\ pc' = "upToDate" => ~Due(mem.meta)
        /\ faults' = faults
    BY <1>12 DEF CheckRenewal, clockVars
  <2>2. Base' <= Base
    BY <1>3, <2>1, FaultsMove DEF Budget, Base
  <2>3. pc' = "upToDate" => NotedBy(got, Base + Wait) /\ broker = got
    <3>. SUFFICES ASSUME pc' = "upToDate"
                  PROVE  NotedBy(got, Base + Wait) /\ broker = got
      OBVIOUS
    <3>1. NotedBy(got, Base + Wait)
      BY <2>1, NotDueNoted
    <3>2. ~(got.expires < now)
      BY <2>1, NotDueYet
    <3>. QED BY <2>1, <3>1, <3>2 DEF FlowInv, Looks
  <2>4. mem.healthy = ""
    BY <2>1 DEF FlowInv
  <2>. QED BY <1>1, <1>4, <1>5, <2>1, <2>2, <2>3, <2>4
           DEF Unrotated, Rotated, Polled, Told, Rotating, Reports
<1>13. CASE CheckExpiry
  <2>1. /\ UNCHANGED <<obj, got, broker, secret>>
        /\ pc = "expiry" /\ pc' = "outdated" /\ mem' = MarkBinding(mem)
        /\ faults' = faults
    BY <1>1, <1>13 DEF CheckExpiry, ParseISO8601Time, clockVars
  <2>2. Base' <= Base
    BY <1>3, <2>1, FaultsMove DEF Budget, Base
  <2>3. ~Rotating(mem) /\ ~Rotating(obj)
    BY <1>1, <2>1 DEF Polled, Rotated
  <2>4. ~Rotating(mem')
    BY <1>4, <2>1, <2>3, MarkedHealth DEF Rotating
  <2>5. secret # NoDates => mem' = mem
    <3>. SUFFICES ASSUME secret # NoDates PROVE mem' = mem
      OBVIOUS
    <3>1. broker = secret /\ ~(secret.expires < now)
      BY <1>1, <1>6, <2>3 DEF Unrotated
    <3>2. mem.meta = got /\ (broker = got \/ broker = NoDates)
      BY <2>1 DEF FlowInv, Looks
    <3>. QED BY <1>1, <2>1, <3>1, <3>2 DEF MarkBinding
  <2>. QED BY <1>1, <1>4, <1>5, <2>1, <2>2, <2>3, <2>4, <2>5
           DEF Unrotated, Rotated, Polled, Told, Rotating
<1>14. CASE PublishObserved
  <2>1. /\ UNCHANGED <<obj, got, broker>> /\ secret' = got
        /\ pc = "upToDate" /\ pc' = "finish" /\ faults' = faults
        /\ mem' = Synced(mem)
    BY <1>14 DEF PublishObserved, clockVars
  <2>2. Base' <= Base
    BY <1>3, <2>1, FaultsMove DEF Budget, Base
  <2>3. ~Rotating(mem) /\ ~Rotating(obj) /\ obj.create # "pending"
    BY <1>1, <2>1 DEF Polled, Rotated, FlowInv
  <2>4. broker = got /\ mem.healthy = ""
        /\ NotedBy(got, Base + Wait) /\ NotedBy(got, Base)
    BY <1>1, <1>4, <1>5, <2>1 DEF Told
  <2>5. mem'.healthy = "" /\ ~Rotating(mem')
    BY <1>4, <2>1, <2>3, <2>4, SyncedCopies DEF Rotating
  <2>. QED BY <1>4, <1>5, <2>1, <2>2, <2>3, <2>4, <2>5
           DEF Unrotated, Rotated, Polled, Told, Rotating
<1>15. CASE MarkCreatePending
  <2>1. /\ UNCHANGED <<got, broker, secret>>
        /\ pc = "absent" /\ pc' = "bind" /\ faults' = faults
        /\ obj' = Created(obj, "pending") /\ mem' = Created(mem, "pending")
    BY <1>15 DEF MarkCreatePending, clockVars, Created
  <2>2. ~Rotating(mem) /\ ~Rotating(obj)
    BY <1>1, <2>1 DEF Polled, Rotated
  <2>3. ~Rotating(mem') /\ ~Rotating(obj')
    BY <1>4, <2>1, <2>2, CreatedCopies DEF Rotating
  <2>4. secret = NoDates
    BY <1>1, <2>1, <2>2 DEF Unrotated
  <2>. QED BY <2>1, <2>3, <2>4 DEF Unrotated, Rotated, Polled, Told
<1>16. CASE Bind
  <2>1. /\ UNCHANGED <<now, started, obj, secret>>
        /\ pc = "bind" /\ pc' = "annotate" /\ broker = NoDates
    BY <1>16 DEF Bind, clockVars, FlowInv
  <2>2. Base' <= Base
    <3>1. faults' = faults \/ Fault
      BY <1>16 DEF Bind
    <3>. QED BY <1>3, <2>1, <3>1, FaultsMove DEF Budget, Base
  <2>3. DatesOf(now) \in Dates /\ NotedBy(DatesOf(now), Base + Wait)
    BY <2>1, FreshDates, FreshNoted
  <2>4. /\ mem'.create = "succeeded"
               => got' = DatesOf(now) /\ broker' = DatesOf(now)
        /\ mem'.healthy = mem.healthy /\ (Rotating(mem') <=> Rotating(mem))
    BY <1>16, BoundCopies DEF Rotating
  <2>5. ~Rotating(mem) /\ ~Rotating(obj) /\ mem.healthy = ""
    BY <1>1, <2>1 DEF Polled, Rotated, FlowInv
  <2>6. secret = NoDates
    BY <1>1, <2>1, <2>5 DEF Unrotated
  <2>. QED BY <1>4, <1>5, <2>1, <2>2, <2>3, <2>4, <2>5, <2>6
           DEF Unrotated, Rotated, Polled, Told, Rotating
<1>17. CASE Annotate
  <2>1. /\ UNCHANGED <<got, broker>>
        /\ pc = "annotate" /\ pc' = "finish" /\ faults' = faults
        /\ secret' = IF mem.create = "succeeded" THEN got ELSE secret
    BY <1>17 DEF Annotate, clockVars
  <2>2. Base' <= Base
    BY <1>3, <2>1, FaultsMove DEF Budget, Base
  <2>3. ~Rotating(mem) /\ ~Rotating(obj) /\ mem.healthy = ""
    BY <1>1, <2>1 DEF Polled, Rotated, FlowInv
  <2>4. secret = NoDates
    BY <1>1, <2>1, <2>3 DEF Unrotated
  <2>5. /\ ~Rotating(mem') /\ ~Rotating(obj') /\ mem'.healthy = ""
        /\ obj'.create = mem.create
    BY <1>17, <2>3, AnnotatedCopies DEF Rotating
  <2>6. mem.create = "succeeded" =>
            broker = got /\ NotedBy(got, Base + Wait) /\ NotedBy(got, Base)
    BY <1>1, <1>4, <1>5, <2>1 DEF Told
  <2>. QED BY <1>4, <1>5, <2>1, <2>2, <2>4, <2>5, <2>6
           DEF Unrotated, Rotated, Polled, Told
<1>18. CASE Rotate
  <2>1. /\ UNCHANGED <<now, obj, broker, secret>>
        /\ pc = "outdated" /\ pc' = "finish"
    BY <1>1, <1>18 DEF Rotate, clockVars
  <2>2. ~Rotating(mem) /\ ~Rotating(obj) /\ obj.create # "pending"
    BY <1>1, <2>1 DEF Polled, Rotated, FlowInv
  <2>3. CASE Rotating(mem') /\ mem'.healthy = mem.healthy /\ faults' = faults
    <3>1. Base' <= Base
      BY <1>3, <2>1, <2>3, FaultsMove DEF Budget, Base
    <3>. QED BY <1>1, <1>4, <1>5, <2>1, <2>2, <2>3, <3>1
             DEF Unrotated, Rotated, Polled, Told, Rotating
  <2>4. CASE secret = NoDates /\ ~Rotating(mem')
    BY <2>1, <2>2, <2>4 DEF Unrotated, Rotated, Polled, Told, Rotating
  <2>5. CASE Fault /\ ~Rotating(mem') /\ mem'.healthy = mem.healthy
    <3>1. Base' + Wait = Base /\ Base' <= Base
      BY <1>3, <2>1, <2>5, FaultsMove DEF Budget, Base
    <3>. QED BY <1>1, <1>4, <1>5, <2>1, <2>2, <2>5, <3>1
             DEF Unrotated, Rotated, Polled, Told, Rotating
  <2>6. Refused => secret = NoDates
    BY <1>1, <1>6, <2>2 DEF Refused, Unrotated
  <2>7. mem' = Synced(HandleAsyncStatus(mem))
            => Rotating(mem') /\ mem'.healthy = mem.healthy
    <3>1. /\ HandleAsyncStatus(mem) \in Objects
          /\ HandleAsyncStatus(mem).healthy = mem.healthy
          /\ HandleAsyncStatus(mem).lastOp = "in progress"
      BY <1>4, AsyncCopies
    <3>. QED BY <3>1, SyncedCopies DEF Rotating
  <2>8. mem' = Erred(mem) => ~Rotating(mem') /\ mem'.healthy = mem.healthy
    BY <1>4, <2>2, ErredCopies DEF Rotating
  <2>. QED BY <1>1, <1>18, <2>3, <2>4, <2>5, <2>6, <2>7, <2>8 DEF Rotate
<1>19. CASE PublishRotated
  BY <1>1, <1>19 DEF PublishRotated, FlowInv
<1>20. CASE FinishReconcile \/ Crash
  <2>1. /\ UNCHANGED <<broker, secret>>
        /\ pc # "idle" /\ pc' = "idle" /\ mem' = NewObject
    BY <1>20 DEF FinishReconcile, Crash, Return
  <2>2. ~Rotating(mem') /\ mem'.healthy = ""
    BY <2>1, BlankObject DEF Rotating
  <2>3. CASE Fault /\ obj' = obj
    <3>1. Base' <= Base
      BY <1>3, <2>1, <2>3 DEF Budget, Base
    <3>. QED BY <1>1, <1>4, <1>5, <2>1, <2>2, <2>3, <3>1
             DEF Unrotated, Rotated, Polled, Told, Rotating, Reports
  <2>4. Base' <= Base + Wait
    BY <1>3, <2>1 DEF Budget, Base
  <2>5. CASE pc = "finish" /\ Storable(mem) /\ obj' = mem
    <3>1. (Rotating(obj') <=> Rotating(mem)) /\ obj'.create = mem.create
          /\ (Reports(obj') <=> Reports(mem))
      BY <2>5 DEF Rotating, Reports
    <3>2. Rotating(obj) => Rotating(mem) /\ Reports(mem)
      BY <1>1, <2>1, <2>5 DEF Rotated
    <3>3. mem.create = "pending" => obj.create = "pending"
      BY DEF FlowInv
    <3>. QED BY <1>1, <1>4, <1>5, <2>1, <2>2, <2>4, <2>5, <3>1, <3>2, <3>3
             DEF Unrotated, Rotated, Polled, Told
  <2>6. CASE pc = "finish" /\ ~Storable(mem) /\ obj' = obj
    <3>1. ~Rotating(obj)
      BY <1>1, <2>6 DEF Rotated, Storable
    <3>2. secret = NoDates
      BY <1>1, <2>6, <3>1 DEF Unrotated, Storable
    <3>. QED BY <2>1, <2>2, <2>6, <3>1, <3>2
             DEF Unrotated, Rotated, Polled, Told, Rotating
  <2>. QED BY <1>20, <2>3, <2>5, <2>6 DEF FinishReconcile, Crash
<1>. QED
  BY <1>7, <1>8, <1>9, <1>10, <1>11, <1>12, <1>13, <1>14, <1>15, <1>16,
     <1>17, <1>18, <1>19, <1>20 DEF Next

\* ReportsRenewalFailure: RenewalFailureReported, if the window is as wide as
\* Slack: a renewal that cannot succeed comes to be reported on the stored
\* object, whatever the faults, their number and the clock.
THEOREM ReportsRenewalFailure ==
    ASSUME Window >= Slack
    PROVE  Spec => []RenewalFailureReported
<1>. DEFINE RInv == Flows /\ NotedInv /\ StuckInv
<1>1. Init => RInv
  <2>. SUFFICES ASSUME Init PROVE NotedInv /\ StuckInv
    BY FlowsBegin
  <2>1. ~Rotating(obj) /\ ~Rotating(mem)
    BY BlankObject DEF Init, Rotating
  <2>. QED BY <2>1 DEF Init, NotedInv, Noted, Looks, StuckInv, Unrotated,
              Rotated, Polled, Told
<1>2. RInv /\ [Next]_vars => RInv'
  <2>. SUFFICES ASSUME RInv, [Next]_vars PROVE RInv'
    OBVIOUS
  <2>1. Flows'
    BY FlowsHold
  <2>2. NotedInv'
    BY <2>1, NotedHolds DEF Flows
  <2>3. StuckInv'
    BY <2>1, StuckHolds DEF Flows
  <2>. QED BY <2>1, <2>2, <2>3
<1>3. RInv => RenewalFailureReported
  <2>. SUFFICES ASSUME RInv, RenewalFails, secret # NoDates, ~Reports(obj)
                PROVE  ~(now > secret.renew + Slack + Poll + Latency)
    BY DEF RenewalFailureReported, Reports
  <2>1. NotedBy(secret, Base) \/ NotedNext(secret, Base)
    BY DEF RenewalFails, NotedInv, Noted, StuckInv, Unrotated, Rotated
  <2>2. now <= Base /\ Base \in Int /\ Wait \in Nat /\ Slack \in Int
    BY BaseInSlack DEF Flows
  <2>3. now \in Int /\ secret.renew \in Int /\ Poll \in Nat /\ Latency \in Nat
    BY ConstantsAssumption DEF Flows, TypeOK, Dates
  <2>. QED BY <2>1, <2>2, <2>3 DEF NotedBy, NotedNext, Base, Wait
<1>. QED BY <1>1, <1>2, <1>3, PTL DEF Spec
=============================================================================
