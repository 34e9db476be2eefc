--------------------------- MODULE BindingRenewal ----------------------------
(***************************************************************************)
(* Time, and what the ServiceBinding controller makes of it: one binding   *)
(* that is neither edited nor deleted, the dates its broker tells of it,   *)
(* and the credentials the controller publishes.  ServiceBinding has the   *)
(* rest of the controller and one flag instead of the dates; here nobody   *)
(* but the reconcile writes the object, and disableAsync is set.           *)
(*                                                                         *)
(* A reconcile begins Poll after the last one at the latest and takes at   *)
(* most Latency.  The clock moves between its steps, so also between the   *)
(* two readings HandleRenewalBindings makes of it.                         *)
(***************************************************************************)
EXTENDS Integers

CONSTANTS
    Poll,           \* the poll interval, not below the longest retry delay
    Latency,        \* the longest a reconcile takes
    Life,           \* from the making of credentials to their expiresAt
    Window,         \* from their renewBefore to their expiresAt
    Rotations,      \* values of the flag EnableAlphaRotateBindings
    Formats,        \* how the broker writes dates: "both"; "badExpiry", an
                    \* expiresAt that does not parse; "noRenewal", none
    AsyncRotations, \* does the broker rotate asynchronously
    Refusals,       \* does the broker refuse to rotate an expired binding
    MaxFaults,      \* bound: crashes, lost requests and replies, lost writes
    MaxTime         \* bound: where the clock stops

ASSUME ConstantsAssumption ==
    /\ Poll \in Nat \ {0}
    /\ Latency \in Nat
    /\ Window \in Nat \ {0}
    /\ Life \in Nat
    /\ Window < Life
    /\ Rotations \subseteq BOOLEAN
    /\ Formats \subseteq {"both", "badExpiry", "noRenewal"}
    /\ AsyncRotations \subseteq BOOLEAN
    /\ Refusals \subseteq BOOLEAN
    /\ MaxFaults \in Nat
    /\ MaxTime \in Nat

-----------------------------------------------------------------------------
(* Data *)

\* What the provider was started with and how its broker behaves.
Sites == [rotate: Rotations, format: Formats, async: AsyncRotations,
          refuses: Refusals]

\* renewBefore and expiresAt of a binding.
Dates == [renew: 0..MaxTime + Life, expires: 0..MaxTime + Life]

NoDates == [renew |-> 0, expires |-> 0]

DatesOf(made) == [renew |-> made + Life - Window, expires |-> made + Life]

\* The external-create annotation, and of the status: AtProvider.Metadata,
\* LastOperationState, the Healthy and the Synced condition.  A copy may be
\* marked unhealthy; no stored object ever is: see Storable.
Objects == [create: {"", "pending", "succeeded", "failed"}, meta: Dates,
            lastOp: {"", "in progress"},
            healthy: {"", "soon", "expired"}, synced: {"", "yes", "no"}]

NewObject == [create |-> "", meta |-> NoDates, lastOp |-> "", healthy |-> "",
              synced |-> ""]

Steps == {"idle", "observe", "renewal", "expiry", "upToDate", "outdated",
          "publish", "absent", "bind", "annotate", "finish"}

VARIABLES
    site,           \* chosen once
    now, next,      \* the clock, and when the next reconcile must begin
    pc, started,    \* the next step of the reconcile, and when it began
    obj, mem,       \* the stored object and the reconcile's copy
    got,            \* dates of the credentials a request returned
    broker,         \* dates of the binding with the stored external name
    secret,         \* dates of the published credentials
    faults

vars == <<site, now, next, pc, started, obj, mem, got, broker, secret, faults>>

clockVars == <<site, now, next, started>>

TypeOK ==
    /\ site \in Sites
    /\ now \in 0..MaxTime
    /\ next \in 0..MaxTime + Poll
    /\ pc \in Steps
    /\ started \in 0..MaxTime
    /\ obj \in Objects
    /\ mem \in Objects
    /\ got \in Dates
    /\ broker \in Dates
    /\ secret \in Dates
    /\ faults \in 0..MaxFaults

Init ==
    /\ site \in Sites
    /\ now = 0
    /\ next = 0
    /\ pc = "idle"
    /\ started = 0
    /\ obj = NewObject
    /\ mem = NewObject
    /\ got = NoDates
    /\ broker = NoDates
    /\ secret = NoDates
    /\ faults = 0

-----------------------------------------------------------------------------
(* The clock and the broker *)

Tick ==
    /\ now < MaxTime
    /\ now < IF pc = "idle" THEN next ELSE started + Latency
    /\ now' = now + 1
    /\ UNCHANGED <<site, next, pc, started, obj, mem, got, broker, secret,
                   faults>>

Fault ==
    /\ faults < MaxFaults
    /\ faults' = faults + 1

\* The broker may drop a binding once it has expired.
BrokerForgets ==
    /\ broker # NoDates
    /\ broker.expires < now
    /\ broker' = NoDates
    /\ UNCHANGED <<clockVars, pc, obj, mem, got, secret, faults>>

-----------------------------------------------------------------------------
(* Observe *)

Erred(o)  == [o EXCEPT !.synced = "no"]
Synced(o) == [o EXCEPT !.synced = "yes"]

StartReconcile ==
    /\ pc = "idle"
    /\ started' = now
    /\ IF obj.create = "pending"        \* ExternalCreateIncomplete
         THEN /\ pc' = "finish"
              /\ mem' = Erred(obj)
         ELSE /\ pc' = "observe"
              /\ mem' = obj
    /\ UNCHANGED <<site, now, next, obj, got, broker, secret, faults>>

\* Mutant: an operation the broker does not know is taken for one that ended.
PollErrorIgnored ==
    /\ pc = "observe"
    /\ mem.lastOp = "in progress"
    /\ pc' = "finish"
    /\ mem' = Synced(mem)
    /\ UNCHANGED <<clockVars, obj, got, broker, secret, faults>>

\* The operation of a rotation is polled under the old name, for which the
\* broker knows no operation; one that is gone is an error too, as the object
\* is not deleted.
PollBindingLastOperation ==
    /\ pc = "observe"
    /\ mem.lastOp = "in progress"
    /\ pc' = "finish"
    /\ mem' = Erred(mem)
    /\ UNCHANGED <<clockVars, obj, got, broker, secret, faults>>

\* Mutant: the metadata of the first reply is kept.
KeepFirstMetadata(o, meta) ==
    [o EXCEPT !.meta = IF @ = NoDates THEN meta ELSE @]

\* SetResponseDataInStatus: the last operation is preserved.
SetResponseDataInStatus(o, meta) == [o EXCEPT !.meta = meta]

GetBinding ==
    /\ pc = "observe"
    /\ mem.lastOp # "in progress"
    /\ \/ /\ broker = NoDates
          /\ pc' = "absent"
          /\ UNCHANGED <<mem, got, faults>>
       \/ /\ broker # NoDates
          /\ got' = broker
          /\ mem' = SetResponseDataInStatus(mem, broker)
          /\ pc' = IF site.format = "noRenewal" THEN "upToDate" ELSE "renewal"
          /\ UNCHANGED faults
       \/ /\ Fault
          /\ pc' = "finish"
          /\ mem' = Erred(mem)
          /\ UNCHANGED got
    /\ UNCHANGED <<clockVars, obj, broker, secret>>

\* Mutant: renewal waits for the expiry.
DueAtExpiry(meta) == meta.expires < now

\* renewBeforeTime.Before(time.Now())
Due(meta) == meta.renew < now

CheckRenewal ==
    /\ pc = "renewal"
    /\ pc' = IF Due(mem.meta) THEN "expiry" ELSE "upToDate"
    /\ UNCHANGED <<clockVars, obj, mem, got, broker, secret, faults>>

ParseISO8601Time == site.format # "badExpiry"

\* MarkBindingIfExpired and MarkBindingAsExpiringSoon: what they set Healthy
\* to, a condition without lastTransitionTime.
MarkBinding(o) ==
    IF o.meta.expires < now THEN [o EXCEPT !.healthy = "expired"]
    ELSE IF ~site.rotate THEN [o EXCEPT !.healthy = "soon"]
    ELSE o

CheckExpiry ==
    /\ pc = "expiry"
    /\ IF ~ParseISO8601Time
         THEN /\ pc' = "finish"
              /\ mem' = Erred(mem)
         ELSE /\ pc' = IF site.rotate THEN "outdated" ELSE "upToDate"
              /\ mem' = MarkBinding(mem)
    /\ UNCHANGED <<clockVars, obj, got, broker, secret, faults>>

\* Observe returned the credentials of the binding it got.
PublishObserved ==
    /\ pc = "upToDate"
    /\ secret' = got
    /\ mem' = Synced(mem)
    /\ pc' = "finish"
    /\ UNCHANGED <<clockVars, obj, got, broker, faults>>

-----------------------------------------------------------------------------
(* Create and Update *)

MarkCreatePending ==
    /\ pc = "absent"
    /\ obj' = [obj EXCEPT !.create = "pending"]
    /\ mem' = [mem EXCEPT !.create = "pending"]
    /\ pc' = "bind"
    /\ UNCHANGED <<clockVars, got, broker, secret, faults>>

Bind ==
    /\ pc = "bind"
    /\ pc' = "annotate"
    /\ \/ /\ broker' = DatesOf(now)
          /\ got' = DatesOf(now)
          /\ mem' = [SetResponseDataInStatus(mem, got') EXCEPT
                       !.create = "succeeded"]
          /\ UNCHANGED faults
       \/ /\ Fault
          /\ broker' \in {broker, DatesOf(now)}
          /\ mem' = [mem EXCEPT !.create = "failed"]
          /\ UNCHANGED got
    /\ UNCHANGED <<clockVars, obj, secret>>

\* UpdateCriticalAnnotations: the answer to the write brings the stored
\* metadata back, if there is any; then the credentials are published.
Annotate ==
    /\ pc = "annotate"
    /\ obj' = [obj EXCEPT !.create = mem.create]
    /\ LET decoded == [mem EXCEPT
              !.meta = IF obj.meta = NoDates THEN @ ELSE obj.meta]
       IN  mem' = IF mem.create = "succeeded" THEN Synced(decoded)
                                              ELSE Erred(decoded)
    /\ secret' = IF mem.create = "succeeded" THEN got ELSE secret
    /\ pc' = "finish"
    /\ UNCHANGED <<clockVars, got, broker, faults>>

Refused ==
    \/ broker = NoDates
    \/ site.refuses /\ broker.expires < now

\* Mutant: the state goes to a condition instead of the last operation.
StateMisplaced(o) == [o EXCEPT !.healthy = "in progress"]

HandleAsyncStatus(o) == [o EXCEPT !.lastOp = "in progress"]

\* TriggerRotation.  The new name is not stored, so the binding that broker
\* stands for remains the one with the old name; the new one matters only
\* for its credentials.
Rotate ==
    /\ pc = "outdated"
    /\ \/ /\ ~Refused
          /\ ~site.async
          /\ got' = DatesOf(now)
          /\ pc' = "publish"
          /\ UNCHANGED <<mem, faults>>
       \/ /\ ~Refused
          /\ site.async
          /\ mem' = Synced(HandleAsyncStatus(mem))
          /\ pc' = "finish"
          /\ UNCHANGED <<got, faults>>
       \/ /\ Refused
          /\ mem' = Erred(mem)
          /\ pc' = "finish"
          /\ UNCHANGED <<got, faults>>
       \/ /\ Fault
          /\ mem' = Erred(mem)
          /\ pc' = "finish"
          /\ UNCHANGED got
    /\ UNCHANGED <<clockVars, obj, broker, secret>>

\* Update returned the credentials of the rotation.
PublishRotated ==
    /\ pc = "publish"
    /\ secret' = got
    /\ mem' = Synced(mem)
    /\ pc' = "finish"
    /\ UNCHANGED <<clockVars, obj, got, broker, faults>>

-----------------------------------------------------------------------------

Return ==
    /\ pc' = "idle"
    /\ next' = now + Poll
    /\ mem' = NewObject
    /\ got' = NoDates

\* The CRD requires lastTransitionTime of every condition, so the API server
\* refuses the status of a copy that MarkBinding marked.
Storable(o) == o.healthy = ""

\* The last status update; its failure is ignored.
FinishReconcile ==
    /\ pc = "finish"
    /\ \/ /\ Storable(mem)
          /\ obj' = mem
          /\ UNCHANGED faults
       \/ /\ ~Storable(mem)
          /\ UNCHANGED <<obj, faults>>
       \/ /\ Fault
          /\ UNCHANGED obj
    /\ Return
    /\ UNCHANGED <<site, now, started, broker, secret>>

Crash ==
    /\ pc # "idle"
    /\ Fault
    /\ Return
    /\ UNCHANGED <<site, now, started, obj, broker, secret>>

Next ==
    \/ Tick \/ BrokerForgets
    \/ StartReconcile \/ PollBindingLastOperation \/ GetBinding \/ CheckRenewal
    \/ CheckExpiry \/ PublishObserved \/ MarkCreatePending \/ Bind \/ Annotate
    \/ Rotate \/ PublishRotated \/ FinishReconcile \/ Crash

Spec == Init /\ [][Next]_vars

-----------------------------------------------------------------------------
(* Properties.  A creation interrupted between its two annotations is left  *)
(* to the user by the runtime; brokers that tell no renewBefore are         *)
(* excepted, as HandleRenewalBindings never looks at their expiresAt.       *)

\* A reconcile and the wait before it, once for each that may fail, and once
\* more for the one that had read the clock too early.
Slack == (MaxFaults + 1) * (Poll + Latency) + Latency

Interrupted == obj.create = "pending" /\ pc \notin {"bind", "annotate"}

\* NeverExpired: if bindings are rotated, at once, and the broker opens the
\* renewal window Slack before expiry and lets credentials live a reconcile
\* and a wait longer, then the published ones are never expired ones, although
\* the new name is lost, every reconcile rotates the first binding again, and
\* that one expires and goes.
NeverExpired ==
    site.rotate /\ site.format = "both" /\ ~site.async /\ ~site.refuses
    /\ secret # NoDates /\ ~Interrupted
        => now <= secret.expires

RenewalFails ==
    \/ site.format = "badExpiry"
    \/ site.format = "both" /\ site.rotate /\ site.async

\* RenewalFailureReported: if renewal cannot succeed, because the date of the
\* expiry is malformed or because the poll of an asynchronous rotation fails
\* for ever, the stored object says so within Slack and a reconcile of the
\* renewal date of the published credentials, whatever was lost.  (For the
\* rotation the window must be as wide as Slack: from the expiry on its status
\* is refused, it is begun again by every reconcile and never reported.)
RenewalFailureReported ==
    RenewalFails /\ secret # NoDates
    /\ now > secret.renew + Slack + Poll + Latency
        => obj.synced = "no"

\* DatesShown: without rotation the dates in the stored status become those
\* of the published credentials, also after an expired binding was made again
\* under the same name, if these are not due for renewal before Slack: while
\* they are, the status is refused and the dates of the expired ones stay.
\* (With rotation they stay the first binding's.)
DatesShown ==
    ~site.rotate /\ site.format = "both" /\ secret # NoDates /\ ~Interrupted
    /\ now > secret.expires - Life + Slack
        => obj.meta = secret
=============================================================================
