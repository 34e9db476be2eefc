------------------------ MODULE ProviderConfigsProofs ------------------------
(***************************************************************************)
(* A ProviderConfig that objects were relying on when it was deleted stays *)
(* for them: KeptForUsers holds for any number of objects, configurations, *)
(* workers, edits and faults.                                              *)
(*                                                                         *)
(* The ProviderConfig controller sees an object only by its usage, through *)
(* a cache.  So the invariant says that nothing on the way to that cache   *)
(* can still name another configuration: not the object, not the copy a    *)
(* reconcile is about to record, not the usage.                            *)
(***************************************************************************)
EXTENDS ProviderConfigs, TLAPS

\* Everything between x and the count of c's users names c.
CountedFor(x, c) ==
    /\ object[x].phase \in {"live", "deleted"}
    /\ object[x].held
    /\ object[x].ref = c
    /\ usage[x] = c
    /\ usageCache[x] = c
    /\ step[x] = "track" => mem[x].ref = c

\* The objects relied on are counted, and c is not about to be freed.
ReliedInv ==
    \A c \in Configs : \A x \in relied[c] :
        /\ CountedFor(x, c)
        /\ config[c].phase = "deleted"
        /\ account[c] # "free"

\* What the controller is about to write fits the configuration it read.
AccountInv ==
    \A c \in Configs :
        /\ account[c] = "hold" => config[c].phase = "live"
        /\ account[c] = "free" => config[c].phase = "deleted"

\* A reconcile that runs has read an object.
CopyInv == \A x \in Objects : step[x] # "idle" => mem[x] \in ObjectRecords

KInv == TypeOK /\ CopyInv /\ ReliedInv /\ AccountInv

-----------------------------------------------------------------------------
(* Types *)

\* The steps of an object and of its reconcile keep the types.
LEMMA ObjectTypes ==
    ASSUME TypeOK, CopyInv, NEW x \in Objects,
           User(x) \/ StartReconcile(x) \/ Continue(x) \/ CollectUsage(x)
           \/ UsageSync(x)
    PROVE  TypeOK'
<1> USE ConstantsAssumption
<1>1. CASE UserCreates(x)
  BY <1>1 DEF UserCreates, TypeOK, ObjectRecords, NoObject, objectVars
<1>2. CASE UserEditsRef(x)
  <2>1. object[x] \in ObjectRecords
    BY <1>2 DEF UserEditsRef, Exists, TypeOK, NoObject
  <2>2. PICK c \in Configs :
          object' = [object EXCEPT ![x] = [@ EXCEPT !.ref = c]]
    BY <1>2 DEF UserEditsRef
  <2>3. [object[x] EXCEPT !.ref = c] \in ObjectRecords
    BY <2>1 DEF ObjectRecords
  <2>4. object' \in [Objects -> ObjectRecords \cup {NoObject}]
    BY <2>2, <2>3 DEF TypeOK
  <2> QED
    BY <1>2, <2>4 DEF UserEditsRef, Edit, Forgotten, TypeOK, objectVars
<1>3. CASE UserDeletes(x)
  <2>1. object[x] \in ObjectRecords
    BY <1>3 DEF UserDeletes, TypeOK, NoObject
  <2>2. [object[x] EXCEPT !.phase = "deleted"] \in ObjectRecords
    BY <2>1 DEF ObjectRecords
  <2>3. object' \in [Objects -> ObjectRecords \cup {NoObject}]
    BY <1>3, <2>2 DEF UserDeletes, TypeOK
  <2>4. relied' \in [Configs -> SUBSET Objects]
    BY <1>3 DEF UserDeletes, Forgotten, TypeOK
  <2> QED
    BY <1>3, <2>3, <2>4 DEF UserDeletes, TypeOK, objectVars
<1>4. CASE StartReconcile(x)
  BY <1>4 DEF StartReconcile, Exists, TypeOK, Steps
<1>5. CASE Track(x)
  <2>1. mem[x].ref \in Configs \cup {NoConfig}
    BY DEF TypeOK, ObjectRecords, NoObject
  <2>2. usage' \in [Objects -> Configs \cup {NoConfig}]
    BY <1>5, <2>1 DEF Track, TypeOK
  <2>3. mem' \in [Objects -> ObjectRecords \cup {NoObject}]
    BY <1>5 DEF Track, Goto, Return, TypeOK
  <2>4. /\ step' \in [Objects -> Steps]
        /\ timeout' \in [Objects -> Timeouts \cup {0}]
    BY <1>5 DEF Track, Goto, Return, TypeOK, Steps
  <2>5. faults' \in 0..MaxFaults
    BY <1>5 DEF Track, Fault, TypeOK
  <2> QED
    BY <1>5, <2>2, <2>3, <2>4, <2>5 DEF Track, TypeOK
<1>6. CASE ResolveProviderConfig(x)
  <2>1. mem[x].ref \in Configs
    BY <1>6 DEF ResolveProviderConfig, CopyInv, ObjectRecords
  <2>2. config[mem[x].ref].timeout \in Timeouts
    BY <2>1 DEF TypeOK, ConfigRecords
  <2>3. mem' \in [Objects -> ObjectRecords \cup {NoObject}]
    BY <1>6 DEF ResolveProviderConfig, NewOsbClient, Return, TypeOK
  <2>4. /\ step' \in [Objects -> Steps]
        /\ timeout' \in [Objects -> Timeouts \cup {0}]
    BY <1>6, <2>2 DEF ResolveProviderConfig, NewOsbClient, GetTimeout, Return,
         TypeOK, Steps
  <2> QED
    BY <1>6, <2>3, <2>4 DEF ResolveProviderConfig, TypeOK
<1>7. CASE Call(x)
  <2>1. mem[x] \in ObjectRecords
    BY <1>7 DEF Call, CopyInv
  <2>2. [mem[x] EXCEPT !.held = TRUE] \in ObjectRecords
    BY <2>1 DEF ObjectRecords
  <2>3. object' \in [Objects -> ObjectRecords \cup {NoObject}]
    <3>1. CASE UNCHANGED object
      BY <3>1 DEF TypeOK
    <3>2. CASE /\ mem[x] = object[x]
               /\ object' = [object EXCEPT ![x].held = TRUE]
      BY <2>2, <3>2 DEF TypeOK
    <3>3. CASE object' = [object EXCEPT ![x] = NoObject]
      BY <3>3 DEF TypeOK
    <3> QED
      BY <1>7, <3>1, <3>2, <3>3 DEF Call, WriteFinalizer
  <2>4. relied' \in [Configs -> SUBSET Objects]
    BY <1>7 DEF Call, WriteFinalizer, Forgotten, TypeOK
  <2>5. mem' \in [Objects -> ObjectRecords \cup {NoObject}]
    BY <1>7 DEF Call, Goto, Return, TypeOK
  <2>6. /\ step' \in [Objects -> Steps]
        /\ timeout' \in [Objects -> Timeouts \cup {0}]
    BY <1>7 DEF Call, Goto, Return, TypeOK, Steps
  <2>7. faults' \in 0..MaxFaults
    BY <1>7 DEF Call, Fault, TypeOK
  <2> QED
    BY <1>7, <2>3, <2>4, <2>5, <2>6, <2>7 DEF Call, TypeOK
<1>8. CASE TimeOut(x)
  BY <1>8 DEF TimeOut, Return, TypeOK, Steps
<1>9. CASE CollectUsage(x)
  BY <1>9 DEF CollectUsage, TypeOK, objectVars
<1>10. CASE UsageSync(x)
  BY <1>10 DEF UsageSync, TypeOK, objectVars
<1> QED
  BY <1>1, <1>2, <1>3, <1>4, <1>5, <1>6, <1>7, <1>8, <1>9, <1>10 DEF User,
       Continue, Connect

\* A reconcile that runs goes on having its copy.
LEMMA Copies ==
    ASSUME TypeOK, CopyInv, NEW x \in Objects,
           User(x) \/ StartReconcile(x) \/ Continue(x) \/ CollectUsage(x)
           \/ UsageSync(x)
    PROVE  CopyInv'
<1>1. CASE User(x)
  BY <1>1 DEF User, UserCreates, UserEditsRef, UserDeletes, CopyInv, objectVars
<1>2. CASE StartReconcile(x)
  BY <1>2 DEF StartReconcile, Exists, CopyInv, TypeOK, NoObject
<1>3. CASE Continue(x)
  BY <1>3 DEF Continue, Connect, Track, ResolveProviderConfig, NewOsbClient,
       Call, TimeOut, Goto, Return, CopyInv, TypeOK
<1>4. CASE CollectUsage(x) \/ UsageSync(x)
  BY <1>4 DEF CollectUsage, UsageSync, CopyInv, objectVars
<1> QED
  BY <1>1, <1>2, <1>3, <1>4

\* What happens to a configuration keeps the types.
LEMMA ConfigTypes ==
    ASSUME TypeOK, NEW c \in Configs, UserOfConfig(c) \/ Reconcile(c)
    PROVE  TypeOK'
<1> USE ConstantsAssumption
<1>1. CASE UserCreatesConfig(c)
  BY <1>1 DEF UserCreatesConfig, Edit, Refused, NewConfig, TypeOK,
       ConfigRecords, objectVars
<1>2. CASE UserEditsConfig(c)
  <2>1. config[c] \in ConfigRecords
    BY DEF TypeOK
  <2>2. [config[c] EXCEPT !.usable = ~config[c].usable] \in ConfigRecords
    BY <2>1 DEF ConfigRecords
  <2>3. config' \in [Configs -> ConfigRecords]
    BY <1>2, <2>2 DEF UserEditsConfig, TypeOK
  <2> QED
    BY <1>2, <2>3 DEF UserEditsConfig, Edit, Refused, TypeOK, objectVars
<1>3. CASE UserDeletesConfig(c)
  BY <1>3 DEF UserDeletesConfig, Refused, Served, TypeOK, ConfigRecords,
       objectVars
<1>4. CASE Account(c)
  BY <1>4 DEF Account, TypeOK, objectVars
<1>5. CASE Settle(c)
  <2>1. config[c] \in ConfigRecords
    BY DEF TypeOK
  <2>2. /\ [config[c] EXCEPT !.held = TRUE] \in ConfigRecords
        /\ [config[c] EXCEPT !.phase = "absent", !.held = FALSE]
              \in ConfigRecords
    BY <2>1 DEF ConfigRecords
  <2>3. config' \in [Configs -> ConfigRecords]
    BY <1>5, <2>2 DEF Settle, TypeOK
  <2> QED
    BY <1>5, <2>3 DEF Settle, TypeOK, objectVars
<1> QED
  BY <1>1, <1>2, <1>3, <1>4, <1>5 DEF UserOfConfig, Reconcile

-----------------------------------------------------------------------------
(* Who is relied on *)

\* No step of an object, or of its reconcile, makes a configuration lose
\* count of an object that relies on it.
LEMMA ObjectSteps ==
    ASSUME KInv, NEW x \in Objects,
           User(x) \/ StartReconcile(x) \/ Continue(x) \/ CollectUsage(x)
           \/ UsageSync(x)
    PROVE  ReliedInv' /\ AccountInv'
<1> USE DEF KInv
<1>1. CASE UserCreates(x)
  BY <1>1 DEF UserCreates, TypeOK, ReliedInv, AccountInv, CountedFor,
       objectVars
<1>2. CASE UserEditsRef(x)
  BY <1>2 DEF UserEditsRef, Exists, Forgotten, TypeOK, ReliedInv, AccountInv,
       CountedFor, objectVars
<1>3. CASE UserDeletes(x)
  BY <1>3 DEF UserDeletes, Forgotten, TypeOK, ReliedInv, AccountInv,
       CountedFor, objectVars,
       NoObject, ObjectRecords
<1>4. CASE StartReconcile(x)
  BY <1>4 DEF StartReconcile, TypeOK, ReliedInv, AccountInv, CountedFor
<1>5. CASE Track(x)
  BY <1>5 DEF Track, Goto, Return, TypeOK, ReliedInv, AccountInv, CountedFor
<1>6. CASE ResolveProviderConfig(x)
  BY <1>6 DEF ResolveProviderConfig, NewOsbClient, Return, TypeOK, ReliedInv,
       AccountInv, CountedFor
<1>7. CASE Call(x)
  BY <1>7 DEF Call, WriteFinalizer, Forgotten, Goto, Return, TypeOK,
       ReliedInv, AccountInv, CountedFor,
       NoObject, ObjectRecords
<1>8. CASE TimeOut(x)
  BY <1>8 DEF TimeOut, Return, TypeOK, ReliedInv, AccountInv, CountedFor
<1>9. CASE CollectUsage(x)
  BY <1>9 DEF CollectUsage, TypeOK, ReliedInv, AccountInv, CountedFor,
       objectVars
<1>10. CASE UsageSync(x)
  BY <1>10 DEF UsageSync, TypeOK, ReliedInv, AccountInv, CountedFor,
       objectVars
<1> QED
  BY <1>1, <1>2, <1>3, <1>4, <1>5, <1>6, <1>7, <1>8, <1>9, <1>10 DEF User,
       Continue, Connect

\* A configuration is freed only when nobody is counted, and none is about to
\* be freed when the user deletes it.
LEMMA ConfigSteps ==
    ASSUME KInv, NEW c \in Configs, UserOfConfig(c) \/ Reconcile(c)
    PROVE  ReliedInv' /\ AccountInv'
<1> USE DEF KInv
<1>1. CASE UserCreatesConfig(c)
  BY <1>1 DEF UserCreatesConfig, Refused, NewConfig, TypeOK, ReliedInv,
       AccountInv, CountedFor, objectVars
<1>2. CASE UserEditsConfig(c)
  BY <1>2 DEF UserEditsConfig, Refused, TypeOK, ReliedInv, AccountInv,
       CountedFor, objectVars
<1>3. CASE UserDeletesConfig(c)
  BY <1>3 DEF UserDeletesConfig, Refused, Served, Exists, TypeOK, ReliedInv,
       AccountInv, CountedFor, objectVars
<1>4. CASE Account(c)
  BY <1>4 DEF Account, Users, TypeOK, ReliedInv, AccountInv, CountedFor,
       objectVars
<1>5. CASE Settle(c)
  BY <1>5 DEF Settle, TypeOK, ReliedInv, AccountInv, CountedFor, objectVars
<1> QED
  BY <1>1, <1>2, <1>3, <1>4, <1>5 DEF UserOfConfig, Reconcile

\* A restart forgets copies and what was about to be written, nothing stored.
LEMMA RestartStep ==
    ASSUME KInv, Restart
    PROVE  KInv'
<1> USE ConstantsAssumption
<1>1. TypeOK'
  BY DEF KInv, Restart, Fault, TypeOK, NoObject, Steps
<1>2. CopyInv' /\ ReliedInv' /\ AccountInv'
  BY DEF KInv, Restart, Fault, TypeOK, CopyInv, ReliedInv, AccountInv,
       CountedFor
<1> QED
  BY <1>1, <1>2 DEF KInv

-----------------------------------------------------------------------------
(* The invariant *)

\* The invariant of provider_configs, with what makes it inductive.
THEOREM KeptInductive == Spec => []KInv
<1>1. Init => KInv
  <2> SUFFICES ASSUME Init PROVE KInv
    OBVIOUS
  <2>1. TypeOK
    BY ConstantsAssumption
    DEF Init, TypeOK, NewConfig, NewObject, ConfigRecords,
        ObjectRecords, NoObject, Steps
  <2>2. CopyInv /\ ReliedInv /\ AccountInv
    BY DEF Init, CopyInv, ReliedInv, AccountInv
  <2> QED
    BY <2>1, <2>2 DEF KInv
<1>2. KInv /\ [Next]_vars => KInv'
  <2> SUFFICES ASSUME KInv, [Next]_vars PROVE KInv'
    OBVIOUS
  <2>1. CASE Next
    <3>1. ASSUME NEW x \in Objects,
                 User(x) \/ StartReconcile(x) \/ Continue(x)
                 \/ CollectUsage(x) \/ UsageSync(x)
          PROVE  KInv'
      BY <3>1, ObjectTypes, Copies, ObjectSteps DEF KInv
    <3>2. ASSUME NEW c \in Configs, UserOfConfig(c) \/ Reconcile(c)
          PROVE  KInv'
      <4>1. CopyInv'
        BY <3>2 DEF KInv, CopyInv, UserOfConfig, UserCreatesConfig,
             UserEditsConfig, UserDeletesConfig, Reconcile, Account, Settle,
             objectVars
      <4> QED
        BY <3>2, <4>1, ConfigTypes, ConfigSteps DEF KInv
    <3>3. CASE Restart
      BY <3>3, RestartStep
    <3> QED
      BY <2>1, <3>1, <3>2, <3>3 DEF Next
  <2>2. CASE UNCHANGED vars
    BY <2>2 DEF vars, KInv, TypeOK, CopyInv, ReliedInv, AccountInv, CountedFor
  <2> QED
    BY <2>1, <2>2
<1> QED
  BY <1>1, <1>2, PTL DEF Spec

\* KeptForUsers: a ProviderConfig deleted while objects relied on it is there
\* until the last of them has gone or turned to another.
THEOREM KeptForAllUsers == Spec => []KeptForUsers
<1>1. KInv => KeptForUsers
  BY DEF KInv, ReliedInv, KeptForUsers, TypeOK
<1> QED
  BY <1>1, KeptInductive, PTL

\* TypeOK: what objects, usages and configurations are stays of its kind.
THEOREM ConfigTypeCorrect == Spec => []TypeOK
<1>1. KInv => TypeOK
  BY DEF KInv
<1> QED
  BY <1>1, KeptInductive, PTL
=============================================================================
