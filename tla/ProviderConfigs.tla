--------------------------- MODULE ProviderConfigs ---------------------------
(***************************************************************************)
(* What the managed objects of one controller share: the configurations    *)
(* they connect with, the usages that keep a configuration in being, and   *)
(* the workers.  What a reconcile does once it has a client is in          *)
(* ServiceInstance and ServiceBinding; here it is one call of the broker,  *)
(* which may never return, and the finalizer it then adds or removes.      *)
(*                                                                         *)
(* Connect goes before everything else in a reconcile, that of a deleted   *)
(* object included: an object whose configuration is gone cannot go.       *)
(***************************************************************************)
EXTENDS Naturals, FiniteSets

CONSTANTS
    Objects,        \* managed objects, each with a UID of its own
    Configs,        \* names of configurations of either kind
    ClusterConfigs, \* those that are ClusterProviderConfigs
    NoConfig,
    Workers,        \* MaxConcurrentReconciles
    Timeouts,       \* values of spec.timeout: 0 is none at all
    MaxEdits,       \* bound: changes of references and configurations
    MaxFaults       \* bound: restarts, failed requests, calls that hang

ASSUME ConstantsAssumption ==
    /\ ClusterConfigs \subseteq Configs
    /\ NoConfig \notin Configs
    /\ Workers \in Nat \ {0}
    /\ Timeouts \subseteq Nat
    /\ MaxEdits \in Nat
    /\ MaxFaults \in Nat

-----------------------------------------------------------------------------
(* Data *)

ProviderConfigs == Configs \ ClusterConfigs

\* "usable": its credentials can be read and decoded.  "held": the finalizer
\* of the ProviderConfig controller is on it.
ConfigRecords == [phase: {"absent", "live", "deleted"}, held: BOOLEAN,
                  usable: BOOLEAN, timeout: Timeouts]

NewConfig(t) == [phase |-> "live", held |-> FALSE, usable |-> TRUE,
                 timeout |-> t]

\* spec.providerConfigRef, which has a default and so is never nil.
ObjectRecords == [phase: {"unborn", "live", "deleted"}, held: BOOLEAN,
                  ref: Configs]

\* Objects are created with the default reference and edited later.
NewObject(c) == [phase |-> "unborn", held |-> FALSE, ref |-> c]

\* An object that is gone, and the copy of a reconcile that does not run.
NoObject == [phase |-> "gone", held |-> FALSE, ref |-> NoConfig]

Steps == {"idle", "track", "resolve", "call", "hung"}

VARIABLES
    config,         \* the stored configurations
    object,         \* the stored objects
    usage,          \* the ProviderConfigUsage of an object names a config
    usageCache,     \* the same, as the ProviderConfig controller sees it
    step, mem,      \* of an object: next step of its reconcile, its copy
    timeout,        \* of its client
    account,        \* of a config: what its controller is about to write
    relied,         \* history: the objects a config was serving, to the
                    \* knowledge of its controller, when the user deleted it,
                    \* and that are still there and refer to it
    edits, faults

vars == <<config, object, usage, usageCache, step, mem, timeout, account,
          relied, edits, faults>>

objectVars == <<step, mem, timeout>>

TypeOK ==
    /\ config \in [Configs -> ConfigRecords]
    /\ object \in [Objects -> ObjectRecords \cup {NoObject}]
    /\ usage \in [Objects -> Configs \cup {NoConfig}]
    /\ usageCache \in [Objects -> Configs \cup {NoConfig}]
    /\ step \in [Objects -> Steps]
    /\ mem \in [Objects -> ObjectRecords \cup {NoObject}]
    /\ timeout \in [Objects -> Timeouts \cup {0}]
    /\ account \in [Configs -> {"idle", "hold", "free"}]
    /\ relied \in [Configs -> SUBSET Objects]
    /\ edits \in 0..MaxEdits
    /\ faults \in 0..MaxFaults

Init ==
    /\ \E t \in Timeouts : config = [c \in Configs |-> NewConfig(t)]
    /\ \E c \in Configs : object = [x \in Objects |-> NewObject(c)]
    /\ usage = [x \in Objects |-> NoConfig]
    /\ usageCache = [x \in Objects |-> NoConfig]
    /\ step = [x \in Objects |-> "idle"]
    /\ mem = [x \in Objects |-> NoObject]
    /\ timeout = [x \in Objects |-> 0]
    /\ account = [c \in Configs |-> "idle"]
    /\ relied = [c \in Configs |-> {}]
    /\ edits = 0
    /\ faults = 0

-----------------------------------------------------------------------------
(* The user *)

Edit ==
    /\ edits < MaxEdits
    /\ edits' = edits + 1

Exists(x) == object[x].phase \in {"live", "deleted"}

UserCreates(x) ==
    /\ object[x].phase = "unborn"
    /\ object' = [object EXCEPT ![x].phase = "live"]
    /\ UNCHANGED <<config, usage, usageCache, objectVars, account, relied,
                   edits, faults>>

Forgotten(x) == relied' = [c \in Configs |-> relied[c] \ {x}]

UserEditsRef(x) ==
    /\ Exists(x)
    /\ Edit
    /\ \E c \in Configs \ {object[x].ref} :
          object' = [object EXCEPT ![x].ref = c]
    /\ Forgotten(x)
    /\ UNCHANGED <<config, usage, usageCache, objectVars, account, faults>>

UserDeletes(x) ==
    /\ object[x].phase = "live"
    /\ IF object[x].held
         THEN /\ object' = [object EXCEPT ![x].phase = "deleted"]
              /\ UNCHANGED relied
         ELSE /\ object' = [object EXCEPT ![x] = NoObject]
              /\ Forgotten(x)
    /\ UNCHANGED <<config, usage, usageCache, objectVars, account, edits,
                   faults>>

\* What the ProviderConfig controller was about to write is from an old copy.
Refused(c) == account' = [account EXCEPT ![c] = "idle"]

UserCreatesConfig(c) ==
    /\ config[c].phase = "absent"
    /\ Edit
    /\ \E t \in Timeouts : config' = [config EXCEPT ![c] = NewConfig(t)]
    /\ relied' = [relied EXCEPT ![c] = {}]
    /\ Refused(c)
    /\ UNCHANGED <<object, usage, usageCache, objectVars, faults>>

\* The credentials are spoilt, or repaired.
UserEditsConfig(c) ==
    /\ config[c].phase # "absent"
    /\ Edit
    /\ config' = [config EXCEPT ![c].usable = ~@]
    /\ Refused(c)
    /\ UNCHANGED <<object, usage, usageCache, objectVars, relied, faults>>

\* The objects that depend on c and that the controller of c knows of.
Served(c) ==
    {x \in Objects :
        /\ object[x].held /\ Exists(x)
        /\ c = object[x].ref
        /\ c = usage[x]
        /\ c = usageCache[x]
        /\ step[x] = "track" => c = mem[x].ref}

UserDeletesConfig(c) ==
    /\ config[c].phase = "live"
    /\ config' = [config EXCEPT
                    ![c].phase = IF config[c].held THEN "deleted" ELSE "absent"]
    /\ relied' = [relied EXCEPT ![c] = IF config[c].held THEN Served(c) ELSE {}]
    /\ Refused(c)
    /\ UNCHANGED <<object, usage, usageCache, objectVars, edits, faults>>

-----------------------------------------------------------------------------
(* Connect, and the rest of the reconcile of an object *)

Goto(x, s) ==
    /\ step' = [step EXCEPT ![x] = s]
    /\ UNCHANGED <<mem, timeout>>

\* The reconcile ends; it is queued again if the object is still there.
Return(x) ==
    /\ step' = [step EXCEPT ![x] = "idle"]
    /\ mem' = [mem EXCEPT ![x] = NoObject]
    /\ timeout' = [timeout EXCEPT ![x] = 0]

Fault ==
    /\ faults < MaxFaults
    /\ faults' = faults + 1

StartReconcile(x) ==
    /\ step[x] = "idle"
    /\ Exists(x)
    /\ Cardinality({y \in Objects : step[y] # "idle"}) < Workers
    /\ step' = [step EXCEPT ![x] = "track"]
    /\ mem' = [mem EXCEPT ![x] = object[x]]
    /\ UNCHANGED <<config, object, usage, usageCache, timeout, account, relied,
                   edits, faults>>

\* Mutant: a usage is never moved to another configuration.
TrackFirst(x) ==
    /\ step[x] = "track"
    /\ usage' = [usage EXCEPT ![x] = IF @ = NoConfig THEN mem[x].ref ELSE @]
    /\ Goto(x, "resolve")
    /\ UNCHANGED <<config, object, usageCache, account, relied,
                   edits, faults>>

\* Connect first records what the object uses: the usage is written with the
\* reference the reconcile has read.
Track(x) ==
    /\ step[x] = "track"
    /\ \/ /\ usage' = [usage EXCEPT ![x] = mem[x].ref]
          /\ Goto(x, "resolve")
          /\ UNCHANGED faults
       \/ /\ Fault
          /\ Return(x)
          /\ UNCHANGED usage
    /\ UNCHANGED <<config, object, usageCache, account, relied,
                   edits>>

\* decodeB64StringToBasicAuthConfig, on the credentials of c.
DecodesBasicAuth(c) == config[c].usable

\* Mutant: seconds are taken for milliseconds.
TimeoutInMilliseconds(c) == 1000 * config[c].timeout

\* Mutant: the timeout of the configuration is not handed to the client.
TimeoutForgotten(c) == 0

\* The timeout of the client is that of the configuration, 0 if it has none.
GetTimeout(c) == config[c].timeout

NewOsbClient(x, c) ==
    /\ step' = [step EXCEPT ![x] = "call"]
    /\ timeout' = [timeout EXCEPT ![x] = GetTimeout(c)]
    /\ UNCHANGED mem

\* Mutant: no client without a configuration that is not being deleted.
ResolveLiveOnly(x) ==
    LET c == mem[x].ref IN
    /\ step[x] = "resolve"
    /\ IF config[c].phase = "live" /\ DecodesBasicAuth(c)
         THEN NewOsbClient(x, c) ELSE Return(x)
    /\ UNCHANGED <<config, object, usage, usageCache, account, relied, edits,
                   faults>>

\* A configuration of either kind that is stored will do, a deleted one too.
ResolveProviderConfig(x) ==
    LET c == mem[x].ref IN
    /\ step[x] = "resolve"
    /\ IF config[c].phase # "absent" /\ DecodesBasicAuth(c)
         THEN NewOsbClient(x, c) ELSE Return(x)
    /\ UNCHANGED <<config, object, usage, usageCache, account, relied, edits,
                   faults>>

\* AddFinalizer, or RemoveFinalizer, from a copy that must be current.
WriteFinalizer(x) ==
    \/ /\ mem[x] # object[x]
       /\ UNCHANGED <<object, relied>>
    \/ /\ mem[x] = object[x]
       /\ mem[x].phase = "live"
       /\ object' = [object EXCEPT ![x].held = TRUE]
       /\ UNCHANGED relied
    \/ /\ mem[x] = object[x]
       /\ mem[x].phase = "deleted"
       /\ object' = [object EXCEPT ![x] = NoObject]
       /\ Forgotten(x)

\* The broker answers and the finalizer is written; or it never answers.
Call(x) ==
    /\ step[x] = "call"
    /\ \/ /\ WriteFinalizer(x)
          /\ Return(x)
          /\ UNCHANGED faults
       \/ /\ Fault
          /\ Goto(x, "hung")
          /\ UNCHANGED <<object, relied>>
    /\ UNCHANGED <<config, usage, usageCache, account, edits>>

TimeOut(x) ==
    /\ step[x] = "hung"
    /\ timeout[x] > 0
    /\ Return(x)
    /\ UNCHANGED <<config, object, usage, usageCache, account, relied, edits,
                   faults>>

\* The usage belongs to the object and is collected after it.
CollectUsage(x) ==
    /\ object[x].phase = "gone"
    /\ usage[x] # NoConfig
    /\ usage' = [usage EXCEPT ![x] = NoConfig]
    /\ UNCHANGED <<config, object, usageCache, objectVars, account, relied,
                   edits, faults>>

-----------------------------------------------------------------------------
(* The ProviderConfig controller *)

UsageSync(x) ==
    /\ usageCache[x] # usage[x]
    /\ usageCache' = [usageCache EXCEPT ![x] = usage[x]]
    /\ UNCHANGED <<config, object, usage, objectVars, account, relied, edits,
                   faults>>

\* Mutant: the users are counted only after the finalizer is off.
UsersUncounted(c) == {}

Users(c) == {x \in Objects : usageCache[x] = c}

\* Reads the configuration and lists its usages.  Setup registers this for
\* ProviderConfigs; nothing accounts for ClusterProviderConfigs.
Account(c) ==
    /\ c \in ProviderConfigs
    /\ account[c] = "idle"
    /\ \/ /\ config[c].phase = "live"
          /\ ~config[c].held
          /\ account' = [account EXCEPT ![c] = "hold"]
       \/ /\ config[c].phase = "deleted"
          /\ Users(c) = {}
          /\ account' = [account EXCEPT ![c] = "free"]
    /\ UNCHANGED <<config, object, usage, usageCache, objectVars, relied,
                   edits, faults>>

\* The finalizer is written.  A configuration that changed since was read
\* refuses the write: Refused, above.
Settle(c) ==
    /\ account[c] # "idle"
    /\ account' = [account EXCEPT ![c] = "idle"]
    /\ \/ /\ account[c] = "hold"
          /\ config' = [config EXCEPT ![c].held = TRUE]
       \/ /\ account[c] = "free"
          /\ config' = [config EXCEPT ![c].phase = "absent", ![c].held = FALSE]
    /\ UNCHANGED <<object, usage, usageCache, objectVars, relied, edits, faults>>

\* The provider restarts.
Restart ==
    /\ Fault
    /\ step' = [x \in Objects |-> "idle"]
    /\ account' = [c \in Configs |-> "idle"]
    /\ mem' = [x \in Objects |-> NoObject]
    /\ timeout' = [x \in Objects |-> 0]
    /\ UNCHANGED <<config, object, usage, usageCache, relied, edits>>

-----------------------------------------------------------------------------

User(x) == UserCreates(x) \/ UserEditsRef(x) \/ UserDeletes(x)

UserOfConfig(c) == UserCreatesConfig(c) \/ UserEditsConfig(c)
                   \/ UserDeletesConfig(c)

Connect(x) == Track(x) \/ ResolveProviderConfig(x)

Continue(x) == Connect(x) \/ Call(x) \/ TimeOut(x)

Reconcile(c) == Account(c) \/ Settle(c)

Next ==
    \/ \E x \in Objects : \/ User(x) \/ StartReconcile(x) \/ Continue(x)
                          \/ CollectUsage(x) \/ UsageSync(x)
    \/ \E c \in Configs : UserOfConfig(c) \/ Reconcile(c)
    \/ Restart

Spec == Init /\ [][Next]_vars

\* The queue of a controller is first in, first out, so an object waits for a
\* worker only while others hold them all (SF); a reconcile goes on, events
\* arrive, garbage is collected and a configuration in use is looked at again.
FairSpec ==
    /\ Spec
    /\ \A x \in Objects : /\ SF_vars(StartReconcile(x))
                          /\ WF_vars(Continue(x))
                          /\ WF_vars(CollectUsage(x))
                          /\ WF_vars(UsageSync(x))
    /\ \A c \in Configs : WF_vars(Reconcile(c))

-----------------------------------------------------------------------------
(* Properties *)

\* KeptForUsers: a deleted ProviderConfig stays as long as an object stays
\* that it served, to the knowledge of its controller, when it was deleted;
\* whatever the lag of the usages, restarts and other users do meanwhile.
KeptForUsers ==
    \A c \in Configs : relied[c] # {} => config[c].phase = "deleted"

\* BothDeletionsComplete: an object deleted after or before the ProviderConfig
\* that serves it does go, while that waits for it.
BothDeletionsComplete ==
    \A c \in ProviderConfigs, x \in Objects :
        \/ []<>~(x \in relied[c] /\ object[x].phase = "deleted")
        \/ <>[]~config[c].usable

\* ConfigDeletionCompletes: a deleted ProviderConfig goes once no object is
\* left that refers to it, whatever those that did refer to now.
ConfigDeletionCompletes ==
    \A c \in ProviderConfigs :
        \/ []<>(config[c].phase # "deleted")
        \/ <>[](\E x \in Objects : Exists(x) /\ object[x].ref = c)

\* EveryObjectServed: an object's reconcile gets through to its connection
\* again and again, although other objects' brokers never answer.
EveryObjectServed ==
    \A x \in Objects : []<>(step[x] = "resolve" \/ ~Exists(x))
=============================================================================
