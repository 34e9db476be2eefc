------------------------- MODULE InstanceWithBinding -------------------------
(***************************************************************************)
(* A ServiceInstance and a ServiceBinding of it, each reconciled by its    *)
(* controller.  The two objects do not refer to each other: the binding    *)
(* names the instance by the identifier both give the broker, and all the  *)
(* controllers share is the broker.  There the instance comes and goes by  *)
(* steps of the instance controller and of the broker (the variables in i, *)
(* ServiceInstance), which ServiceBinding's instance follows.              *)
(***************************************************************************)
EXTENDS ServiceBinding

CONSTANTS
    IPlans, IParams, BadParams, Contexts, NoContext, NoSpec, IBrokerModes,
    IDisableAsync, ReturnsKey, IMaxEdits, IMaxFaults

VARIABLES
    iObj, iCache, iMem, iCacheFresh, iMemFresh, iPc, iPolled, iInStep, iBroker,
    iSent, iEdits, iFaults

iVars == <<iObj, iCache, iMem, iCacheFresh, iMemFresh, iPc, iPolled, iInStep,
           iBroker, iSent, iEdits, iFaults>>

allVars == <<vars, iVars>>

I == INSTANCE ServiceInstance WITH
        Plans <- IPlans, Params <- IParams, BrokerModes <- IBrokerModes,
        DisableAsync <- IDisableAsync, MaxEdits <- IMaxEdits,
        MaxFaults <- IMaxFaults,
        obj <- iObj, cache <- iCache, mem <- iMem, cacheFresh <- iCacheFresh,
        memFresh <- iMemFresh, pc <- iPc, polled <- iPolled,
        inStep <- iInStep, broker <- iBroker, sent <- iSent, edits <- iEdits,
        faults <- iFaults

-----------------------------------------------------------------------------

InitBoth == Init /\ I!Init

\* A step A on the instance's side, and what becomes of the binding by it:
\* a broker that drops an instance drops what is bound to it.
InstanceStep(A) ==
    /\ A
    /\ \/ /\ iBroker'.present = instance
          /\ UNCHANGED vars
       \/ /\ iBroker'.present # instance
          /\ InstanceComes \/ (InstanceGoes /\ UNCHANGED edits)

\* A step A on the binding's side.
BindingStep(A) == UNCHANGED iVars /\ A

\* No action of ServiceBinding of its own creates or destroys the instance.
NextOfBinding ==
    Reconcile \/ Crash \/ CacheSync \/ User \/ BrokerSucceeds \/ BrokerFails
    \/ BrokerLosesBinding \/ RenewalComes

NextBoth == InstanceStep(I!Next) \/ BindingStep(NextOfBinding)

SpecBoth == InitBoth /\ [][NextBoth]_allVars

\* The fairness of both: the controllers have queues and workers of their own.
FairSpecBoth ==
    /\ SpecBoth
    /\ WF_allVars(InstanceStep(I!Reconcile))
    /\ WF_allVars(InstanceStep(I!CacheSync))
    /\ WF_allVars(InstanceStep(I!BrokerSucceeds))
    /\ WF_allVars(BindingStep(Reconcile))
    /\ WF_allVars(BindingStep(CacheSync))
    /\ WF_allVars(BindingStep(BrokerSucceeds))

-----------------------------------------------------------------------------
(* Properties *)

\* BoundOnceProvisioned: an instance and a binding of it, whichever object is
\* created first, end up as instance, binding and published credentials.
\* (Bind is refused, and retried, until the broker has made the instance.)
BoundOnceProvisioned ==
    <>[](Settled /\ I!Settled /\ ~Stranded
           => /\ iBroker.present
              /\ broker[obj.name].present
              /\ secret = obj.name)

\* BothDeletionsComplete: when both objects are deleted, in whichever order,
\* both go: the binding's deletion does not fail for ever on what the
\* instance's took away at the broker, nor the instance's on what the binding
\* left there.  (ObserveState, IsResourceGone; nothing is said of an instance
\* deleted while its binding stays, for which the comments ask to wait.)
BothDeletionsComplete ==
    /\ []<>~obj.deleted \/ <>[](obj.create = "pending")
    /\ \/ []<>~iObj.deleted
       \/ <>[](iObj.create = "pending")
       \/ <>[](obj.exists /\ ~obj.deleted)

-----------------------------------------------------------------------------
(* What the repository's comments say, and the code does not do *)

\* ActiveBindingsKeepInstance: the broker is not asked to destroy an instance
\* that has a binding.  (A deleted object with a key never gets as far as the
\* check of ObserveState: while its operation runs HandleLastOperationInProgress
\* answers NothingToDo, and the runtime goes on to Delete.)
ActiveBindingsKeepInstance ==
    [][I!Deprovision => ~broker[Name].present]_allVars
=============================================================================
