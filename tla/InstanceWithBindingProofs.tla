---------------------- MODULE InstanceWithBindingProofs ----------------------
(***************************************************************************)
(* What was proved of the ServiceBinding controller alone holds beside a   *)
(* reconciled instance: on the binding's side the composition is           *)
(* ServiceBinding with the instance in other hands (OpenSpec), for which   *)
(* ServiceBindingProofs has its theorems.                                  *)
(***************************************************************************)
EXTENDS InstanceWithBinding, ServiceBindingProofs

\* Steps of the composition, on the binding's side.
LEMMA StepsOfBinding == [NextBoth]_allVars => [OpenNext]_vars
<1> SUFFICES ASSUME [NextBoth]_allVars PROVE [OpenNext]_vars
  OBVIOUS
<1>1. CASE InstanceStep(I!Next)
  BY <1>1 DEF InstanceStep, OpenNext, Next, InstanceTaken
<1>2. CASE BindingStep(NextOfBinding)
  BY <1>2 DEF BindingStep, NextOfBinding, OpenNext, Next
<1>3. CASE UNCHANGED allVars
  BY <1>3 DEF allVars
<1> QED BY <1>1, <1>2, <1>3 DEF NextBoth

\* The binding's side meets nothing that OpenSpec does not admit.
LEMMA BindingOpen == SpecBoth => OpenSpec
<1>1. InitBoth => Init
  BY DEF InitBoth
<1> QED BY <1>1, StepsOfBinding, PTL DEF SpecBoth, OpenSpec

\* Beside a reconciled instance, of whatever broker, a binding is asked for
\* only once finalizer and mark are stored (Bind), and renewed only for an
\* object that is held (Rotate); TypeOK of the binding's side.
THEOREM BoundInstanceSafe ==
    SpecBoth => []TypeOK /\ BindLeavesEvidence /\ RotateOnlyHeld
<1> QED BY BindingOpen, OpenTypes, OpenBinds, OpenRotates, PTL

\* However the deletions of instance and binding cross, no binding is left
\* under the name of an object that is gone (RemoveFinalizer), if the broker
\* binds at once.
THEOREM BoundInstanceLeavesNothing ==
    ASSUME BindModes \subseteq {"sync"}
    PROVE  SpecBoth => []NoOrphan
<1> QED BY BindingOpen, OpenOrphans, PTL

\* And the binding's controller (Bind, Unbind) implements ManagedLifecycle
\* there too, if the broker answers it at once, as in bound_instance.
THEOREM BoundInstanceRefines ==
    ASSUME BrokerModes \subseteq {"sync"}
    PROVE  SpecBoth => Lifecycle /\ UnbindOnlyWhenDeleted
<1> QED BY BindingOpen, OpenRefines, OpenUnbinds, PTL
=============================================================================
