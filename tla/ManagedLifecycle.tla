-------------------------- MODULE ManagedLifecycle ---------------------------
(***************************************************************************)
(* What the provider promises about one managed object, a ServiceInstance  *)
(* or a ServiceBinding, and the requests it makes of the broker on its     *)
(* behalf, whatever the order of caches, writes, crashes and replies:      *)
(*   - the external resource is asked for only once the object is held by  *)
(*     the finalizer, and given back only once the object is being         *)
(*     deleted;                                                            *)
(*   - one given back is not asked for again for the same object;          *)
(*   - a held object goes away through deletion only.                      *)
(* It says nothing of how often a request is repeated, nor that it         *)
(* succeeds.  In particular it does not promise that the resource is given *)
(* back at all before the object goes: the code does not (NoOrphan in      *)
(* ServiceInstance).                                                       *)
(***************************************************************************)

VARIABLES
    life,   \* "absent", "new", "held" or "leaving"
    sent    \* the last request made for this object: "", "create", "delete"

vars == <<life, sent>>

Init ==
    /\ life = "absent"
    /\ sent = ""

Create ==
    /\ life = "absent"
    /\ life' = "new"
    /\ UNCHANGED sent

Hold ==
    /\ life = "new"
    /\ life' = "held"
    /\ UNCHANGED sent

Delete ==
    /\ \/ life = "new"  /\ life' = "absent"
       \/ life = "held" /\ life' = "leaving"
    /\ UNCHANGED sent

AskCreate ==
    /\ life \in {"held", "leaving"}
    /\ sent # "delete"
    /\ sent' = "create"
    /\ UNCHANGED life

AskDelete ==
    /\ life = "leaving"
    /\ sent' = "delete"
    /\ UNCHANGED life

Release ==
    /\ life = "leaving"
    /\ life' = "absent"
    /\ sent' = ""

Next == Create \/ Hold \/ Delete \/ AskCreate \/ AskDelete \/ Release

Spec == Init /\ [][Next]_vars
=============================================================================
