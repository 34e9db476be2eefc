---------------------------- MODULE ManagedObject ----------------------------
(***************************************************************************)
(* One managed object and its copies, as both controllers see them: the    *)
(* object the API server stores (obj), the informer cache's (cache,        *)
(* possibly old) and the one the running reconcile works on (mem).  A      *)
(* write to the API server is accepted only from a copy read at the        *)
(* current resourceVersion; memFresh and cacheFresh say that a copy is.    *)
(***************************************************************************)

VARIABLES
    obj, cache, mem,        \* the three copies of the managed object
    cacheFresh, memFresh    \* is the copy at the stored resourceVersion

kubeVars == <<obj, cache, cacheFresh>>

\* The stored object becomes o; the cache has it only after the next event.
Store(o) ==
    /\ obj' = o
    /\ cache' = cache
    /\ cacheFresh' = (cacheFresh /\ o = obj)

\* kube.Status().Update: only the status of mem reaches the stored object.
StatusUpdate == Store([obj EXCEPT !.status = mem.status])
=============================================================================
