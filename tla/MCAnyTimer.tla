----------------------------- MODULE MCAnyTimer -----------------------------
(* Model-checking instances of AnyTimer. *)
EXTENDS AnyTimer

\* malloc gives out the lowest free address: addresses have no other meaning.
LowestAddress ==
    \A j \in live' \ live : \A k \in Jobs : k < j => k \in live

\* All but what the last call has returned, on which nothing depends.
ButRet == <<job, live, rec, pc, id, me, handler, timer, history>>
=============================================================================
