---------------------------- MODULE MCPoolDynamic ----------------------------
(* Model-checking instances of PoolDynamic. *)
EXTENDS PoolDynamic, TLC

PidsAndClients == Permutations(Pids) \cup Permutations(Clients)

\* Where symmetry may not be used, for liveness, fork gives out the ids in
\* order: they have no other meaning.
LowestPid == fresh' # fresh /\ fresh' # NoPid =>
    \A p \in Pids : p < fresh' => Alive(p) \/ \E s \in Slots : pid[s] = p
=============================================================================
