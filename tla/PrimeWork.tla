------------------------------ MODULE PrimeWork ------------------------------
(***************************************************************************)
(* What the prime-number programs promise, however they share the work     *)
(* out: each number is tested once, exactly the primes are reported, and a *)
(* main thread or process that says it is over has waited for all of it.   *)
(***************************************************************************)
EXTENDS Integers

CONSTANT Numbers

VARIABLES tested, printed, over

vars == <<tested, printed, over>>

Prime(k) == k > 1 /\ \A d \in 2 .. k - 1 : k % d # 0

Init ==
    /\ tested = [k \in Numbers |-> 0]
    /\ printed = {}
    /\ over = FALSE

Test(k) ==
    /\ tested[k] = 0
    /\ tested' = [tested EXCEPT ![k] = 1]
    /\ printed' = IF Prime(k) THEN printed \cup {k} ELSE printed
    /\ UNCHANGED over

Finish ==
    /\ \A k \in Numbers : tested[k] = 1
    /\ over' = TRUE
    /\ UNCHANGED <<tested, printed>>

Next == Finish \/ \E k \in Numbers : Test(k)

Spec == Init /\ [][Next]_vars
=============================================================================
