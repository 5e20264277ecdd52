------------------------------ MODULE PrimeTest ------------------------------
(***************************************************************************)
(* What the prime-number programs of parallel/thread/posix and of          *)
(* process_basic share: the test each of them makes of a number, and the   *)
(* record of the tests made.  program names the one that runs.             *)
(***************************************************************************)
EXTENDS Integers, Program

CONSTANTS LEFT, RIGHT    \* the numbers to test

\* The test takes 1 and 4 for primes: LEFT is 30000000 in the programs.
ASSUME RangeAssumption == LEFT \in Nat /\ RIGHT \in Nat /\ 4 < LEFT /\ LEFT <= RIGHT

VARIABLES
    tested,    \* how often each number has been tested
    printed    \* those reported to be prime

testVars == <<tested, printed>>

Numbers == LEFT .. RIGHT

InitTest ==
    /\ tested = [k \in Numbers |-> 0]
    /\ printed = {}

\* mark, after the loop over j.
Mark(k) == \A j \in 2 .. (k \div 2) - 1 : k % j # 0

TestNumber(k) ==
    /\ tested' = [tested EXCEPT ![k] = @ + 1]
    /\ printed' = IF Mark(k) THEN printed \cup {k} ELSE printed
=============================================================================
