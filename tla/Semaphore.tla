------------------------------ MODULE Semaphore ------------------------------
(***************************************************************************)
(* What a counting semaphore promises: each call takes effect exactly once *)
(* between its start and its return, an addition at any moment, a          *)
(* subtraction only when the value covers it.                              *)
(***************************************************************************)
EXTENDS Naturals

CONSTANTS Threads, Amounts, InitVal

VARIABLES
    value,   \* units available
    phase,   \* of each thread: no call, a call not yet effective, effective
    call     \* the call of each thread: its kind and its amount

vars == <<value, phase, call>>

Calls == [op : {"add", "sub"}, n : Amounts]

Init ==
    /\ value = InitVal
    /\ phase = [t \in Threads |-> "out"]
    /\ call \in [Threads -> Calls]

Begin(t) ==
    /\ phase[t] = "out"
    /\ phase' = [phase EXCEPT ![t] = "pending"]
    /\ \E c \in Calls : call' = [call EXCEPT ![t] = c]
    /\ UNCHANGED value

TakesEffect(t) ==
    /\ phase[t] = "pending"
    /\ \/ /\ call[t].op = "add"
          /\ value' = value + call[t].n
       \/ /\ call[t].op = "sub"
          /\ value >= call[t].n
          /\ value' = value - call[t].n
    /\ phase' = [phase EXCEPT ![t] = "done"]
    /\ UNCHANGED call

Return(t) ==
    /\ phase[t] = "done"
    /\ phase' = [phase EXCEPT ![t] = "out"]
    /\ UNCHANGED <<value, call>>

Next == \E t \in Threads : Begin(t) \/ TakesEffect(t) \/ Return(t)

Spec == Init /\ [][Next]_vars
=============================================================================
