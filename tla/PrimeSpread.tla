----------------------------- MODULE PrimeSpread -----------------------------
(***************************************************************************)
(* The programs that share the numbers out beforehand: primer0.c and       *)
(* primer0_e.c of parallel/thread/posix give each number to a thread,      *)
(* primer1.c and primer2.c of process_basic to a child process, and        *)
(* primerN.c every Nth number to one of N children.  primer0_e passes the  *)
(* number in allocated memory, which the thread hands back for main to     *)
(* free; primer1 does not wait for its children.                           *)
(***************************************************************************)
EXTENDS PrimeTest

CONSTANTS
    N,             \* the children of primerN
    SpreadFails    \* may malloc, pthread_create and fork fail?

ASSUME SpreadAssumption == N \in 1 .. RIGHT - LEFT + 1 /\ SpreadFails \in BOOLEAN

VARIABLES
    spc,      \* where main is
    n,        \* its loops' variable, counted from 0
    child,    \* what has become of each thread or child process
    ci,       \* the number each of them tests next
    arg       \* primer0_e: what has become of the memory for its number

spreadVars == <<spc, n, child, ci, arg>>

UsesThreads == program \in {"primer0", "primer0_e"}

\* Threads or processes, and the distance between two numbers of one of them.
Stride   == IF program = "primerN" THEN N ELSE RIGHT - LEFT + 1
Children == 0 .. RIGHT - LEFT
Created  == 0 .. Stride - 1

SpreadTypeOK ==
    /\ spc \in {"create", "fork", "wait", "exited", "failed"}
    /\ n \in Nat
    /\ child \in [Children -> {"none", "testing", "ended", "gone"}]
    /\ ci \in [Children -> Nat]
    /\ arg \in [Children -> {"none", "allocated", "freed"}]

SpreadInit ==
    /\ spc = IF program = "primer0_e" THEN "create" ELSE "fork"
    /\ n = 0
    /\ child = [c \in Children |-> "none"]
    /\ ci = [c \in Children |-> 0]
    /\ arg = [c \in Children |-> "none"]

\* Threads end with their process, children do not.
ChildRuns(c) ==
    /\ child[c] = "testing"
    /\ UsesThreads => spc \notin {"exited", "failed"}

\* malloc, for the number n.
Allocate ==
    /\ spc = "create"
    /\ arg' = [arg EXCEPT ![n] = "allocated"]
    /\ spc' = "fork"
    /\ UNCHANGED <<n, child, ci, testVars>>

\* pthread_create or fork.
Fork ==
    /\ spc = "fork"
    /\ child' = [child EXCEPT ![n] = "testing"]
    /\ ci' = [ci EXCEPT ![n] = LEFT + n]
    /\ IF n + 1 < Stride
       THEN /\ n' = n + 1
            /\ spc' = IF program = "primer0_e" THEN "create" ELSE "fork"
       ELSE /\ n' = 0
            /\ spc' = IF program = "primer1" THEN "exited" ELSE "wait"
    /\ UNCHANGED <<arg, testVars>>

ForkFails ==
    /\ SpreadFails
    /\ spc \in {"create", "fork"}
    /\ spc' = "failed"
    /\ UNCHANGED <<n, child, ci, arg, testVars>>

ChildTests(c) ==
    /\ ChildRuns(c)
    /\ ci[c] <= RIGHT
    /\ TestNumber(ci[c])
    /\ ci' = [ci EXCEPT ![c] = @ + Stride]
    /\ UNCHANGED <<spc, n, child, arg>>

ChildEnds(c) ==
    /\ ChildRuns(c)
    /\ ci[c] > RIGHT
    /\ child' = [child EXCEPT ![c] = "ended"]
    /\ UNCHANGED <<spc, n, ci, arg, testVars>>

\* pthread_join takes the threads in order, and free(ptr).
Join ==
    /\ spc = "wait" /\ UsesThreads
    /\ n < Stride
    /\ child[n] = "ended"
    /\ child' = [child EXCEPT ![n] = "gone"]
    /\ arg' = IF program = "primer0_e" THEN [arg EXCEPT ![n] = "freed"] ELSE arg
    /\ n' = n + 1
    /\ UNCHANGED <<spc, ci, testVars>>

\* wait(NULL) takes any child that has ended.
Reap ==
    /\ spc = "wait" /\ ~UsesThreads
    /\ n < Stride
    /\ \E c \in Created :
          /\ child[c] = "ended"
          /\ child' = [child EXCEPT ![c] = "gone"]
    /\ n' = n + 1
    /\ UNCHANGED <<spc, ci, arg, testVars>>

\* primerN calls wait once more, which fails: there are no children left.
ReapNone ==
    /\ spc = "wait" /\ program = "primerN"
    /\ n = Stride
    /\ \A c \in Created : child[c] \notin {"testing", "ended"}
    /\ n' = n + 1
    /\ UNCHANGED <<spc, child, ci, arg, testVars>>

SpreadExit ==
    /\ spc = "wait"
    /\ n = IF program = "primerN" THEN Stride + 1 ELSE Stride
    /\ spc' = "exited"
    /\ UNCHANGED <<n, child, ci, arg, testVars>>

SpreadMain == Allocate \/ Fork \/ ForkFails \/ Join \/ Reap \/ ReapNone \/ SpreadExit

SpreadChild(c) == ChildTests(c) \/ ChildEnds(c)

SpreadNext == SpreadMain \/ \E c \in Children : SpreadChild(c)
=============================================================================
