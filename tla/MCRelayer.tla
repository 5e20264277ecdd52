------------------------------ MODULE MCRelayer ------------------------------
(***************************************************************************)
(* Three jobs for a table of two slots, and two threads that add them.     *)
(***************************************************************************)
EXTENDS Relayer

ThreeJobs     == {<<1, 2>>, <<3, 4>>, <<5, 6>>}
ThreeJobsWays == ThreeJobs \cup {<<2, 1>>, <<4, 3>>, <<6, 5>>}

\* A byte for each of the first two jobs; the third only competes for the table.
OneWay == [f \in Fds |-> IF f \in {1, 3} THEN 1 ELSE 0]

\* Jobs are added, and threads begin to call, in the order of their numbers,
\* which have no other meaning.
ByNumber ==
    /\ \A t \in Threads : pc[t] = "out" /\ pc'[t] # "out" =>
          \A u \in Threads : u < t => pc[u] # "out"
    /\ \A t \in Threads : me'[t] # me[t] /\ me'[t] # NULL =>
          \A k \in Jobs : k[1] < me'[t][1] => job_state[k] # "none"

\* A descriptor changes while its job runs in the table, and it fills up or drains
\* while something is to be written to it: otherwise nobody looks.  An input ends
\* only where bytes come.
WhileWatched ==
    \A f \in Fds :
        \/ /\ arrived'[f] = arrived[f] /\ eof'[f] = eof[f]
           /\ room'[f] = room[f] /\ broken'[f] = broken[f]
        \/ /\ \E s \in Slots : Runs(s) /\ f \in {rel_job[s][1], rel_job[s][2]}
           /\ eof'[f] => Length[f] > 0
           /\ room'[f] # room[f] => \E m \in Machines : dfd(m) = f /\ fsm[m].state = "W"

Bounds == ByNumber /\ WhileWatched
=============================================================================
