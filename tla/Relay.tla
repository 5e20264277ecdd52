-------------------------------- MODULE Relay --------------------------------
(***************************************************************************)
(* The relay between two terminals: io/adv/nonblock/relay.c, which polls   *)
(* the two machines without waiting, and its versions that wait with       *)
(* select, poll and epoll until a descriptor is ready.                     *)
(***************************************************************************)
EXTENDS RelayFsm, FiniteSets

CONSTANT Versions   \* those of "nonblock", "select", "poll" and "epoll" that are run

VARIABLES
    waits,   \* the version this is: how the relay waits
    pc,      \* where relay is
    ready    \* what the wait has reported: pairs of a descriptor and a mode

vars == <<fsmVars, waits, pc, ready>>

fsm12 == <<1, 2>>
fsm21 == <<2, 1>>

ASSUME RelayAssumption ==
    /\ Fds = {1, 2}
    /\ Machines = {fsm12, fsm21}
    /\ Versions \subseteq {"nonblock", "select", "poll", "epoll"}

Events == Fds \X {"in", "out"}

TypeOK ==
    /\ TypeOKFsm
    /\ waits \in Versions
    /\ pc \in {"loop", "wait", "drive12", "drive21", "done"}
    /\ ready \subseteq Events

Init ==
    /\ InitFiles
    /\ fsm = [m \in Machines |-> StartFsm]
    /\ waits \in Versions
    /\ pc = "loop"
    /\ ready = {}

State(m) == fsm[m].state
\* states below STATE_AUTO, and above it
Conditional(m)   == State(m) \in {"R", "W"}
Unconditional(m) == State(m) \in {"Ex", "T"}

\* Mutant of Watched: fsm21's writes are not watched for.
WatchedNoWrite(m) == IF State(m) = "R" THEN {<<sfd(m), "in">>} ELSE {}
\* The event machine m waits for.
Watched(m) ==
    IF State(m) = "R" THEN {<<sfd(m), "in">>}
    ELSE IF State(m) = "W" THEN {<<dfd(m), "out">>}
    ELSE {}

Happened(e) == IF e[2] = "in" THEN Readable(e[1]) ELSE Writable(e[1])

\* The while's condition.
Loop ==
    /\ pc = "loop"
    /\ pc' = IF \A m \in Machines : State(m) = "T" THEN "done"
             ELSE IF waits = "nonblock" THEN "drive12" ELSE "wait"
    /\ ready' = {}
    /\ UNCHANGED <<fsmVars, waits>>

Watching == Watched(fsm12) \cup Watched(fsm21)
Now == {e \in Watching : Happened(e)}

\* poll and epoll_wait return for a descriptor that has failed, watched or not.
Failed == IF waits = "select" THEN {} ELSE {f \in Fds : broken[f]}

\* select and poll report every watched event, epoll_wait those of one
\* descriptor (maxevents is 1).
Reports ==
    IF waits = "epoll"
    THEN {{e \in Now : e[1] = f} : f \in {e[1] : e \in Now} \cup Failed}
    ELSE {Now}

\* The wait returns once something watched for has happened ...
Wait ==
    /\ pc = "wait"
    /\ \E m \in Machines : Conditional(m)
    /\ Now # {} \/ Failed # {}
    /\ ready' \in Reports
    /\ pc' = "drive12"
    /\ UNCHANGED <<fsmVars, waits>>

\* ... and is left out when no machine waits for anything.
NoWait ==
    /\ pc = "wait"
    /\ \A m \in Machines : Unconditional(m)
    /\ pc' = "drive12"
    /\ UNCHANGED <<fsmVars, waits, ready>>

\* The descriptors' events that the code drives machine m on.
Driven(m) ==
    \/ waits = "nonblock"
    \/ <<sfd(m), "in">> \in ready
    \/ <<dfd(m), "out">> \in ready
    \/ Unconditional(m)

Drive(m, from, to) ==
    /\ pc = from
    /\ IF Driven(m) THEN fsm_driver(m) ELSE UNCHANGED fsmVars
    /\ pc' = to
    /\ UNCHANGED <<waits, ready>>

Step ==
    \/ Loop \/ Wait \/ NoWait
    \/ Drive(fsm12, "drive12", "drive21")
    \/ Drive(fsm21, "drive21", "loop")

Next ==
    /\ pc # "done"
    /\ \/ Step
       \/ World /\ UNCHANGED <<waits, pc, ready>>

Spec == Init /\ [][Next]_vars

\* relay runs; epoll_wait puts a descriptor it has reported at the end of its
\* ready list, so it does not report one for ever when the other is ready too.
Fairness ==
    /\ WF_vars(Step)
    /\ \A f \in Fds : SF_vars(Wait /\ f \in {e[1] : e \in ready'})

\* Both inputs end, and the readers of both outputs catch up for good.
InputsEnd == \A f \in Fds : <>(eof[f]) /\ <>[](Writable(f))

FairSpec == Spec /\ Fairness

-----------------------------------------------------------------------------
(* Properties *)

\* The relay ends once both inputs have ended, with both directions delivered.
RelayEnds == InputsEnd => <>(pc = "done")

\* A byte that has arrived is read, whatever the other direction does, once
\* its receiver has room.
BytesAreTaken ==
    \A f \in Fds :
        <>[](\A g \in Fds : room[g] /\ ~broken[g])
            => [](Waiting(f) > 0 => <>(Waiting(f) = 0 \/ eof[f] \/ pc = "done"))
=============================================================================
