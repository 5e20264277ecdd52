------------------------------- MODULE Blocked -------------------------------
(***************************************************************************)
(* The programs of parallel/signal that print lines of stars and answer    *)
(* signals: star.c at any time, block.c only between two lines, susp.c and *)
(* susp_rt.c only in sigsuspend, which each line ends with.  A standard    *)
(* signal is pending once at most; real-time ones queue.                   *)
(***************************************************************************)
EXTENDS Integers, FiniteSets, Program

CONSTANTS
    Lines,       \* lines of stars to print
    Stars,       \* stars a line has
    MaxSignals   \* bound: each signal is sent so many times

ASSUME BlockedAssumption == {Lines, Stars, MaxSignals} \subseteq Nat \ {0}

VARIABLES
    main,       \* where the program is
    line,       \* the loops' j and i
    star,
    mask,       \* the signals that are blocked
    saveset,    \* the mask it began with
    oset,       \* the one it gives sigsuspend
    pending,    \* how many of each signal are pending
    sent,       \* history: how many have been sent and answered
    answered

blockedVars == <<main, line, star, mask, saveset, oset, pending, sent, answered>>

\* SIGINT, and MYRTSIG of susp_rt.
Standard == {"INT"}
Signals  == IF program = "susp_rt" THEN {"INT", "RT"} ELSE {"INT"}
Suspends == program \in {"susp", "susp_rt"}

BlockedTypeOK ==
    /\ main \in {"start", "block", "stars", "unblock", "suspend", "restore", "exit", "exited"}
    /\ line \in 0 .. Lines /\ star \in 0 .. Stars
    /\ mask \subseteq {"INT", "RT"} /\ saveset \subseteq {"INT", "RT"} /\ oset \subseteq {"INT", "RT"}
    /\ pending \in [{"INT", "RT"} -> 0 .. MaxSignals]
    /\ sent \in [{"INT", "RT"} -> 0 .. MaxSignals]
    /\ answered \in [{"INT", "RT"} -> 0 .. MaxSignals]
    /\ \A s \in Standard : pending[s] <= 1

\* A program may inherit blocked signals.
BlockedInit ==
    /\ main = "start"
    /\ line = 0 /\ star = 0
    /\ saveset \in SUBSET Signals
    /\ mask = saveset /\ oset = {}
    /\ pending = [s \in {"INT", "RT"} |-> 0]
    /\ sent = pending /\ answered = pending

Deliverable == {s \in Signals : pending[s] > 0 /\ s \notin mask}

\* A step of the program, which comes after what can be delivered.
At(l) == main = l /\ Deliverable = {}

\* Someone sends s, which waits unless it is one that is pending already.
SendSignal(s) ==
    /\ main # "exited" /\ sent[s] < MaxSignals
    /\ s \in Signals
    /\ main = "start" => s \in mask      \* without its handler it ends the program
    /\ sent' = [sent EXCEPT ![s] = @ + 1]
    /\ pending' = [pending EXCEPT ![s] = IF s \in Standard THEN 1 ELSE @ + 1]
    /\ UNCHANGED <<main, line, star, mask, saveset, oset, answered>>

\* The handlers of the signals in S run once each.
Handlers(S) ==
    /\ pending' = [s \in DOMAIN pending |-> IF s \in S THEN pending[s] - 1 ELSE pending[s]]
    /\ answered' = [s \in DOMAIN answered |-> IF s \in S THEN answered[s] + 1 ELSE answered[s]]

Deliver ==
    /\ main \notin {"suspend", "exited"}
    /\ \E s \in Deliverable : Handlers({s})
    /\ UNCHANGED <<main, line, star, mask, saveset, oset, sent>>

\* signal, and in all but star sigprocmask(SIG_UNBLOCK, &set, &saveset).
Start ==
    /\ At("start")
    /\ mask' = IF program = "star" THEN mask ELSE mask \ Signals
    /\ main' = IF program = "star" THEN "stars" ELSE "block"
    /\ UNCHANGED <<line, star, saveset, oset, pending, sent, answered>>

\* sigprocmask(SIG_BLOCK, &set, &oset), in block before each line.
Block ==
    /\ At("block")
    /\ oset' = IF Suspends THEN mask ELSE oset
    /\ mask' = mask \cup Signals
    /\ main' = "stars"
    /\ UNCHANGED <<line, star, saveset, pending, sent, answered>>

\* A star and a sleep; the line's end.
PrintStar ==
    /\ At("stars")
    /\ IF star < Stars
       THEN star' = star + 1 /\ UNCHANGED main
       ELSE /\ star' = 0
            /\ main' = IF program = "star" THEN "exit"
                       ELSE IF Suspends THEN "suspend" ELSE "unblock"
    /\ UNCHANGED <<line, mask, saveset, oset, pending, sent, answered>>

NextLine == IF line + 1 = Lines THEN "restore" ELSE IF Suspends THEN "stars" ELSE "block"

Unblock ==
    /\ At("unblock")
    /\ mask' = mask \ Signals
    /\ line' = line + 1
    /\ main' = NextLine
    /\ UNCHANGED <<star, saveset, oset, pending, sent, answered>>

\* sigsuspend(&oset) in one: the mask, the wait, the handlers of all that oset
\* lets through, and the mask as it was.  A signal's own handler keeps off the
\* others of its kind, which wait for the next sigsuspend.
Suspend ==
    /\ main = "suspend"
    /\ LET through == {s \in Signals : pending[s] > 0 /\ s \notin oset} IN
          through # {} /\ Handlers(through)
    /\ line' = line + 1
    /\ main' = NextLine
    /\ UNCHANGED <<star, mask, saveset, oset, sent>>

\* Mutant of Restore: the mask is left as it is.
RestoreNot ==
    /\ At("restore")
    /\ main' = "exit"
    /\ UNCHANGED <<line, star, mask, saveset, oset, pending, sent, answered>>
\* sigprocmask(SIG_SETMASK, &saveset, NULL).
Restore ==
    /\ At("restore")
    /\ mask' = saveset
    /\ main' = "exit"
    /\ UNCHANGED <<line, star, saveset, oset, pending, sent, answered>>

Exit ==
    /\ At("exit")
    /\ main' = "exited"
    /\ UNCHANGED <<line, star, mask, saveset, oset, pending, sent, answered>>

BlockedStep ==
    \/ Deliver \/ Start \/ Block \/ PrintStar \/ Unblock \/ Suspend \/ Restore \/ Exit

BlockedNext == BlockedStep \/ \E s \in Signals : SendSignal(s)

-----------------------------------------------------------------------------
(* Properties *)

\* No signal is answered within a line (block.c:24-30, susp.c:24-34), whatever
\* mask the program inherits; each line of susp after the first is the work of a
\* signal; of the real-time ones each is answered once, of the others each burst;
\* and what the program was given unblocked is not left pending when it ends.
SignalsAreAnswered ==
    /\ BlockedTypeOK
    /\ main = "stars" /\ program # "star" => Signals \subseteq mask
    /\ Suspends => line <= answered["INT"] + answered["RT"]
    /\ sent["RT"] = answered["RT"] + pending["RT"]
    /\ sent["INT"] > 0 => answered["INT"] + pending["INT"] > 0
    /\ answered["INT"] + pending["INT"] <= sent["INT"]
    /\ main = "exited" => \A s \in Signals \ saveset : pending[s] = 0
=============================================================================
