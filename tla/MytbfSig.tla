------------------------------ MODULE MytbfSig ------------------------------
(***************************************************************************)
(* The token-bucket library driven by SIGALRM: parallel/signal/mytbf and,  *)
(* with sigaction and setitimer, parallel/signal/mytbf_sa (mytbf.c each).  *)
(*                                                                         *)
(* The handler refills every bucket in the table.  It interrupts the       *)
(* program's only thread between any two of its instructions and runs to   *)
(* its end before the thread goes on, so the handler is one step and every *)
(* load and store of the library's functions is one.                       *)
(***************************************************************************)
EXTENDS Integers

CONSTANTS
    MYTBF_MAX,   \* slots of the table
    Buckets,     \* the addresses malloc may return
    NULL,
    CPS, BURST,  \* the arguments of mytbf_init
    Sizes,       \* the sizes passed to mytbf_fetchtoken and mytbf_returntoken
    SiCode,      \* does the handler look at si_code (mytbf_sa)?
    Foreign      \* may another process send SIGALRM?

ASSUME SigAssumption ==
    /\ MYTBF_MAX \in Nat \ {0}
    /\ CPS \in Nat \ {0}
    /\ BURST \in Nat \ {0}
    /\ Sizes \subseteq Nat
    /\ NULL \notin Buckets
    /\ {SiCode, Foreign} \subseteq BOOLEAN

VARIABLES
    job,      \* the table
    live,     \* the buckets malloc has given out and free has not taken back
    token,    \* me->token
    pos,      \* me->pos
    pc,       \* where the program is
    me,       \* the bucket its call is about
    size,     \* the size its call is about
    n,        \* fetchtoken's local, and the register between load and store
    r,
    action,   \* SIGALRM's disposition
    armed,    \* the timer runs
    ideal     \* history: what a bucket would hold that loses no tick

heap    == <<job, live, token, pos>>
program == <<pc, me, size, n, r>>
timer   == <<action, armed>>
vars    == <<heap, program, timer, ideal>>

Slots == 0 .. MYTBF_MAX - 1

PCs == {"out", "place", "test", "topause", "pause", "min", "fload", "fstore",
        "rload", "rstore", "rtest", "rcap", "clear", "free",
        "disarm", "freeall", "ended", "killed"}

TypeOK ==
    /\ job \in [Slots -> Buckets \cup {NULL}]
    /\ live \subseteq Buckets
    /\ token \in [Buckets -> Int]
    /\ pos \in [Buckets -> Slots]
    /\ pc \in PCs
    /\ me \in Buckets \cup {NULL}
    /\ size \in Sizes \cup {0}
    /\ n \in Nat /\ r \in Nat
    /\ action \in {"default", "handler"}
    /\ armed \in BOOLEAN
    /\ ideal \in [Buckets -> 0 .. BURST]

Init ==
    /\ job = [s \in Slots |-> NULL]
    /\ live = {}
    /\ token = [b \in Buckets |-> 0]
    /\ pos = [b \in Buckets |-> 0]
    /\ pc = "out" /\ me = NULL /\ size = 0 /\ n = 0 /\ r = 0
    /\ action = "default" /\ armed = FALSE
    /\ ideal = [b \in Buckets |-> 0]

Least(a, b) == IF a < b THEN a ELSE b

Running == pc \notin {"ended", "killed"}

Goto(l) == pc' = l /\ UNCHANGED <<me, size, n, r>>
Leave   == pc' = "out" /\ me' = NULL /\ size' = 0 /\ n' = 0 /\ r' = 0

-----------------------------------------------------------------------------
(* mytbf_init *)

\* get_free_pos
IsFreePos(p) == job[p] = NULL /\ \A q \in 0 .. p - 1 : job[q] # NULL

\* module_load on the first call, get_free_pos, malloc and the fields.
InitBegin(b) ==
    /\ pc = "out"
    /\ b \notin live
    /\ \E p \in Slots : IsFreePos(p) /\ pos' = [pos EXCEPT ![b] = p]
    /\ live' = live \cup {b}
    /\ token' = [token EXCEPT ![b] = 0]
    /\ ideal' = [ideal EXCEPT ![b] = 0]
    /\ action' = "handler" /\ armed' = TRUE
    /\ pc' = "place" /\ me' = b
    /\ UNCHANGED <<job, size, n, r>>

\* No slot is free, or no memory: NULL, with the timer running all the same.
InitNull ==
    /\ pc = "out"
    /\ action' = "handler" /\ armed' = TRUE
    /\ UNCHANGED <<heap, program, ideal>>

InitPlace ==
    /\ pc = "place"
    /\ job' = [job EXCEPT ![pos[me]] = me]
    /\ Leave
    /\ UNCHANGED <<live, token, pos, timer, ideal>>

-----------------------------------------------------------------------------
(* mytbf_fetchtoken *)

Usable(b) == b \in live /\ job[pos[b]] = b

FetchBegin(b, s) ==
    /\ pc = "out"
    /\ Usable(b)
    /\ pc' = "test" /\ me' = b /\ size' = s
    /\ UNCHANGED <<heap, n, r, timer, ideal>>

FetchTest ==
    /\ pc = "test"
    /\ Goto(IF token[me] <= 0 THEN "topause" ELSE "min")
    /\ UNCHANGED <<heap, timer, ideal>>

\* A signal between the test and pause wakes nobody.
FetchPause ==
    /\ pc = "topause"
    /\ Goto("pause")
    /\ UNCHANGED <<heap, timer, ideal>>

\* Mutant of FetchMin: what was asked for, whatever there is.
FetchMinAll ==
    /\ pc = "min"
    /\ n' = size
    /\ pc' = "fload"
    /\ UNCHANGED <<heap, me, size, r, timer, ideal>>
FetchMin ==
    /\ pc = "min"
    /\ n' = Least(token[me], size)
    /\ pc' = "fload"
    /\ UNCHANGED <<heap, me, size, r, timer, ideal>>

FetchLoad ==
    /\ pc = "fload"
    /\ r' = token[me]
    /\ pc' = "fstore"
    /\ UNCHANGED <<heap, me, size, n, timer, ideal>>

\* What the handler added since the load is lost.
FetchStore ==
    /\ pc = "fstore"
    /\ token' = [token EXCEPT ![me] = r - n]
    /\ ideal' = [ideal EXCEPT ![me] = @ - n]
    /\ Leave
    /\ UNCHANGED <<job, live, pos, timer>>

-----------------------------------------------------------------------------
(* mytbf_returntoken *)

ReturnBegin(b, s) ==
    /\ pc = "out"
    /\ Usable(b)
    /\ s > 0
    /\ pc' = "rload" /\ me' = b /\ size' = s
    /\ UNCHANGED <<heap, n, r, timer, ideal>>

ReturnLoad ==
    /\ pc = "rload"
    /\ r' = token[me]
    /\ pc' = "rstore"
    /\ UNCHANGED <<heap, me, size, n, timer, ideal>>

ReturnStore ==
    /\ pc = "rstore"
    /\ token' = [token EXCEPT ![me] = r + size]
    /\ ideal' = [ideal EXCEPT ![me] = Least(@ + size, BURST)]
    /\ Goto("rtest")
    /\ UNCHANGED <<job, live, pos, timer>>

ReturnTest ==
    /\ pc = "rtest"
    /\ IF token[me] > BURST THEN Goto("rcap") ELSE Leave
    /\ UNCHANGED <<heap, timer, ideal>>

ReturnCap ==
    /\ pc = "rcap"
    /\ token' = [token EXCEPT ![me] = BURST]
    /\ Leave
    /\ UNCHANGED <<job, live, pos, timer, ideal>>

-----------------------------------------------------------------------------
(* mytbf_destroy *)

\* Mutant of DestroyBegin: the memory is freed before the slot is cleared.
DestroyFreeFirst(b) ==
    /\ pc = "out"
    /\ Usable(b)
    /\ live' = live \ {b}
    /\ pc' = "clear" /\ me' = b
    /\ UNCHANGED <<job, token, pos, size, n, r, timer, ideal>>
DestroyBegin(b) ==
    /\ pc = "out"
    /\ Usable(b)
    /\ pc' = "clear" /\ me' = b
    /\ UNCHANGED <<heap, size, n, r, timer, ideal>>

DestroyClear ==
    /\ pc = "clear"
    /\ job' = [job EXCEPT ![pos[me]] = NULL]
    /\ Goto("free")
    /\ UNCHANGED <<live, token, pos, timer, ideal>>

DestroyFree ==
    /\ pc = "free"
    /\ live' = live \ {me}
    /\ Leave
    /\ UNCHANGED <<job, token, pos, timer, ideal>>

-----------------------------------------------------------------------------
(* exit runs module_unload. *)

ExitRestore ==
    /\ pc = "out"
    /\ armed
    /\ action' = "default"
    /\ pc' = "disarm"
    /\ UNCHANGED <<heap, me, size, n, r, armed, ideal>>

ExitDisarm ==
    /\ pc = "disarm"
    /\ armed' = FALSE
    /\ pc' = "freeall"
    /\ UNCHANGED <<heap, me, size, n, r, action, ideal>>

\* The table still names the buckets: no handler is left to look.
ExitFree ==
    /\ pc = "freeall"
    /\ live' = {b \in live : \A s \in Slots : job[s] # b}
    /\ pc' = "ended"
    /\ UNCHANGED <<job, token, pos, me, size, n, r, timer, ideal>>

-----------------------------------------------------------------------------
(* The handler *)

InTable(b) == \E s \in Slots : job[s] = b

\* Mutant of Refill: the cap is forgotten.
RefillUncapped == [b \in Buckets |-> IF InTable(b) THEN token[b] + CPS ELSE token[b]]
Refill ==
    [b \in Buckets |-> IF InTable(b) THEN Least(token[b] + CPS, BURST) ELSE token[b]]

\* Mutant of Heeds: si_code is not looked at.
HeedsAll(kernel) == TRUE
\* Mutant of Heeds: the comparison is turned round.
HeedsForeign(kernel) == SiCode => ~kernel
Heeds(kernel) == SiCode => kernel

\* pause returns when the handler has, whatever it did.
HandlerEnds == pc' = IF pc = "pause" THEN "test" ELSE pc

Deliver(kernel) ==
    /\ token' = IF Heeds(kernel) THEN Refill ELSE token
    /\ HandlerEnds
    /\ UNCHANGED <<job, live, pos, me, size, n, r, timer>>

\* The kernel's SIGALRM, a second after the last: mytbf arms its alarm again
\* in the handler, mytbf_sa's timer is periodic.
Tick ==
    /\ Running /\ armed
    /\ action = "handler"
    /\ Deliver(TRUE)
    /\ ideal' = [b \in Buckets |-> IF InTable(b) THEN Least(ideal[b] + CPS, BURST)
                                                 ELSE ideal[b]]

ForeignTick ==
    /\ Foreign
    /\ Running
    /\ action = "handler"
    /\ Deliver(FALSE)
    /\ UNCHANGED ideal

\* The default action of SIGALRM ends the process.
TickKills ==
    /\ Running /\ armed
    /\ action = "default"
    /\ pc' = "killed"
    /\ UNCHANGED <<heap, me, size, n, r, timer, ideal>>

-----------------------------------------------------------------------------
Begin ==
    \/ InitNull
    \/ \E b \in Buckets : InitBegin(b) \/ DestroyBegin(b)
    \/ \E b \in Buckets, s \in Sizes : FetchBegin(b, s) \/ ReturnBegin(b, s)

Step ==
    \/ InitPlace
    \/ FetchTest \/ FetchPause \/ FetchMin \/ FetchLoad \/ FetchStore
    \/ ReturnLoad \/ ReturnStore \/ ReturnTest \/ ReturnCap
    \/ DestroyClear \/ DestroyFree
    \/ ExitDisarm \/ ExitFree

Signal == Tick \/ ForeignTick \/ TickKills

Next == Begin \/ ExitRestore \/ Step \/ Signal

Spec == Init /\ [][Next]_vars

-----------------------------------------------------------------------------
(* Properties *)

\* However the handler falls between the steps of mytbf_fetchtoken, what it is
\* about to take is there: the tokens never go below zero (lines 120-125).
GrantIsCovered ==
    /\ pc = "fload" => n <= token[me]
    /\ pc = "fstore" => n <= r
    /\ \A b \in Buckets : token[b] >= 0

\* Flow control: the library never has more to give than a bucket without races
\* would have, so no caller is granted more than BURST and CPS a tick.  A tick
\* that falls between a load and its store may be lost, never counted twice.
AtMostIdeal ==
    \A b \in live :
        \/ token[b] <= ideal[b]
        \/ b = me /\ pc \in {"rtest", "rcap"} /\ ideal[b] = BURST

\* Tokens are real: those granted were there, and no more were there than ticks
\* have brought, whichever load and store the handler falls between.
TokensAreReal == GrantIsCovered /\ AtMostIdeal

\* The handler meets no bucket that is freed or not filled in yet, at whatever
\* step of mytbf_init, mytbf_destroy or module_unload it comes.
HandlerTouchesLive ==
    action = "handler" => \A s \in Slots : job[s] # NULL => job[s] \in live
=============================================================================
