----------------------------- MODULE TokenBucket -----------------------------
(***************************************************************************)
(* What the token-bucket libraries (mytbf, in its signal and its thread    *)
(* versions) promise their callers: a bucket gains CPS tokens a tick up to *)
(* BURST, a fetch waits for a token and takes as many as asked for and     *)
(* there are, and what is returned is kept up to BURST.                    *)
(***************************************************************************)
EXTENDS Integers

CONSTANTS
    Buckets,
    CPS,     \* tokens a bucket gains a tick
    BURST,   \* most tokens a bucket holds
    Sizes    \* amounts callers ask for and return

VARIABLES
    live,    \* the buckets that exist
    token    \* the tokens of each bucket

bucketVars == <<live, token>>

Least(a, b) == IF a < b THEN a ELSE b

TypeOK ==
    /\ live \subseteq Buckets
    /\ token \in [Buckets -> 0 .. BURST]

Init ==
    /\ live = {}
    /\ token = [b \in Buckets |-> 0]

Create(b) ==
    /\ b \notin live
    /\ live' = live \cup {b}
    /\ token' = [token EXCEPT ![b] = 0]

Tick(b) ==
    /\ b \in live
    /\ token' = [token EXCEPT ![b] = Least(token[b] + CPS, BURST)]
    /\ UNCHANGED live

Fetch(b, size) ==
    /\ b \in live
    /\ token[b] > 0
    /\ token' = [token EXCEPT ![b] = token[b] - Least(token[b], size)]
    /\ UNCHANGED live

Return(b, size) ==
    /\ b \in live
    /\ size > 0
    /\ token' = [token EXCEPT ![b] = Least(token[b] + size, BURST)]
    /\ UNCHANGED live

\* The bucket's memory may hold any value until it is a bucket again.
Destroy(b) ==
    /\ b \in live
    /\ live' = live \ {b}
    /\ UNCHANGED token

Next ==
    \E b \in Buckets :
        \/ Create(b) \/ Tick(b) \/ Destroy(b)
        \/ \E size \in Sizes : Fetch(b, size) \/ Return(b, size)

Spec == Init /\ [][Next]_bucketVars
=============================================================================
