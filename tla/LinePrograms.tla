---------------------------- MODULE LinePrograms ----------------------------
(***************************************************************************)
(* Programs over the line structures: the ball clock, the survivor of a    *)
(* ring, and the sum of two polynomials.                                   *)
(***************************************************************************)
EXTENDS Arrays

-----------------------------------------------------------------------------
(* line/ball_clock/main.c: balls go round from a queue through three       *)
(* stacks, for the minutes, the fives of minutes and the hours.  A full    *)
(* stack empties into the queue, last ball first, and passes one on.       *)

CONSTANTS
    NR_BALL,
    RINGSIZE,          \* slots of the queue and of each stack (MAXSIZE, SIZE)
    MIN, FIVEMIN, HOUR \* the value of top at which each stack passes a ball on

ASSUME BallAssumption ==
    /\ {NR_BALL, RINGSIZE, MIN, FIVEMIN, HOUR} \subseteq Nat
    /\ NR_BALL > MIN + FIVEMIN + HOUR + 3
    /\ RINGSIZE > NR_BALL /\ RINGSIZE <= NR_BALL + FIVEMIN + 1
    /\ Garbage \notin 1 .. NR_BALL

VARIABLES
    balls,    \* the queue
    stacks,   \* st_min, st_fivemin and st_hour
    ended     \* has check found the balls in order?

ballVars == <<balls, stacks, ended>>

Balls  == 1 .. NR_BALL
Brims  == <<MIN, FIVEMIN, HOUR>>
Stacks == 1 .. 3

\* Items come to the end of a queue one after the other.
Enqueued(qu, items) ==
    LET after[k \in 0 .. Len(items)] == IF k = 0 THEN qu ELSE qu_enqueue(after[k - 1], items[k])
    IN  after[Len(items)]

BallInit ==
    /\ balls = Enqueued(qu_create(RINGSIZE), [i \in Balls |-> i])
    /\ stacks = [p \in Stacks |-> st_create(RINGSIZE)]
    /\ ended = FALSE

\* The comparison is not with the next slot: (i + 1) / MAXSIZE is 0, or 1 for the
\* last i.  The ball at tail is not looked at.
check(qu) ==
    LET slot(k) == (qu.head + k) % RINGSIZE
    IN  \A k \in 1 .. NR_BALL - 1 : qu.data[slot(k)] <= qu.data[(slot(k) + 1) \div RINGSIZE]

\* A stack is popped until it is empty, each ball going to the end of the queue.
Emptied(qu, st) == Enqueued(qu, Reverse(StackItems(st)))

\* As if the last ball were left.
PoppedButOne(st) == [st EXCEPT !.top = 0]

Popped(st) == [st EXCEPT !.top = -1]

Brim(p) == stacks[p].top = Brims[p]

\* Ball t comes to stack p, below which the stacks have emptied into qu.
Lands(qu, t, p) ==
    /\ \A q \in 1 .. p - 1 : Brim(q)
    /\ ~Brim(p)
    /\ balls' = qu
    /\ stacks' = [q \in Stacks |-> CASE q < p -> Popped(stacks[q])
                                     [] q = p -> st_push(stacks[p], t)
                                     [] q > p -> stacks[q]]
    /\ UNCHANGED ended

\* One turn of the loop: a minute.
Turn ==
    LET t == Foremost(balls)
        q0 == qu_dequeue(balls)
        q1 == Emptied(q0, stacks[1])
        q2 == Emptied(q1, stacks[2])
        q3 == qu_enqueue(Emptied(q2, stacks[3]), t)
    IN  /\ ~ended
        /\ ~qu_isempty(balls)
        /\ \/ Lands(q0, t, 1)
           \/ Lands(q1, t, 2)
           \/ Lands(q2, t, 3)
           \/ /\ \A p \in Stacks : Brim(p)
              /\ balls' = q3
              /\ stacks' = [p \in Stacks |-> Popped(stacks[p])]
              /\ ended' = check(q3)

\* No ball is ever lost or doubled, in a queue that is never full when a stack
\* empties into it and never empty when a ball is taken (main.c:65-97 looks at no
\* result), and check compares with no slot that was never written.  That they stand in
\* order when the clock stops (C11-数据结构.md:53) is not said here, and is not so: check
\* compares every ball with the one in slot 0 or 1.
BallsAreKept ==
    LET everywhere == RingItems(balls) \o StackItems(stacks[1]) \o StackItems(stacks[2])
                      \o StackItems(stacks[3])
    IN  /\ Len(everywhere) = NR_BALL
        /\ Range(everywhere) = Balls
        /\ RingItems(balls) # <<>>
        /\ (\A p \in Stacks : Brim(p)) => Garbage \notin {balls.data[0], balls.data[1]}

-----------------------------------------------------------------------------
(* simple/josephu/jose.c: JOSE_NUM people in a ring, of whom every n-th    *)
(* counted is killed until one is left; main takes n = 3.                  *)

CONSTANTS
    JOSE_NUM,
    Counts     \* the values of n; with n = 1 the code uses an unset pointer

ASSUME JosephusAssumption == JOSE_NUM \in Nat \ {0} /\ Counts \subseteq Nat \ {0, 1}

VARIABLES
    jnext,    \* of each living node, the next
    cur,      \* where the counting goes on, 0 if the ring could not be made
    step,     \* n
    killed    \* those killed, in order

joseVars == <<jnext, cur, step, killed>>

People == 1 .. JOSE_NUM

\* jose_create: without memory it returns NULL (0), which main does not look at: it ends
\* there, in jose_show.
JoseInit ==
    /\ jnext = [who \in People |-> IF who = JOSE_NUM THEN 1 ELSE who + 1]
    /\ cur \in {0, 1}
    /\ step \in Counts
    /\ killed = <<>>

\* Whom the counting meets after k steps.
Met[k \in Nat] == IF k = 0 THEN cur ELSE jnext[Met[k - 1]]

\* As if the one after the victim were left out of the ring as well.
KillTwo ==
    LET node == Met[step - 2]
        victim == Met[step - 1]
    IN  /\ cur # 0 /\ cur # jnext[cur]
        /\ killed' = Append(killed, victim)
        /\ jnext' = [who \in DOMAIN jnext \ {victim} |->
                        IF who = node THEN jnext[jnext[victim]] ELSE jnext[who]]
        /\ cur' = jnext[victim]
        /\ UNCHANGED step

\* One turn of jose_kill's outer loop.
Kill ==
    LET node == Met[step - 2]
        victim == Met[step - 1]
    IN  /\ cur # 0 /\ cur # jnext[cur]
        /\ killed' = Append(killed, victim)
        /\ jnext' = [who \in DOMAIN jnext \ {victim} |-> IF who = node THEN jnext[victim] ELSE jnext[who]]
        /\ cur' = jnext[victim]
        /\ UNCHANGED step

\* Who is left of n people, counted from 0: the textbook's recurrence.
Survivor[n \in Nat \ {0}] == IF n = 1 THEN 0 ELSE (Survivor[n - 1] + step) % n

\* The order of the killed follows from the recurrence too: the survivor of those still
\* in the ring, counted on from cur, is the same person all the way, the ring stays one
\* ring without the killed, and when one is left it is he.
JosephusIsRight ==
    LET alive == DOMAIN jnext
        ring  == {Met[k] : k \in 0 .. Cardinality(alive) - 1}
    IN  cur # 0 =>
          /\ ring = alive
          /\ alive = People \ {killed[i] : i \in DOMAIN killed}
          /\ Len(killed) = JOSE_NUM - Cardinality(alive)
          /\ Met[Survivor[Cardinality(alive)]] = Survivor[JOSE_NUM] + 1

-----------------------------------------------------------------------------
(* simple/polynomial/poly.c: two polynomials, lists of terms by rising     *)
(* exponents behind a head each, are merged into the first by relinking    *)
(* their nodes.  The nodes of the first come before those of the second;   *)
(* node 0 is the first's head.                                             *)

CONSTANTS Exponents, Coefficients    \* of the terms of the two polynomials

ASSUME PolyAssumption ==
    Exponents \subseteq Nat /\ IsFiniteSet(Exponents) /\ Coefficients \subseteq Int \ {0}

VARIABLES
    terms,       \* the two polynomials as they were given: functions of the exponents
    coef, xnext, \* of each node; its exponent does not change
    p, q, r      \* the next nodes of both, and the last of the result; -1 is NULL

polyVars == <<terms, coef, xnext, p, q, r>>

Terms == UNION {[E -> Coefficients] : E \in SUBSET Exponents}

\* A node is the number of its polynomial and its exponent.
Node(i)  == {<<i, e>> : e \in DOMAIN terms[i]}
HeadTerm == <<0, 0>>
NoTerm   == <<0, -1>>
exp(n)   == n[2]

Lowest(ns) == IF ns = {} THEN NoTerm ELSE CHOOSE n \in ns : \A x \in ns : exp(n) <= exp(x)

\* poly_create, twice; without memory main ends.
PolyInit ==
    /\ terms \in Terms \X Terms
    /\ coef = [n \in Node(1) \cup Node(2) |-> terms[n[1]][n[2]]]
    /\ xnext = [n \in Node(1) \cup Node(2) \cup {HeadTerm} |->
                  Lowest(IF n = HeadTerm THEN Node(1) ELSE {x \in Node(n[1]) : exp(x) > exp(n)})]
    /\ p = Lowest(Node(1))
    /\ q = Lowest(Node(2))
    /\ r = HeadTerm

Take(n) ==
    /\ xnext' = [xnext EXCEPT ![r] = n]
    /\ r' = n

Both == p # NoTerm /\ q # NoTerm

TakeP == Both /\ exp(p) < exp(q) /\ Take(p) /\ p' = xnext[p] /\ UNCHANGED <<terms, coef, q>>
TakeQ == Both /\ exp(p) > exp(q) /\ Take(q) /\ q' = xnext[q] /\ UNCHANGED <<terms, coef, p>>

\* As if the sum were not tested.
AddUpAlways ==
    /\ Both /\ exp(p) = exp(q)
    /\ coef' = [coef EXCEPT ![p] = @ + coef[q]]
    /\ Take(p)
    /\ p' = xnext[p]
    /\ q' = xnext[q]
    /\ UNCHANGED terms

\* A sum of zero leaves both nodes out of the list (and never freed).
AddUp ==
    /\ Both /\ exp(p) = exp(q)
    /\ coef' = [coef EXCEPT ![p] = @ + coef[q]]
    /\ IF coef'[p] # 0 THEN Take(p) ELSE UNCHANGED <<xnext, r>>
    /\ p' = xnext[p]
    /\ q' = xnext[q]
    /\ UNCHANGED terms

\* The rest of the one that is left is hung on; r stays, and nothing is left to do.
HangOn ==
    /\ ~Both /\ r # NoTerm
    /\ xnext' = [xnext EXCEPT ![r] = IF p = NoTerm THEN q ELSE p]
    /\ r' = NoTerm
    /\ UNCHANGED <<terms, coef, p, q>>

PolyNext == TakeP \/ TakeQ \/ AddUp \/ HangOn

\* The result's terms, first to last: its length is bounded by the number of nodes.
Walk[k \in Nat] ==
    IF k = 0 THEN HeadTerm ELSE IF Walk[k - 1] = NoTerm THEN NoTerm ELSE xnext[Walk[k - 1]]

Given(i, e) == IF e \in DOMAIN terms[i] THEN terms[i][e] ELSE 0

\* When the merge is over the first list holds each exponent with a sum that is not
\* zero, once, by rising exponents, although r falls behind where terms cancel.
SumIsRight ==
    r = NoTerm =>
      LET result == {k \in 1 .. 1 + 2 * Cardinality(Exponents) : Walk[k] # NoTerm}
      IN  /\ \A k \in result : k + 1 \in result => exp(Walk[k]) < exp(Walk[k + 1])
          /\ {<<exp(Walk[k]), coef[Walk[k]]>> : k \in result} =
               {<<e, Given(1, e) + Given(2, e)>> :
                  e \in {x \in Exponents : Given(1, x) + Given(2, x) # 0}}
=============================================================================
