----------------------------- MODULE MytbfProofs -----------------------------
(***************************************************************************)
(* What the token bucket driven by SIGALRM promises whatever the handler   *)
(* interrupts, for any table, rates and sizes, and what main.c makes of it *)
(* for a file of any length.                                               *)
(***************************************************************************)
EXTENDS MytbfMain, SequenceTheorems, TLAPS

\* Between the first and the last access of a call to its bucket.
Calling == {"test", "topause", "pause", "min", "fload", "fstore",
            "rload", "rstore", "rtest", "rcap", "clear"}

Leaving == {"disarm", "freeall", "ended", "killed"}

\* TypeOK, for callers that pass any size.
SigTypeOK ==
    /\ job \in [Slots -> Buckets \cup {NULL}]
    /\ live \subseteq Buckets
    /\ token \in [Buckets -> Int]
    /\ pos \in [Buckets -> Slots]
    /\ pc \in PCs
    /\ me \in Buckets \cup {NULL}
    /\ size \in Nat
    /\ n \in Int /\ r \in Int
    /\ action \in {"default", "handler"}
    /\ armed \in BOOLEAN
    /\ ideal \in [Buckets -> Int]

\* A bucket is in the table at its pos until mytbf_destroy has cleared the slot,
\* and allocated until exit has put the default action back.
TableInv ==
    /\ pc # "ended" => \A s \in Slots : job[s] # NULL => job[s] \in live /\ pos[job[s]] = s
    /\ pc \in Leaving => action = "default"
    /\ action = "default" => pc \in Leaving \/ (pc = "out" /\ live = {})
    /\ pc = "place" => me \in live /\ job[pos[me]] = NULL
    /\ pc \in Calling => me \in live /\ job[pos[me]] = me
    /\ pc = "free" => me \in live /\ \A s \in Slots : job[s] # me

\* Only mytbf_returntoken exceeds BURST, and caps what it has exceeded; what is
\* about to be taken is there, for a handler only adds to a bucket within BURST.
TokenInv ==
    /\ \A b \in Buckets : /\ 0 <= token[b]
                          /\ token[b] <= BURST \/ (b = me /\ pc \in {"rtest", "rcap"})
    /\ pc = "min" => token[me] > 0
    /\ pc \in {"fload", "fstore"} => 0 <= n /\ n <= size /\ (size > 0 => n > 0)
    /\ pc = "fload" => n <= token[me]
    /\ pc = "fstore" => n <= r
    /\ pc \in {"fstore", "rstore"} => 0 <= r /\ r <= BURST

\* The ideal bucket holds as much, and as much as what has been loaded.
IdealInv ==
    /\ \A b \in Buckets : 0 <= ideal[b] /\ ideal[b] <= BURST
    /\ AtMostIdeal
    /\ pc \in {"fstore", "rstore"} => r <= ideal[me]
    /\ pc = "rcap" => ideal[me] = BURST

SigInv == SigTypeOK /\ TableInv /\ TokenInv

\* What a caller may have the library do, whatever sizes it passes.
Library ==
    \/ InitNull \/ ExitRestore \/ Step \/ Signal
    \/ \E b \in Buckets : InitBegin(b) \/ DestroyBegin(b)
    \/ \E b \in Buckets, s \in Nat : FetchBegin(b, s) \/ ReturnBegin(b, s)

-----------------------------------------------------------------------------
(* The library's steps *)

LEMMA InitSig == Init => SigInv /\ IdealInv
<1> SUFFICES ASSUME Init PROVE SigInv /\ IdealInv
  OBVIOUS
<1>1. 0 \in Slots /\ 0 <= BURST
  BY SigAssumption DEF Slots
<1>2. SigTypeOK
  <2>1. job \in [Slots -> Buckets \cup {NULL}] /\ pos \in [Buckets -> Slots]
    BY <1>1 DEF Init
  <2>2. token \in [Buckets -> Int] /\ ideal \in [Buckets -> Int]
    BY DEF Init
  <2>3. pc \in PCs /\ live \subseteq Buckets
    BY DEF Init, PCs
  <2>4. size \in Nat /\ n \in Int /\ r \in Int /\ me \in Buckets \cup {NULL}
    BY DEF Init
  <2>5. action \in {"default", "handler"} /\ armed \in BOOLEAN
    BY DEF Init
  <2>6. QED
    BY <2>1, <2>2, <2>3, <2>4, <2>5 DEF SigTypeOK
<1>3. TableInv /\ TokenInv /\ IdealInv
  BY <1>1, SigAssumption DEF Init, TableInv, TokenInv, IdealInv, AtMostIdeal, Leaving, Calling
<1>4. QED
  BY <1>2, <1>3 DEF SigInv

\* mytbf_init finds a bucket and a slot that nothing is in.
LEMMA InitBeginKeeps ==
    ASSUME SigInv, NEW b \in Buckets, InitBegin(b)
    PROVE  SigInv' /\ (IdealInv => IdealInv')
<1>1. PICK p \in Slots : job[p] = NULL /\ pos' = [pos EXCEPT ![b] = p]
  BY DEF InitBegin, IsFreePos
<1>2. /\ pc = "out" /\ pc' = "place" /\ me' = b /\ b \notin live /\ live' = live \cup {b}
      /\ token' = [token EXCEPT ![b] = 0] /\ ideal' = [ideal EXCEPT ![b] = 0]
      /\ action' = "handler" /\ armed' = TRUE
      /\ UNCHANGED <<job, size, n, r>>
  BY DEF InitBegin
<1>3. \A s \in Slots : job[s] # NULL => job[s] # b
  BY <1>2 DEF SigInv, TableInv
<1>4. pos'[b] = p /\ token'[b] = 0 /\ ideal'[b] = 0
      /\ \A c \in Buckets \ {b} : pos'[c] = pos[c] /\ token'[c] = token[c] /\ ideal'[c] = ideal[c]
  BY <1>1, <1>2 DEF SigInv, SigTypeOK
<1>5. SigTypeOK'
  BY <1>1, <1>2 DEF SigInv, SigTypeOK, PCs
<1>6. TableInv'
  BY <1>1, <1>2, <1>3, <1>4 DEF SigInv, SigTypeOK, TableInv, Leaving, Calling
<1>7. TokenInv'
  BY <1>2, <1>4, SigAssumption DEF SigInv, SigTypeOK, TokenInv
<1>8. IdealInv => IdealInv'
  BY <1>2, <1>4, SigAssumption DEF SigInv, SigTypeOK, IdealInv, AtMostIdeal
<1>9. QED
  BY <1>5, <1>6, <1>7, <1>8 DEF SigInv

LEMMA InitPlaceKeeps ==
    ASSUME SigInv, InitPlace
    PROVE  SigInv' /\ (IdealInv => IdealInv')
<1>1. /\ pc = "place" /\ pc' = "out" /\ me' = NULL /\ size' = 0 /\ n' = 0 /\ r' = 0
      /\ job' = [job EXCEPT ![pos[me]] = me]
      /\ UNCHANGED <<live, token, pos, action, armed, ideal>>
  BY DEF InitPlace, Leave, timer
<1>2. me \in live /\ me \in Buckets /\ pos[me] \in Slots
  BY <1>1 DEF SigInv, SigTypeOK, TableInv
<1>3. job'[pos[me]] = me /\ \A s \in Slots \ {pos[me]} : job'[s] = job[s]
  BY <1>1, <1>2 DEF SigInv, SigTypeOK
<1>4. SigTypeOK'
  BY <1>1, <1>2 DEF SigInv, SigTypeOK, PCs
<1>5. TableInv'
  BY <1>1, <1>2, <1>3 DEF SigInv, SigTypeOK, TableInv, Leaving, Calling
<1>6. TokenInv'
  BY <1>1 DEF SigInv, SigTypeOK, TokenInv
<1>7. IdealInv => IdealInv'
  BY <1>1 DEF SigInv, SigTypeOK, IdealInv, AtMostIdeal
<1>8. QED
  BY <1>4, <1>5, <1>6, <1>7 DEF SigInv

\* The program moves on and only its registers change.
LEMMA FetchKeeps ==
    ASSUME SigInv,
           \/ \E b \in Buckets, s \in Nat : FetchBegin(b, s)
           \/ FetchTest \/ FetchPause \/ FetchMin \/ FetchLoad
    PROVE  SigInv' /\ (IdealInv => IdealInv')
<1>1. /\ UNCHANGED <<job, live, token, pos, action, armed, ideal>>
      /\ pc \in {"out", "test", "topause", "min", "fload"}
      /\ pc' \in {"test", "topause", "pause", "min", "fload", "fstore"}
      /\ pc # "out" => me' = me
  BY DEF FetchBegin, FetchTest, FetchPause, FetchMin, FetchLoad, heap, timer, Goto
<1>2. me' \in live /\ me' \in Buckets /\ job[pos[me']] = me'
  <2>1. ASSUME NEW b \in Buckets, NEW s \in Nat, FetchBegin(b, s)
        PROVE  me' = b /\ b \in live /\ job[pos[b]] = b
    BY <2>1 DEF FetchBegin, Usable
  <2>2. CASE FetchTest \/ FetchPause \/ FetchMin \/ FetchLoad
    BY <2>2 DEF FetchTest, FetchPause, FetchMin, FetchLoad, Goto, SigInv, SigTypeOK, TableInv, Calling
  <2>3. QED
    BY <2>1, <2>2
<1>3. SigTypeOK'
  BY <1>1, <1>2 DEF FetchBegin, FetchTest, FetchPause, FetchMin, FetchLoad, Goto, Least,
                    SigInv, SigTypeOK, PCs
<1>4. TableInv'
  BY <1>1, <1>2 DEF SigInv, TableInv, Leaving, Calling
<1>5. TokenInv'
  BY <1>1, <1>2 DEF FetchBegin, FetchTest, FetchPause, FetchMin, FetchLoad, Goto, Least,
                    SigInv, SigTypeOK, TokenInv
<1>6. IdealInv => IdealInv'
  BY <1>1, <1>2 DEF FetchBegin, FetchTest, FetchPause, FetchMin, FetchLoad, Goto,
                    SigInv, SigTypeOK, IdealInv, AtMostIdeal
<1>7. QED
  BY <1>3, <1>4, <1>5, <1>6 DEF SigInv

LEMMA FetchStoreKeeps ==
    ASSUME SigInv, FetchStore
    PROVE  SigInv' /\ (IdealInv => IdealInv')
<1>1. /\ pc = "fstore" /\ pc' = "out" /\ me' = NULL /\ size' = 0 /\ n' = 0 /\ r' = 0
      /\ token' = [token EXCEPT ![me] = r - n]
      /\ ideal' = [ideal EXCEPT ![me] = ideal[me] - n]
      /\ UNCHANGED <<job, live, pos, action, armed>>
  BY DEF FetchStore, Leave, timer
<1>2. me \in live /\ me \in Buckets /\ 0 <= n /\ n <= r /\ r <= BURST
  BY <1>1 DEF SigInv, SigTypeOK, TableInv, TokenInv, Calling
<1>3. /\ token'[me] = r - n /\ ideal'[me] = ideal[me] - n
      /\ \A c \in Buckets \ {me} : token'[c] = token[c] /\ ideal'[c] = ideal[c]
  BY <1>1, <1>2 DEF SigInv, SigTypeOK
<1>4. SigTypeOK'
  BY <1>1, <1>2 DEF SigInv, SigTypeOK, PCs
<1>5. TableInv'
  BY <1>1 DEF SigInv, TableInv, Leaving, Calling
<1>6. TokenInv'
  BY <1>1, <1>2, <1>3, SigAssumption DEF SigInv, SigTypeOK, TokenInv
<1>7. IdealInv => IdealInv'
  BY <1>1, <1>2, <1>3, SigAssumption DEF SigInv, SigTypeOK, IdealInv, AtMostIdeal
<1>8. QED
  BY <1>4, <1>5, <1>6, <1>7 DEF SigInv

LEMMA ReturnKeeps ==
    ASSUME SigInv,
           \/ \E b \in Buckets, s \in Nat : ReturnBegin(b, s)
           \/ ReturnLoad \/ ReturnTest
    PROVE  SigInv' /\ (IdealInv => IdealInv')
<1>1. /\ UNCHANGED <<job, live, token, pos, action, armed, ideal>>
      /\ pc \in {"out", "rload", "rtest"}
      /\ pc' \in {"rload", "rstore", "rcap", "out"}
      /\ pc # "out" /\ pc' # "out" => me' = me
      /\ pc' = "out" => pc = "rtest" /\ me' = NULL
  BY DEF ReturnBegin, ReturnLoad, ReturnTest, heap, timer, Goto, Leave
<1>2. pc' # "out" => me' \in live /\ me' \in Buckets /\ job[pos[me']] = me'
  <2>1. ASSUME NEW b \in Buckets, NEW s \in Nat, ReturnBegin(b, s)
        PROVE  me' = b /\ b \in live /\ job[pos[b]] = b
    BY <2>1 DEF ReturnBegin, Usable
  <2>2. CASE ReturnLoad \/ ReturnTest
    BY <2>2 DEF ReturnLoad, ReturnTest, Goto, Leave, SigInv, SigTypeOK, TableInv, Calling
  <2>3. QED
    BY <2>1, <2>2
<1>3. SigTypeOK'
  BY <1>1, <1>2 DEF ReturnBegin, ReturnLoad, ReturnTest, Goto, Leave, SigInv, SigTypeOK, PCs
<1>4. TableInv'
  BY <1>1, <1>2 DEF SigInv, TableInv, Leaving, Calling
<1>5. TokenInv'
  <2>1. ASSUME NEW b \in Buckets, NEW s \in Nat, ReturnBegin(b, s) PROVE TokenInv'
    BY <1>1, <2>1 DEF ReturnBegin, SigInv, TokenInv
  <2>2. CASE ReturnLoad
    BY <1>1, <1>2, <2>2 DEF ReturnLoad, SigInv, TokenInv
  <2>3. CASE ReturnTest
    BY <1>1, <2>3, SigAssumption DEF ReturnTest, Goto, Leave, SigInv, SigTypeOK, TokenInv
  <2>4. QED
    BY <2>1, <2>2, <2>3
<1>6. IdealInv => IdealInv'
  BY <1>1, <1>2, SigAssumption
     DEF ReturnBegin, ReturnLoad, ReturnTest, Goto, Leave, SigInv, SigTypeOK, IdealInv, AtMostIdeal
<1>7. QED
  BY <1>3, <1>4, <1>5, <1>6 DEF SigInv

LEMMA ReturnStoreKeeps ==
    ASSUME SigInv, ReturnStore
    PROVE  SigInv' /\ (IdealInv => IdealInv')
<1>1. /\ pc = "rstore" /\ pc' = "rtest"
      /\ token' = [token EXCEPT ![me] = r + size]
      /\ ideal' = [ideal EXCEPT ![me] = Least(ideal[me] + size, BURST)]
      /\ UNCHANGED <<me, size, n, r, job, live, pos, action, armed>>
  BY DEF ReturnStore, Goto, timer
<1>2. me \in live /\ me \in Buckets /\ 0 <= r /\ r <= BURST
  BY <1>1 DEF SigInv, SigTypeOK, TableInv, TokenInv, Calling
<1>3. /\ token'[me] = r + size /\ ideal'[me] = Least(ideal[me] + size, BURST)
      /\ \A c \in Buckets \ {me} : token'[c] = token[c] /\ ideal'[c] = ideal[c]
  BY <1>1, <1>2 DEF SigInv, SigTypeOK
<1>4. BURST \in Nat /\ ideal[me] \in Int /\ size \in Nat /\ Least(ideal[me] + size, BURST) \in Int
  BY <1>2, SigAssumption DEF SigInv, SigTypeOK, Least
<1>5. SigTypeOK'
  BY <1>1, <1>2, <1>4 DEF SigInv, SigTypeOK, PCs
<1>6. TableInv'
  BY <1>1 DEF SigInv, TableInv, Leaving, Calling
<1>7. TokenInv'
  BY <1>1, <1>2, <1>3, <1>4 DEF SigInv, SigTypeOK, TokenInv
<1>8. IdealInv => IdealInv'
  BY <1>1, <1>2, <1>3, <1>4 DEF SigInv, SigTypeOK, IdealInv, AtMostIdeal, Least
<1>9. QED
  BY <1>5, <1>6, <1>7, <1>8 DEF SigInv

LEMMA ReturnCapKeeps ==
    ASSUME SigInv, ReturnCap
    PROVE  SigInv' /\ (IdealInv => IdealInv')
<1>1. /\ pc = "rcap" /\ pc' = "out" /\ me' = NULL /\ size' = 0 /\ n' = 0 /\ r' = 0
      /\ token' = [token EXCEPT ![me] = BURST]
      /\ UNCHANGED <<job, live, pos, action, armed, ideal>>
  BY DEF ReturnCap, Leave, timer
<1>2. me \in live /\ me \in Buckets
  BY <1>1 DEF SigInv, SigTypeOK, TableInv, Calling
<1>3. token'[me] = BURST /\ \A c \in Buckets \ {me} : token'[c] = token[c]
  BY <1>1, <1>2 DEF SigInv, SigTypeOK
<1>4. SigTypeOK'
  <2>1. BURST \in Int
    BY SigAssumption
  <2>2. token' \in [Buckets -> Int]
    BY <1>1, <2>1 DEF SigInv, SigTypeOK
  <2>3. QED
    BY <1>1, <2>2 DEF SigInv, SigTypeOK, PCs
<1>5. TableInv'
  BY <1>1 DEF SigInv, TableInv, Leaving, Calling
<1>6. TokenInv'
  BY <1>1, <1>3, SigAssumption DEF SigInv, SigTypeOK, TokenInv
<1>7. IdealInv => IdealInv'
  BY <1>1, <1>2, <1>3, SigAssumption DEF SigInv, SigTypeOK, IdealInv, AtMostIdeal
<1>8. QED
  BY <1>4, <1>5, <1>6, <1>7 DEF SigInv

\* The slot is cleared before the bucket is freed.
LEMMA DestroyKeeps ==
    ASSUME SigInv, (\E b \in Buckets : DestroyBegin(b)) \/ DestroyClear \/ DestroyFree
    PROVE  SigInv' /\ (IdealInv => IdealInv')
<1>1. /\ UNCHANGED <<token, pos, action, armed, ideal>>
      /\ pc \in {"out", "clear", "free"} /\ pc' \in {"clear", "free", "out"}
      /\ live' \subseteq live
  BY DEF DestroyBegin, DestroyClear, DestroyFree, heap, timer, Goto, Leave
<1>2. pc = "clear" => me \in live /\ me \in Buckets /\ pos[me] \in Slots /\ job[pos[me]] = me
  BY DEF SigInv, SigTypeOK, TableInv, Calling
<1>3. SigTypeOK'
  BY <1>1, <1>2 DEF DestroyBegin, DestroyClear, DestroyFree, heap, Goto, Leave, SigInv, SigTypeOK, PCs
<1>4. TableInv'
  <2>1. ASSUME NEW b \in Buckets, DestroyBegin(b) PROVE TableInv'
    BY <1>1, <2>1 DEF DestroyBegin, heap, Usable, SigInv, TableInv, Leaving, Calling
  <2>2. CASE DestroyClear
    <3>1. job'[pos[me]] = NULL /\ \A s \in Slots \ {pos[me]} : job'[s] = job[s]
      BY <1>2, <2>2 DEF DestroyClear, SigInv, SigTypeOK
    <3>2. \A s \in Slots : job'[s] # me
      BY <1>2, <2>2, <3>1, SigAssumption DEF DestroyClear, SigInv, TableInv
    <3>3. QED
      BY <1>1, <1>2, <2>2, <3>1, <3>2 DEF DestroyClear, Goto, SigInv, TableInv, Leaving, Calling
  <2>3. CASE DestroyFree
    BY <1>1, <2>3 DEF DestroyFree, Leave, SigInv, TableInv, Leaving, Calling
  <2>4. QED
    BY <2>1, <2>2, <2>3
<1>5. TokenInv'
  BY <1>1 DEF SigInv, SigTypeOK, TokenInv
<1>6. IdealInv => IdealInv'
  BY <1>1 DEF SigInv, SigTypeOK, IdealInv, AtMostIdeal
<1>7. QED
  BY <1>3, <1>4, <1>5, <1>6 DEF SigInv

\* exit takes the handler away before the buckets.
LEMMA ExitKeeps ==
    ASSUME SigInv, InitNull \/ ExitRestore \/ ExitDisarm \/ ExitFree \/ TickKills
    PROVE  SigInv' /\ (IdealInv => IdealInv')
<1>1. UNCHANGED <<job, token, pos, me, size, n, r, ideal>> /\ live' \subseteq live
  BY DEF InitNull, ExitRestore, ExitDisarm, ExitFree, TickKills, heap, program
<1>2. SigTypeOK'
  BY <1>1 DEF InitNull, ExitRestore, ExitDisarm, ExitFree, TickKills, heap, program, timer,
              SigInv, SigTypeOK, PCs
<1>3. TableInv'
  BY <1>1 DEF InitNull, ExitRestore, ExitDisarm, ExitFree, TickKills, heap, program, timer, Running,
              SigInv, TableInv, Leaving, Calling
<1>4. (pc \in Leaving \cup {"out"} /\ pc' \in Leaving) \/ (pc = "out" /\ pc' = "out")
  BY DEF InitNull, ExitRestore, ExitDisarm, ExitFree, TickKills, program, SigInv, TableInv, Leaving
<1>5. TokenInv'
  BY <1>1, <1>4 DEF SigInv, TokenInv, Leaving
<1>6. IdealInv => IdealInv'
  BY <1>1, <1>4 DEF SigInv, IdealInv, AtMostIdeal, Leaving
<1>7. QED
  BY <1>2, <1>3, <1>5, <1>6 DEF SigInv

-----------------------------------------------------------------------------
(* The handler *)

LEMMA RefillIs ==
    ASSUME SigInv, NEW b \in Buckets
    PROVE  /\ Refill[b] = IF InTable(b) THEN Least(token[b] + CPS, BURST) ELSE token[b]
           /\ Refill[b] \in Int /\ 0 <= Refill[b]
           /\ Refill[b] <= BURST \/ Refill[b] = token[b]
           /\ token[b] <= BURST => token[b] <= Refill[b]
<1>1. token[b] \in Int /\ 0 <= token[b] /\ CPS \in Nat /\ BURST \in Nat
  BY SigAssumption DEF SigInv, SigTypeOK, TokenInv
<1>2. Refill[b] = IF InTable(b) THEN Least(token[b] + CPS, BURST) ELSE token[b]
  BY DEF Refill
<1>3. QED
  BY <1>1, <1>2 DEF Least

\* The handler adds to buckets, wherever the program is.
LEMMA DeliverKeeps ==
    ASSUME SigInv, NEW kernel \in BOOLEAN, Deliver(kernel), Running, action = "handler",
           ideal' \in [Buckets -> Int]
    PROVE  SigInv'
<1>1. /\ token' = token \/ token' = Refill
      /\ UNCHANGED <<job, live, pos, me, size, n, r, action, armed>>
      /\ pc' = IF pc = "pause" THEN "test" ELSE pc
  BY DEF Deliver, HandlerEnds, timer
<1>2. \A b \in Buckets : /\ token'[b] \in Int /\ 0 <= token'[b]
                         /\ token'[b] <= BURST \/ token'[b] = token[b]
                         /\ token[b] <= BURST => token[b] <= token'[b]
  BY <1>1, RefillIs DEF SigInv, SigTypeOK, TokenInv
<1>3. token' \in [Buckets -> Int]
  BY <1>1, <1>2 DEF Refill, SigInv, SigTypeOK
<1>4. SigTypeOK'
  <2>1. pc' \in PCs
    BY <1>1 DEF SigInv, SigTypeOK, PCs
  <2>2. UNCHANGED <<job, live, pos, me, size, n, r, action, armed>>
    BY <1>1
  <2>3. QED
    BY <1>3, <2>1, <2>2 DEF SigInv, SigTypeOK
<1>5. TableInv'
  BY <1>1 DEF SigInv, TableInv, Calling, Leaving
<1>6. TokenInv'
  <2>1. pc \in {"min", "fload"} => me \in Buckets /\ token[me] <= BURST
    BY SigAssumption DEF SigInv, SigTypeOK, TableInv, TokenInv, Calling
  <2>2. QED
    BY <1>1, <1>2, <2>1 DEF SigInv, SigTypeOK, TokenInv
<1>7. QED
  BY <1>4, <1>5, <1>6 DEF SigInv

\* A tick of the kernel's fills the ideal bucket too; another process's is heeded
\* by nobody.
LEMMA TickIdeal ==
    ASSUME SigInv, IdealInv, Foreign => SiCode, Tick \/ ForeignTick
    PROVE  IdealInv'
<1>1. /\ UNCHANGED <<live, me, size, n, r>>
      /\ pc' = IF pc = "pause" THEN "test" ELSE pc
      /\ pc \notin {"ended", "killed"}
  BY DEF Tick, ForeignTick, Deliver, HandlerEnds, Running
<1>2. CASE ForeignTick
  <2>1. token' = token /\ ideal' = ideal
    BY <1>2, SigAssumption DEF ForeignTick, Deliver, Heeds
  <2>2. QED
    BY <1>1, <2>1 DEF IdealInv, AtMostIdeal
<1>3. CASE Tick
  <2>1. \A b \in Buckets :
            /\ token'[b] = Refill[b]
            /\ ideal'[b] = IF InTable(b) THEN Least(ideal[b] + CPS, BURST) ELSE ideal[b]
    BY <1>3 DEF Tick, Deliver, Heeds
  <2>2. \A b \in Buckets : /\ ideal[b] \in Int /\ 0 <= ideal[b] /\ ideal[b] <= BURST
                           /\ token[b] \in Int /\ CPS \in Nat /\ BURST \in Nat
    BY SigAssumption DEF SigInv, SigTypeOK, IdealInv
  <2>3. \A b \in Buckets :
            /\ 0 <= ideal'[b] /\ ideal'[b] <= BURST /\ ideal[b] <= ideal'[b]
            /\ token[b] <= ideal[b] => token'[b] <= ideal'[b]
    <3> SUFFICES ASSUME NEW b \in Buckets
                 PROVE  /\ 0 <= ideal'[b] /\ ideal'[b] <= BURST /\ ideal[b] <= ideal'[b]
                        /\ token[b] <= ideal[b] => token'[b] <= ideal'[b]
      OBVIOUS
    <3>1. token'[b] = IF InTable(b) THEN Least(token[b] + CPS, BURST) ELSE token[b]
      BY <2>1, RefillIs
    <3>2. QED
      BY <2>1, <2>2, <3>1 DEF Least
  <2>4. AtMostIdeal'
    <3> SUFFICES ASSUME NEW b \in live
                 PROVE  \/ token'[b] <= ideal'[b]
                        \/ b = me /\ pc \in {"rtest", "rcap"} /\ ideal'[b] = BURST
      BY <1>1 DEF AtMostIdeal
    <3>1. b \in Buckets /\ ideal'[b] \in Int
      BY <2>1, <2>2 DEF Least, SigInv, SigTypeOK
    <3>2. token[b] <= ideal[b] \/ (b = me /\ pc \in {"rtest", "rcap"} /\ ideal[b] = BURST)
      BY DEF IdealInv, AtMostIdeal
    <3>3. QED
      BY <2>2, <2>3, <3>1, <3>2
  <2>5. pc' \in {"fstore", "rstore"} => r <= ideal'[me]
    <3>1. SUFFICES ASSUME pc \in {"fstore", "rstore"} PROVE r <= ideal'[me]
      BY <1>1
    <3>2. me \in Buckets /\ r \in Int /\ r <= ideal[me]
      BY <3>1 DEF SigInv, SigTypeOK, TableInv, Calling, IdealInv
    <3>3. ideal'[me] \in Int
      BY <2>1, <2>2, <3>2 DEF Least
    <3>4. QED
      BY <2>2, <2>3, <3>2, <3>3
  <2>6. pc' = "rcap" => ideal'[me] = BURST
    <3>1. SUFFICES ASSUME pc = "rcap" PROVE ideal'[me] = BURST
      BY <1>1
    <3>2. me \in Buckets /\ ideal[me] = BURST
      BY <3>1 DEF SigInv, SigTypeOK, TableInv, Calling, IdealInv
    <3>3. QED
      BY <2>1, <2>2, <3>2 DEF Least
  <2>7. QED
    BY <1>1, <2>3, <2>4, <2>5, <2>6 DEF IdealInv
<1>4. QED
  BY <1>2, <1>3

-----------------------------------------------------------------------------
(* The library's invariants *)

LEMMA LibraryKeeps == SigInv /\ Library => SigInv'
<1> SUFFICES ASSUME SigInv, Library PROVE SigInv'
  OBVIOUS
<1>1. CASE Signal
  <2>1. CASE Tick
    <3>1. \A b \in Buckets : ideal[b] \in Int /\ CPS \in Int /\ BURST \in Int
      BY SigAssumption DEF SigInv, SigTypeOK
    <3>2. ideal' \in [Buckets -> Int]
      BY <2>1, <3>1 DEF Tick, Least
    <3>3. QED
      BY <2>1, <3>2, DeliverKeeps DEF Tick
  <2>2. CASE ForeignTick
    BY <2>2, DeliverKeeps DEF ForeignTick, SigInv, SigTypeOK
  <2>3. CASE TickKills
    BY <2>3, ExitKeeps
  <2>4. QED
    BY <1>1, <2>1, <2>2, <2>3 DEF Signal
<1>2. CASE ~Signal
  BY <1>2, InitBeginKeeps, InitPlaceKeeps, FetchKeeps, FetchStoreKeeps, ReturnKeeps,
     ReturnStoreKeeps, ReturnCapKeeps, DestroyKeeps, ExitKeeps DEF Library, Step
<1>3. QED
  BY <1>1, <1>2

LEMMA IdealKept == (Foreign => SiCode) /\ SigInv /\ IdealInv /\ Library => IdealInv'
<1> SUFFICES ASSUME Foreign => SiCode, SigInv, IdealInv, Library PROVE IdealInv'
  OBVIOUS
<1>1. CASE Signal
  BY <1>1, TickIdeal, ExitKeeps DEF Signal
<1>2. CASE ~Signal
  BY <1>2, InitBeginKeeps, InitPlaceKeeps, FetchKeeps, FetchStoreKeeps, ReturnKeeps,
     ReturnStoreKeeps, ReturnCapKeeps, DestroyKeeps, ExitKeeps DEF Library, Step
<1>3. QED
  BY <1>1, <1>2

LEMMA SigStutters == UNCHANGED vars => (SigInv => SigInv') /\ (IdealInv => IdealInv')
BY DEF vars, heap, program, timer, SigInv, SigTypeOK, TableInv, TokenInv, IdealInv, AtMostIdeal

LEMMA NextIsLibrary == Next => Library
BY SigAssumption DEF Next, Begin, Library

LEMMA SigGrants == SigInv => GrantIsCovered
BY DEF SigInv, TokenInv, GrantIsCovered

LEMMA SigTouchesLive == SigInv => HandlerTouchesLive
BY DEF SigInv, TableInv, HandlerTouchesLive, Leaving

THEOREM SigInvariant == Spec => []SigInv
<1>1. Init => SigInv
  BY InitSig
<1>2. SigInv /\ [Next]_vars => SigInv'
  BY LibraryKeeps, NextIsLibrary, SigStutters
<1>3. QED
  BY <1>1, <1>2, PTL DEF Spec

\* For any client of the library: the handler meets only buckets that mytbf_init
\* has filled in and mytbf_destroy and exit have not freed.
THEOREM TouchesLive == Spec => []HandlerTouchesLive
BY SigInvariant, SigTouchesLive, PTL

\* For any client: no caller is granted a token that is not there.
THEOREM GrantsCovered == Spec => []GrantIsCovered
BY SigInvariant, SigGrants, PTL

\* For any client: no race of the handler with a load and a store makes tokens,
\* unless mytbf, which does not look at si_code, counts a foreign signal for a tick.
THEOREM TokensReal == (Foreign => SiCode) => (Spec => []TokensAreReal)
<1> SUFFICES ASSUME Foreign => SiCode PROVE Spec => []TokensAreReal
  OBVIOUS
<1>1. Init => SigInv /\ IdealInv
  BY InitSig
<1>2. SigInv /\ IdealInv /\ [Next]_vars => SigInv' /\ IdealInv'
  BY LibraryKeeps, IdealKept, NextIsLibrary, SigStutters
<1>3. SigInv /\ IdealInv => TokensAreReal
  BY SigGrants DEF IdealInv, TokensAreReal
<1>4. QED
  BY <1>1, <1>2, <1>3, PTL DEF Spec

-----------------------------------------------------------------------------
(* The invariant of main.c *)

Active == {"open", "fetch", "fetching", "read", "return", "write"}

\* Bytes read and not written.
Pending == IF mpc \in {"return", "write"} /\ len > 0 THEN len ELSE 0

\* Tokens that main has, or has given to a mytbf_returntoken that has not stored.
Held ==
    Pending + (IF mpc = "read" THEN granted ELSE 0)
            + (IF mpc = "return" THEN granted - len ELSE 0)
            + (IF pc \in {"rload", "rstore"} THEN size ELSE 0)

MainTypeOK ==
    /\ mpc \in Active \cup {"init", "destroy", "done", "failed"}
    /\ offset \in 0 .. Length
    /\ buf \in Seq(Int) /\ out \in Seq(Int)
    /\ len \in Int /\ -1 <= len
    /\ granted \in Nat
    /\ ticks \in Nat /\ fails \in Nat
    /\ short \in BOOLEAN

CallInv ==
    /\ mpc \in {"init", "read", "return", "destroy"} => pc = "out"
    /\ mpc = "open" => pc \in {"place", "out"}
    /\ mpc = "fetching" => pc \in {"test", "topause", "pause", "min", "fload", "fstore"}
    /\ mpc \in {"fetch", "write"} => pc \in {"out", "rload", "rstore", "rtest", "rcap"}
    /\ mpc = "done" => pc \in {"out", "clear", "free"} \cup Leaving
    /\ mpc = "failed" => pc \in {"out"} \cup Leaving
    /\ mpc = "init" => live = {} /\ ~armed
    /\ mpc \in Active \cup {"destroy"} => action = "handler" /\ live = {tbf}
    /\ mpc = "fetching" => size = BUFSIZE
    /\ mpc = "read" => granted > 0
    /\ mpc = "return" => len <= granted
    /\ mpc = "write" => len > 0

\* What was read and is not written is in the buffer; until a write is short, what
\* is written is the beginning of the file and the buffer what follows.
CopyInv ==
    /\ mpc # "failed" => Len(out) + Pending = offset
    /\ Len(out) <= offset
    /\ mpc \in {"destroy", "done"} => offset = Length
    /\ Pending <= Len(buf)
    /\ ~short => /\ \A j \in 1 .. Len(out) : out[j] = j
                 /\ \A j \in 1 .. Pending : buf[j] = Len(out) + j

\* The tokens of an ideal bucket, those that main has and the bytes written are no
\* more than the ticks have brought and the failed reads have given away.
RateInv ==
    \/ ticks > Length
    \/ /\ Len(out) <= CPS * ticks + fails
       /\ mpc \in Active => ideal[tbf] + Held + Len(out) <= CPS * ticks + fails

MainInv == MainTypeOK /\ CallInv /\ CopyInv /\ RateInv

\* What is in the buffer was read just before offset, BUFSIZE bytes at most, and
\* what is written is never early nor BUFSIZE bytes late.
PieceInv ==
    /\ \A j \in 1 .. Len(out) : out[j] <= j /\ j < out[j] + BUFSIZE
    /\ mpc = "read" => granted <= BUFSIZE
    /\ Pending > 0 => /\ Len(buf) <= BUFSIZE
                      /\ \A j \in 1 .. Len(buf) : buf[j] = offset - Len(buf) + j

LEMMA TbfIs ==
    /\ \A b : live = {b} => tbf = b
    /\ live # {} => tbf \in live
    /\ live' = live => tbf' = tbf
<1>1. live # {} => tbf \in live
  BY DEF tbf
<1>2. live' = live => tbf' = tbf
  BY DEF tbf
<1>3. QED
  BY <1>1, <1>2

LEMMA SliceIs ==
    ASSUME NEW s \in Seq(Int), NEW k \in Nat, k <= Len(s)
    PROVE  /\ SubSeq(s, 1, k) \in Seq(Int) /\ Len(SubSeq(s, 1, k)) = k
           /\ \A j \in 1 .. k : SubSeq(s, 1, k)[j] = s[j]
<1>1. \A j \in 1 .. k : s[j] \in Int
  BY ElementOfSeq
<1>2. QED
  BY <1>1, SubSeqProperties

LEMMA InitMainInv == InitMain => MainInv
<1> SUFFICES ASSUME InitMain PROVE MainInv
  OBVIOUS
<1>1. <<>> \in Seq(Int) /\ Len(<<>>) = 0
  OBVIOUS
<1>2. MainTypeOK
  <2>1. 0 \in 0 .. Length /\ -1 <= 0
    BY CopyAssumption
  <2>2. mpc = "init" /\ offset = 0 /\ buf = <<>> /\ len = 0 /\ granted = 0 /\ out = <<>>
        /\ ticks = 0 /\ fails = 0 /\ short = FALSE
    BY DEF InitMain
  <2>3. buf \in Seq(Int) /\ out \in Seq(Int)
    BY <1>1, <2>2
  <2>4. offset \in 0 .. Length /\ len \in Int /\ -1 <= len
    BY <2>1, <2>2
  <2>5. granted \in Nat /\ ticks \in Nat /\ fails \in Nat /\ short \in BOOLEAN
    BY <2>2
  <2>6. QED
    BY <2>2, <2>3, <2>4, <2>5 DEF MainTypeOK
<1>3. CallInv
  BY DEF InitMain, Init, CallInv, Active
<1>4. CopyInv
  BY <1>1 DEF InitMain, CopyInv, Pending
<1>5. RateInv
  BY <1>1, SigAssumption DEF InitMain, RateInv, Active
<1>6. QED
  BY <1>2, <1>3, <1>4, <1>5 DEF MainInv

-----------------------------------------------------------------------------
(* The steps of main.c *)

\* The sums that RateInv speaks of are integers.
LEMMA SumsAreInts ==
    ASSUME SigInv, MainInv
    PROVE  /\ Len(out) \in Nat /\ Len(buf) \in Nat /\ Pending \in Nat /\ Held \in Int
           /\ CPS * ticks \in Nat /\ Length \in Nat /\ CPS \in Nat /\ BUFSIZE \in Nat
           /\ len \in Int /\ granted \in Nat /\ offset \in Nat /\ size \in Nat
           /\ mpc \in Active => tbf \in Buckets /\ ideal[tbf] \in Int
<1>1. CPS \in Nat /\ ticks \in Nat /\ size \in Nat /\ granted \in Nat /\ len \in Int
  BY SigAssumption DEF MainInv, MainTypeOK, SigInv, SigTypeOK
<1>2. Pending \in Nat
  BY <1>1 DEF Pending
<1>3. Held \in Int
  BY <1>1, <1>2 DEF Held
<1>4. Len(out) \in Nat /\ Len(buf) \in Nat
  BY DEF MainInv, MainTypeOK
<1>5. CPS * ticks \in Nat
  BY <1>1
<1>6. Length \in Nat /\ BUFSIZE \in Nat /\ offset \in Nat
  BY CopyAssumption DEF MainInv, MainTypeOK
<1>7. mpc \in Active => tbf \in Buckets /\ ideal[tbf] \in Int
  BY TbfIs DEF MainInv, CallInv, SigInv, SigTypeOK
<1>8. QED
  BY <1>1, <1>2, <1>3, <1>4, <1>5, <1>6, <1>7

LEMMA MainInitKeeps ==
    ASSUME SigInv, MainInv, MainInit
    PROVE  MainInv'
<1>1. PICK b \in Buckets : InitBegin(b)
  BY DEF MainInit
<1>2. /\ mpc = "init" /\ pc = "out" /\ mpc' = "open" /\ pc' = "place"
      /\ live' = live \cup {b} /\ action' = "handler" /\ ideal' = [ideal EXCEPT ![b] = 0]
      /\ UNCHANGED <<size, offset, buf, len, granted, out, ticks, fails, short>>
  BY <1>1 DEF MainInit, At, InitBegin
<1>3. live' = {b} /\ tbf' = b /\ ideal'[b] = 0
  BY <1>2 DEF MainInv, CallInv, SigInv, SigTypeOK, tbf
<1>4. MainTypeOK'
  BY <1>2 DEF MainInv, MainTypeOK, Active
<1>5. CallInv'
  BY <1>2, <1>3 DEF CallInv, Active
<1>6. Pending' = 0 /\ Pending = 0 /\ Held' = 0
  BY <1>2 DEF Pending, Held
<1>7. CopyInv'
  BY <1>2, <1>6, SumsAreInts DEF MainInv, CopyInv
<1>8. RateInv'
  BY <1>2, <1>3, <1>6, SumsAreInts DEF MainInv, RateInv
<1>9. QED
  BY <1>4, <1>5, <1>7, <1>8 DEF MainInv

\* exit(1), before the library has been called or after.
LEMMA MainFailsKeeps ==
    ASSUME SigInv, MainInv, MainInitFails \/ MainWriteFails
    PROVE  MainInv'
<1>1. /\ pc' = "out" /\ mpc' = "failed"
      /\ UNCHANGED <<offset, buf, len, granted, out, ticks, fails, short>>
  BY DEF MainInitFails, MainWriteFails, InitNull, At, vars, program
<1>2. MainTypeOK'
  BY <1>1 DEF MainInv, MainTypeOK, Active
<1>3. CallInv'
  BY <1>1 DEF CallInv, Active
<1>4. Pending' = 0
  BY <1>1 DEF Pending
<1>5. CopyInv'
  BY <1>1, <1>4, SumsAreInts DEF MainInv, CopyInv
<1>6. RateInv'
  BY <1>1 DEF MainInv, RateInv, Active
<1>7. QED
  BY <1>2, <1>3, <1>5, <1>6 DEF MainInv

\* A step that leaves what main has read, written and been granted as it is.
Held0 == UNCHANGED <<offset, buf, len, granted, out, ticks, fails, short>>

LEMMA MainOpenKeeps ==
    ASSUME SigInv, MainInv, MainOpen
    PROVE  MainInv'
<1>1. /\ mpc = "open" /\ pc = "out" /\ mpc' \in {"fetch", "failed"}
      /\ UNCHANGED <<pc, size, live, action, ideal>> /\ Held0
  BY DEF MainOpen, At, Held0, vars, heap, program, timer
<1>2. MainTypeOK'
  BY <1>1 DEF MainInv, MainTypeOK, Active, Held0
<1>3. tbf' = tbf
  BY <1>1, TbfIs
<1>4. CallInv'
  BY <1>1, <1>3 DEF MainInv, CallInv, Active
<1>5. Pending' = 0 /\ Pending = 0 /\ Held' = 0 /\ Held = 0
  BY <1>1 DEF Pending, Held, Held0
<1>6. CopyInv'
  BY <1>1, <1>5, SumsAreInts DEF MainInv, CopyInv, Held0
<1>7. RateInv'
  BY <1>1, <1>3, <1>5 DEF MainInv, RateInv, Active, Held0
<1>8. QED
  BY <1>2, <1>4, <1>6, <1>7 DEF MainInv

LEMMA MainFetchKeeps ==
    ASSUME SigInv, MainInv, MainFetch
    PROVE  MainInv'
<1>1. /\ mpc = "fetch" /\ pc = "out" /\ mpc' = "fetching" /\ pc' = "test" /\ size' = BUFSIZE
      /\ UNCHANGED <<live, action, ideal>> /\ Held0
  BY DEF MainFetch, FetchBegin, At, Held0, heap, timer
<1>2. MainTypeOK'
  BY <1>1 DEF MainInv, MainTypeOK, Active, Held0
<1>3. tbf' = tbf
  BY <1>1, TbfIs
<1>4. CallInv'
  BY <1>1, <1>3 DEF MainInv, CallInv, Active
<1>5. Pending' = 0 /\ Pending = 0 /\ Held' = 0 /\ Held = 0
  BY <1>1 DEF Pending, Held, Held0
<1>6. CopyInv'
  BY <1>1, <1>5, SumsAreInts DEF MainInv, CopyInv, Held0
<1>7. RateInv'
  BY <1>1, <1>3, <1>5 DEF MainInv, RateInv, Active, Held0
<1>8. QED
  BY <1>2, <1>4, <1>6, <1>7 DEF MainInv

\* What read gives becomes pending; the end of the file is met when all is written.
LEMMA MainReadKeeps ==
    ASSUME SigInv, IdealInv, MainInv, MainRead
    PROVE  MainInv'
<1>1. /\ mpc = "read" /\ pc = "out"
      /\ UNCHANGED <<pc, size, live, action, ideal, granted, out, ticks, fails, short>>
  BY DEF MainRead, At, vars, heap, program, timer
<1>2. PICK k \in 0 .. Least(granted, Length - offset) :
          /\ k = 0 => offset = Length \/ granted = 0
          /\ len' = k
          /\ buf' = [j \in 1 .. k |-> offset + j]
          /\ offset' = offset + k
          /\ mpc' = IF k = 0 THEN "destroy"
                    ELSE IF granted > k THEN "return" ELSE "write"
  BY DEF MainRead
<1>3. /\ granted \in Nat /\ granted > 0 /\ offset \in Nat /\ Length \in Nat
      /\ offset <= Length /\ Len(out) = offset /\ Pending = 0
  BY <1>1, SumsAreInts DEF MainInv, MainTypeOK, CallInv, CopyInv, Pending
<1>4. k \in Nat /\ k <= granted /\ k <= Length - offset
  BY <1>3 DEF Least
<1>5. /\ buf' \in Seq(Int) /\ Len(buf') = k /\ \A j \in 1 .. k : buf'[j] = offset + j
  BY <1>2, <1>3, <1>4
<1>6. /\ k = 0 => mpc' = "destroy" /\ offset = Length
      /\ k > 0 /\ k < granted => mpc' = "return"
      /\ k > 0 /\ k = granted => mpc' = "write"
  BY <1>2, <1>3, <1>4
<1>7. MainTypeOK'
  <2>1. offset' \in 0 .. Length /\ len' \in Int /\ -1 <= len'
    BY <1>2, <1>3, <1>4
  <2>2. mpc' \in {"destroy", "return", "write"}
    BY <1>2
  <2>3. QED
    BY <1>1, <1>5, <2>1, <2>2 DEF MainInv, MainTypeOK, Active
<1>8. tbf' = tbf
  BY <1>1, TbfIs
<1>9. CallInv'
  BY <1>1, <1>2, <1>3, <1>4, <1>6, <1>8 DEF MainInv, CallInv, Active
<1>10. Pending' = k
  BY <1>2, <1>3, <1>4, <1>6 DEF Pending
<1>11. CopyInv'
  BY <1>1, <1>2, <1>3, <1>4, <1>5, <1>6, <1>10 DEF MainInv, CopyInv
<1>12. Held = granted /\ (k > 0 => Held' = granted)
  BY <1>1, <1>2, <1>3, <1>4, <1>6, <1>10 DEF Held
<1>13. RateInv'
  BY <1>1, <1>4, <1>6, <1>8, <1>12 DEF MainInv, RateInv, Active
<1>14. QED
  BY <1>7, <1>9, <1>11, <1>13 DEF MainInv

\* One token too many is going to be returned: the failed read pays for it.
LEMMA MainReadFailsKeeps ==
    ASSUME SigInv, MainInv, MainReadFails
    PROVE  MainInv'
<1>1. /\ mpc = "read" /\ pc = "out" /\ mpc' = "return" /\ len' = -1 /\ buf' = <<>>
      /\ fails' = fails + 1
      /\ UNCHANGED <<pc, size, live, action, ideal, offset, granted, out, ticks, short>>
  BY DEF MainReadFails, At, vars, heap, program, timer
<1>2. buf' \in Seq(Int) /\ Len(buf') = 0
  BY <1>1
<1>3. MainTypeOK'
  BY <1>1, <1>2 DEF MainInv, MainTypeOK, Active
<1>4. tbf' = tbf
  BY <1>1, TbfIs
<1>5. granted \in Nat /\ fails \in Nat
  BY DEF MainInv, MainTypeOK
<1>6. CallInv'
  BY <1>1, <1>4, <1>5 DEF MainInv, CallInv, Active
<1>7. Pending = 0 /\ Pending' = 0 /\ Held = granted /\ Held' = granted + 1
  BY <1>1, <1>5 DEF Pending, Held
<1>8. CopyInv'
  BY <1>1, <1>2, <1>7, SumsAreInts DEF MainInv, CopyInv
<1>9. RateInv'
  <2>1. \/ ticks > Length
        \/ Len(out) <= CPS * ticks + fails /\ ideal[tbf] + Held + Len(out) <= CPS * ticks + fails
    BY <1>1 DEF MainInv, RateInv, Active
  <2>2. ideal[tbf] \in Int /\ Len(out) \in Nat /\ CPS * ticks \in Nat
    BY <1>1, SumsAreInts DEF Active
  <2>3. QED
    BY <1>1, <1>4, <1>5, <1>7, <2>1, <2>2, SMTT(60) DEF RateInv
<1>10. QED
  BY <1>3, <1>6, <1>8, <1>9 DEF MainInv

LEMMA MainReturnKeeps ==
    ASSUME SigInv, MainInv, MainReturn
    PROVE  MainInv'
<1>1. /\ mpc = "return" /\ pc = "out" /\ pc' = "rload" /\ size' = granted - len
      /\ mpc' = IF len > 0 THEN "write" ELSE "fetch"
      /\ UNCHANGED <<live, action, ideal>> /\ Held0
  BY DEF MainReturn, ReturnBegin, At, Held0, heap, timer
<1>2. MainTypeOK'
  BY <1>1 DEF MainInv, MainTypeOK, Active, Held0
<1>3. tbf' = tbf
  BY <1>1, TbfIs
<1>4. CallInv'
  BY <1>1, <1>3 DEF MainInv, CallInv, Active, Held0
<1>5. Pending' = Pending
  BY <1>1 DEF Pending, Held0
<1>6. Held' = Held
  BY <1>1, <1>5, SumsAreInts DEF Held, Held0
<1>7. CopyInv'
  BY <1>1, <1>5 DEF MainInv, CopyInv, Held0
<1>8. RateInv'
  BY <1>1, <1>3, <1>6 DEF MainInv, RateInv, Active, Held0
<1>9. QED
  BY <1>2, <1>4, <1>7, <1>8 DEF MainInv

\* The bytes go from the pending to the written.
LEMMA MainWriteKeeps ==
    ASSUME SigInv, IdealInv, MainInv, MainWrite
    PROVE  MainInv'
<1>1. /\ mpc = "write" /\ pc = "out"
      /\ UNCHANGED <<pc, size, live, action, ideal, offset, ticks, fails>>
  BY DEF MainWrite, At, vars, heap, program, timer
<1>2. PICK k \in 1 .. len :
          /\ short' = (short \/ k < len)
          /\ out' = out \o SubSeq(buf, 1, k)
          /\ len' = len - k
          /\ IF k = len THEN mpc' = "fetch" /\ buf' = <<>> /\ granted' = 0
                        ELSE mpc' = mpc /\ buf' = buf /\ granted' = granted
  BY DEF MainWrite
<1>3. /\ len \in Nat /\ len > 0 /\ Pending = len /\ len <= Len(buf) /\ Len(out) + len = offset
      /\ Len(out) \in Nat /\ Len(buf) \in Nat /\ offset \in Nat
  BY <1>1, SumsAreInts DEF MainInv, MainTypeOK, CallInv, CopyInv, Pending
<1>4. k \in Nat /\ 1 <= k /\ k <= len
  BY <1>3
<1>5. buf \in Seq(Int) /\ out \in Seq(Int)
  BY DEF MainInv, MainTypeOK
<1> DEFINE part == SubSeq(buf, 1, k)
<1>6. part \in Seq(Int) /\ Len(part) = k
  BY <1>3, <1>4, <1>5, SliceIs
<1>7. \A j \in 1 .. k : part[j] = buf[j]
  BY <1>3, <1>4, <1>5, SliceIs
<1> HIDE DEF part
<1>8. out' = out \o part
  BY <1>2 DEF part
<1>9. out' \in Seq(Int)
  BY <1>6, <1>5, <1>8, ConcatProperties
<1>10. Len(out') = Len(out) + k
  BY <1>6, <1>5, <1>8, ConcatProperties
<1>11. /\ \A j \in 1 .. Len(out) : out'[j] = out[j]
       /\ \A j \in Len(out) + 1 .. Len(out) + k : out'[j] = part[j - Len(out)]
  BY <1>6, <1>5, <1>8, ConcatProperties
<1>12. /\ k = len => mpc' = "fetch" /\ buf' = <<>> /\ granted' = 0
       /\ k # len => mpc' = "write" /\ buf' = buf /\ granted' = granted
  BY <1>1, <1>2
<1>13. <<>> \in Seq(Int) /\ Len(<<>>) = 0
  OBVIOUS
<1>14. MainTypeOK'
  <2>1. len' \in Int /\ -1 <= len' /\ short' \in BOOLEAN
    BY <1>2, <1>3, <1>4 DEF MainInv, MainTypeOK
  <2>2. mpc' \in {"fetch", "write"} /\ buf' \in Seq(Int) /\ granted' \in Nat
    <3>1. granted \in Nat
      BY DEF MainInv, MainTypeOK
    <3>2. CASE k = len
      BY <1>12, <1>13, <3>2
    <3>3. CASE k # len
      BY <1>12, <1>5, <3>1, <3>3
    <3>4. QED
      BY <3>2, <3>3
  <2>3. QED
    BY <1>1, <1>9, <2>1, <2>2 DEF MainInv, MainTypeOK, Active
<1>15. tbf' = tbf
  BY <1>1, TbfIs
<1>16. CallInv'
  BY <1>1, <1>2, <1>3, <1>4, <1>12, <1>15 DEF MainInv, CallInv, Active
<1>17. Pending' = len - k
  BY <1>2, <1>3, <1>4, <1>12 DEF Pending
<1>18. CopyInv'
  <2>1. Pending' <= Len(buf')
    <3>1. CASE k = len
      BY <1>3, <1>12, <1>13, <1>17, <3>1
    <3>2. CASE k # len
      BY <1>3, <1>4, <1>12, <1>17, <3>2
    <3>3. QED
      BY <3>1, <3>2
  <2>2. ASSUME ~short'
        PROVE  /\ \A j \in 1 .. Len(out') : out'[j] = j
               /\ \A j \in 1 .. Pending' : buf'[j] = Len(out') + j
    <3>1. ~short /\ k = len
      <4>1. ~(short \/ k < len)
        BY <1>2, <2>2
      <4>2. QED
        BY <1>3, <1>4, <4>1
    <3>2. /\ \A j \in 1 .. Len(out) : out[j] = j
          /\ \A j \in 1 .. len : buf[j] = Len(out) + j
      BY <1>3, <3>1 DEF MainInv, CopyInv
    <3>4. \A j \in Len(out) + 1 .. Len(out) + k : out'[j] = j
      <4> SUFFICES ASSUME NEW j \in Len(out) + 1 .. Len(out) + k PROVE out'[j] = j
        OBVIOUS
      <4>1. j - Len(out) \in 1 .. k /\ j \in Int
        BY <1>3, <1>4
      <4>2. out'[j] = buf[j - Len(out)]
        BY <1>7, <1>11, <4>1
      <4>3. buf[j - Len(out)] = Len(out) + (j - Len(out))
        BY <3>1, <3>2, <4>1
      <4>4. QED
        BY <1>3, <4>1, <4>2, <4>3
    <3>5. \A j \in 1 .. Len(out') : out'[j] = j
      <4> SUFFICES ASSUME NEW j \in 1 .. Len(out') PROVE out'[j] = j
        OBVIOUS
      <4>1. CASE j <= Len(out)
        <5>1. j \in 1 .. Len(out)
          BY <1>3, <1>4, <1>10, <4>1
        <5>2. QED
          BY <1>11, <3>2, <5>1
      <4>2. CASE ~(j <= Len(out))
        <5>1. j \in Len(out) + 1 .. Len(out) + k
          BY <1>3, <1>4, <1>10, <4>2
        <5>2. QED
          BY <3>4, <5>1
      <4>3. QED
        BY <4>1, <4>2
    <3>6. Pending' = 0
      BY <1>3, <1>17, <3>1
    <3>7. QED
      BY <3>5, <3>6
  <2>3. Len(out') + Pending' = offset /\ Len(out') <= offset
    BY <1>3, <1>4, <1>10, <1>17
  <2>4. mpc' \in {"fetch", "write"}
    BY <1>12
  <2>5. QED
    BY <1>1, <2>1, <2>2, <2>3, <2>4 DEF CopyInv
<1>19. Held = len /\ Held' = len - k
  BY <1>1, <1>3, <1>4, <1>12, <1>17 DEF Held
<1>20. RateInv'
  <2>1. \/ ticks > Length
        \/ Len(out) <= CPS * ticks + fails /\ ideal[tbf] + Held + Len(out) <= CPS * ticks + fails
    BY <1>1 DEF MainInv, RateInv, Active
  <2>2. tbf \in Buckets /\ ideal[tbf] \in Int /\ CPS * ticks \in Nat
    BY <1>1, SumsAreInts DEF Active
  <2>3. fails \in Nat /\ 0 <= ideal[tbf]
    BY <2>2 DEF IdealInv, MainInv, MainTypeOK
  <2>4. CASE ticks > Length
    BY <1>1, <2>4 DEF RateInv
  <2>5. CASE Len(out) <= CPS * ticks + fails /\ ideal[tbf] + Held + Len(out) <= CPS * ticks + fails
    <3>1. Len(out') <= CPS * ticks + fails /\ ideal[tbf] + Held' + Len(out') <= CPS * ticks + fails
      <4> DEFINE c == CPS * ticks
      <4>1. c \in Nat /\ ideal[tbf] + Held + Len(out) <= c + fails
        BY <2>2, <2>5
      <4> HIDE DEF c
      <4>2. Len(out') <= c + fails /\ ideal[tbf] + Held' + Len(out') <= c + fails
        BY <1>3, <1>4, <1>19, <1>10, <2>2, <2>3, <4>1, SMTT(60)
      <4>3. QED
        BY <4>2 DEF c
    <3>2. QED
      BY <1>1, <1>15, <3>1 DEF RateInv
  <2>6. QED
    BY <2>1, <2>4, <2>5
<1>21. QED
  BY <1>14, <1>16, <1>18, <1>20 DEF MainInv

LEMMA MainDestroyKeeps ==
    ASSUME SigInv, MainInv, MainDestroy
    PROVE  MainInv'
<1>1. /\ mpc = "destroy" /\ pc = "out" /\ mpc' = "done" /\ pc' = "clear" /\ Held0
  BY DEF MainDestroy, DestroyBegin, At, Held0
<1>2. MainTypeOK'
  BY <1>1 DEF MainInv, MainTypeOK, Active, Held0
<1>3. CallInv'
  BY <1>1 DEF CallInv, Active
<1>4. Pending' = 0 /\ Pending = 0
  BY <1>1 DEF Pending
<1>5. CopyInv'
  BY <1>1, <1>4 DEF MainInv, CopyInv, Held0
<1>6. RateInv'
  BY <1>1 DEF MainInv, RateInv, Active, Held0
<1>7. QED
  BY <1>2, <1>3, <1>5, <1>6 DEF MainInv

LEMMA MainExitKeeps ==
    ASSUME SigInv, MainInv, MainExit
    PROVE  MainInv'
<1>1. /\ mpc \in {"done", "failed"} /\ pc = "out" /\ pc' = "disarm" /\ UNCHANGED mpc /\ Held0
  BY DEF MainExit, ExitRestore, Held0, mainVars
<1>2. MainTypeOK'
  BY <1>1 DEF MainInv, MainTypeOK, Held0
<1>3. CallInv'
  BY <1>1 DEF CallInv, Active, Leaving
<1>4. Pending' = Pending
  BY <1>1 DEF Pending, Held0
<1>5. CopyInv'
  BY <1>1, <1>4 DEF MainInv, CopyInv, Held0
<1>6. RateInv'
  BY <1>1 DEF MainInv, RateInv, Active, Held0
<1>7. QED
  BY <1>2, <1>3, <1>5, <1>6 DEF MainInv

\* Inside a call: mytbf_fetchtoken hands over what it takes from the ideal bucket,
\* mytbf_returntoken gives the bucket no more than it was called with.
LEMMA InLibraryKeeps ==
    ASSUME SigInv, IdealInv, MainInv, InLibrary
    PROVE  MainInv'
<1>1. Step /\ UNCHANGED <<offset, buf, len, out, ticks, fails, short>>
      /\ (IF pc = "fstore" THEN granted' = n /\ mpc' = "read" ELSE UNCHANGED <<granted, mpc>>)
  BY DEF InLibrary
<1>2. CASE pc = "fstore"
  <2>1. FetchStore
    BY <1>1, <1>2 DEF Step, InitPlace, FetchTest, FetchPause, FetchMin, FetchLoad, ReturnLoad,
         ReturnStore, ReturnTest, ReturnCap, DestroyClear, DestroyFree, ExitDisarm, ExitFree
  <2>2. /\ mpc' = "read" /\ pc' = "out" /\ granted' = n /\ UNCHANGED <<live, action>>
        /\ ideal' = [ideal EXCEPT ![me] = ideal[me] - n]
    BY <1>1, <1>2, <2>1 DEF FetchStore, Leave, timer
  <2>3. mpc = "fetching" /\ live = {tbf} /\ action = "handler" /\ size = BUFSIZE
    BY <1>2 DEF MainInv, MainTypeOK, CallInv, Active, Leaving
  <2>4. me = tbf /\ me \in Buckets /\ n \in Int /\ n > 0
    BY <1>2, <2>3, CopyAssumption DEF SigInv, SigTypeOK, TableInv, TokenInv, Calling
  <2>5. tbf' = tbf /\ ideal'[tbf] = ideal[tbf] - n /\ ideal[tbf] \in Int
    BY <2>2, <2>4, TbfIs DEF SigInv, SigTypeOK
  <2>6. MainTypeOK'
    BY <1>1, <2>2, <2>4 DEF MainInv, MainTypeOK, Active
  <2>7. CallInv'
    BY <2>2, <2>3, <2>4, <2>5 DEF CallInv, Active
  <2>8. Pending = 0 /\ Pending' = 0 /\ Held = 0 /\ Held' = n
    BY <1>2, <2>2, <2>3, <2>4 DEF Pending, Held
  <2>9. CopyInv'
    BY <1>1, <2>2, <2>3, <2>8, SumsAreInts DEF MainInv, CopyInv
  <2>10. RateInv'
    <3>1. \/ ticks > Length
          \/ Len(out) <= CPS * ticks + fails /\ ideal[tbf] + 0 + Len(out) <= CPS * ticks + fails
      BY <2>3, <2>8 DEF MainInv, RateInv, Active
    <3>2. Len(out) \in Nat
      BY SumsAreInts
    <3>3. ideal'[tbf] + n + Len(out) = ideal[tbf] + 0 + Len(out)
      BY <2>4, <2>5, <3>2
    <3>4. QED
      BY <1>1, <2>5, <2>8, <3>1, <3>3 DEF RateInv
  <2>11. QED
    BY <2>6, <2>7, <2>9, <2>10 DEF MainInv
<1>3. CASE pc # "fstore"
  <2>1. UNCHANGED mpc /\ Held0 /\ Step
    BY <1>1, <1>3 DEF Held0
  <2>2. /\ pc \in {"place", "test", "topause", "min", "fload", "rload", "rstore", "rtest", "rcap",
                   "clear", "free", "disarm", "freeall"}
        /\ pc = "place" => pc' = "out" /\ UNCHANGED <<live, action, ideal>>
        /\ pc \in {"test", "topause", "min", "fload"} =>
              /\ pc' \in {"topause", "pause", "min", "fload", "fstore"}
              /\ UNCHANGED <<live, action, size, ideal>>
        /\ pc = "rload" => pc' = "rstore" /\ UNCHANGED <<live, action, size, ideal>>
        /\ pc = "rstore" => /\ pc' = "rtest" /\ UNCHANGED <<live, action>>
                            /\ ideal' = [ideal EXCEPT ![me] = Least(ideal[me] + size, BURST)]
        /\ pc \in {"rtest", "rcap"} =>
              pc' \in {"rcap", "out"} /\ UNCHANGED <<live, action, ideal>>
        /\ pc \in {"clear", "free"} => pc' \in {"free", "out"}
        /\ pc \in {"disarm", "freeall"} => pc' \in {"freeall", "ended"}
    BY <1>3, <2>1
       DEF Step, InitPlace, FetchTest, FetchPause, FetchMin, FetchLoad, FetchStore, ReturnLoad,
           ReturnStore, ReturnTest, ReturnCap, DestroyClear, DestroyFree, ExitDisarm, ExitFree,
           Goto, Leave, heap, timer
  <2>3. MainTypeOK'
    BY <2>1 DEF MainInv, MainTypeOK, Held0
  <2>4. mpc \in Active => /\ live' = live /\ action' = action /\ tbf' = tbf
                          /\ mpc \in {"open", "fetching", "fetch", "write"}
    BY <2>2, TbfIs DEF MainInv, CallInv, Active, Leaving
  <2>5. mpc \notin {"init", "read", "return", "destroy"}
    BY <2>2 DEF MainInv, CallInv
  <2>6. CallInv'
    BY <2>1, <2>2, <2>4, <2>5 DEF MainInv, CallInv, Active, Leaving, Held0
  <2>7. Pending' = Pending
    BY <2>1 DEF Pending, Held0
  <2>8. CopyInv'
    BY <2>1, <2>7 DEF MainInv, CopyInv, Held0
  <2>9. RateInv'
    <3> DEFINE c == CPS * ticks + fails
    <3>1. \/ ticks > Length
          \/ Len(out) <= c /\ (mpc \in Active => ideal[tbf] + Held + Len(out) <= c)
      BY DEF MainInv, RateInv
    <3>2. c \in Nat /\ c' = c
      BY <2>1, SumsAreInts, SMTT(60) DEF MainInv, MainTypeOK, Held0
    <3> HIDE DEF c
    <3>3. mpc \in Active => ideal'[tbf'] + Held' <= ideal[tbf] + Held /\ ideal'[tbf'] + Held' \in Int
      <4> SUFFICES ASSUME mpc \in Active
                   PROVE  ideal'[tbf] + Held' <= ideal[tbf] + Held /\ ideal'[tbf] + Held' \in Int
        BY <2>4
      <4>1. Held \in Int /\ Pending \in Nat /\ size \in Nat /\ tbf \in Buckets /\ ideal[tbf] \in Int
        BY SumsAreInts
      <4>2. Held = Pending + (IF pc \in {"rload", "rstore"} THEN size ELSE 0)
        BY <2>5, <4>1 DEF Held
      <4>3. Held' = Pending + (IF pc' \in {"rload", "rstore"} THEN size' ELSE 0)
        BY <2>1, <2>5, <2>7, <4>1 DEF Held
      <4>4. CASE pc = "rstore"
        <5>1. me = tbf
          BY <2>4, <4>4 DEF MainInv, CallInv, SigInv, TableInv, Calling
        <5>2. ideal'[tbf] = Least(ideal[tbf] + size, BURST)
          BY <2>2, <4>1, <4>4, <5>1 DEF SigInv, SigTypeOK
        <5>3. Held' = Pending /\ Held = Pending + size
          BY <2>2, <4>1, <4>2, <4>3, <4>4
        <5>4. BURST \in Nat
          BY SigAssumption
        <5>5. QED
          BY <4>1, <5>2, <5>3, <5>4 DEF Least
      <4>5. CASE pc # "rstore"
        <5>1. ideal' = ideal /\ Held' = Held
          BY <2>2, <2>4, <4>1, <4>2, <4>3, <4>5 DEF MainInv, CallInv, Active
        <5>2. QED
          BY <4>1, <5>1
      <4>6. QED
        BY <4>4, <4>5
    <3>4. Len(out) \in Nat /\ (mpc \in Active => ideal[tbf] + Held \in Int)
      BY SumsAreInts
    <3>5. mpc \in Active /\ ideal[tbf] + Held + Len(out) <= c =>
              ideal'[tbf'] + Held' + Len(out) <= c
      BY <3>2, <3>3, <3>4
    <3>6. UNCHANGED <<mpc, out, ticks>>
      BY <2>1 DEF Held0
    <3>7. \/ ticks' > Length
          \/ Len(out') <= c' /\ (mpc' \in Active => ideal'[tbf'] + Held' + Len(out') <= c')
      BY <3>1, <3>2, <3>5, <3>6
    <3>8. QED
      BY <3>7 DEF RateInv, c
  <2>10. QED
    BY <2>3, <2>6, <2>8, <2>9 DEF MainInv
<1>4. QED
  BY <1>2, <1>3

-----------------------------------------------------------------------------
(* The alarm *)

\* A tick brings CPS tokens, to the ideal bucket and to the bound.
LEMMA OnTickKeeps ==
    ASSUME SigInv, IdealInv, MainInv, OnTick
    PROVE  MainInv'
<1>1. /\ Tick /\ UNCHANGED mpc
      /\ UNCHANGED <<offset, buf, len, granted, out, fails, short>>
      /\ ticks' = IF ticks > Length THEN ticks ELSE ticks + 1
  BY DEF OnTick
<1>2. /\ UNCHANGED <<live, size, action, armed>> /\ armed
      /\ pc' = IF pc = "pause" THEN "test" ELSE pc
      /\ ideal' = [b \in Buckets |-> IF InTable(b) THEN Least(ideal[b] + CPS, BURST) ELSE ideal[b]]
  BY <1>1 DEF Tick, Deliver, HandlerEnds, timer
<1>3. ticks \in Nat /\ fails \in Nat /\ ticks' \in Nat
  BY <1>1 DEF MainInv, MainTypeOK
<1>4. MainTypeOK'
  BY <1>1, <1>3 DEF MainInv, MainTypeOK
<1>5. tbf' = tbf
  BY <1>2, TbfIs
<1>6. CallInv'
  BY <1>1, <1>2, <1>5 DEF MainInv, CallInv, Active, Leaving
<1>7. Pending' = Pending
  BY <1>1 DEF Pending
<1>8. Held' = Held
  BY <1>1, <1>2, <1>7 DEF Held
<1>9. CopyInv'
  BY <1>1, <1>7 DEF MainInv, CopyInv
<1>10. RateInv'
  <2>1. CASE ticks > Length
    BY <1>1, <2>1 DEF RateInv
  <2>2. CASE ~(ticks > Length)
    <3> DEFINE c == CPS * ticks
               d == CPS * ticks'
    <3>1. ticks' = ticks + 1 /\ CPS \in Nat
      BY <1>1, <2>2, SigAssumption
    <3>2. d = c + CPS /\ c \in Nat
      BY <1>3, <3>1
    <3>3. /\ Len(out) <= c + fails
          /\ mpc \in Active => ideal[tbf] + Held + Len(out) <= c + fails
      BY <2>2 DEF MainInv, RateInv
    <3> HIDE DEF c, d
    <3>4. Len(out) \in Nat /\ Held \in Int /\ (mpc \in Active => tbf \in Buckets /\ ideal[tbf] \in Int)
      BY SumsAreInts
    <3>5. mpc \in Active => ideal'[tbf] \in Int /\ ideal'[tbf] <= ideal[tbf] + CPS
      BY <1>2, <3>1, <3>4, SigAssumption DEF Least
    <3>6. Len(out) <= d + fails /\ (mpc \in Active => ideal'[tbf] + Held + Len(out) <= d + fails)
      BY <1>3, <3>1, <3>2, <3>3, <3>4, <3>5, SMTT(60)
    <3>7. QED
      BY <1>1, <1>5, <1>8, <3>6 DEF RateInv, d
  <2>3. QED
    BY <2>1, <2>2
<1>11. QED
  BY <1>4, <1>6, <1>9, <1>10 DEF MainInv

LEMMA OtherSignalKeeps ==
    ASSUME SigInv, MainInv, OtherSignal
    PROVE  MainInv'
<1>1. UNCHANGED mpc /\ Held0 /\ UNCHANGED <<live, size, action, armed, ideal>>
  BY DEF OtherSignal, ForeignTick, TickKills, Deliver, heap, timer, mainVars, Held0
<1>2. \/ action = "handler" /\ pc' = IF pc = "pause" THEN "test" ELSE pc
      \/ action = "default" /\ armed /\ pc' = "killed"
  BY DEF OtherSignal, ForeignTick, TickKills, Deliver, HandlerEnds
<1>3. pc' = "killed" /\ action = "default" => mpc \in {"done", "failed"}
  BY <1>2 DEF MainInv, MainTypeOK, CallInv, Active, SigInv, TableInv, Leaving
<1>4. MainTypeOK'
  BY <1>1 DEF MainInv, MainTypeOK, Held0
<1>5. tbf' = tbf
  BY <1>1, TbfIs
<1>6. CallInv'
  BY <1>1, <1>2, <1>3, <1>5 DEF MainInv, CallInv, Active, Leaving, Held0
<1>7. Pending' = Pending
  BY <1>1 DEF Pending, Held0
<1>8. mpc \in Active => Held' = Held
  BY <1>1, <1>2, <1>3, <1>7 DEF Held, Held0, Active
<1>9. CopyInv'
  BY <1>1, <1>7 DEF MainInv, CopyInv, Held0
<1>10. RateInv'
  BY <1>1, <1>5, <1>8 DEF MainInv, RateInv, Held0
<1>11. QED
  BY <1>4, <1>6, <1>9, <1>10 DEF MainInv

-----------------------------------------------------------------------------
(* The program *)

\* main asks the library for nothing that its other callers may not.
LEMMA MainIsLibrary == SigInv /\ MainInv /\ NextMain => Library \/ UNCHANGED vars
<1> SUFFICES ASSUME SigInv, MainInv, NextMain PROVE Library \/ UNCHANGED vars
  OBVIOUS
<1>1. CASE MainFetch
  <2>1. tbf \in Buckets /\ BUFSIZE \in Nat
    BY <1>1, SumsAreInts DEF MainFetch, At, Active
  <2>2. QED
    BY <1>1, <2>1 DEF MainFetch, Library
<1>2. CASE MainReturn
  <2>1. tbf \in Buckets /\ granted - len \in Int
    BY <1>2, SumsAreInts DEF MainReturn, At, Active
  <2>2. granted - len \in Nat
    BY <1>2, <2>1 DEF MainReturn, ReturnBegin
  <2>3. QED
    BY <1>2, <2>1, <2>2 DEF MainReturn, Library
<1>3. CASE MainDestroy
  <2>1. tbf \in Buckets
    BY <1>3, TbfIs DEF MainDestroy, At, MainInv, CallInv, SigInv, SigTypeOK
  <2>2. QED
    BY <1>3, <2>1 DEF MainDestroy, Library
<1>4. CASE MainInit \/ MainInitFails \/ InLibrary \/ MainExit \/ OnTick \/ OtherSignal
  BY <1>4 DEF MainInit, MainInitFails, InLibrary, MainExit, OnTick, OtherSignal, Library, Signal
<1>5. CASE MainOpen \/ MainRead \/ MainReadFails \/ MainWrite \/ MainWriteFails
  BY <1>5 DEF MainOpen, MainRead, MainReadFails, MainWrite, MainWriteFails
<1>6. QED
  BY <1>1, <1>2, <1>3, <1>4, <1>5 DEF NextMain, MainStep

LEMMA MainKept == SigInv /\ IdealInv /\ MainInv /\ [NextMain]_allVars => MainInv'
<1> SUFFICES ASSUME SigInv, IdealInv, MainInv, [NextMain]_allVars PROVE MainInv'
  OBVIOUS
<1>1. CASE NextMain
  BY <1>1, MainInitKeeps, MainFailsKeeps, MainOpenKeeps, MainFetchKeeps, MainReadKeeps,
     MainReadFailsKeeps, MainReturnKeeps, MainWriteKeeps, MainDestroyKeeps, InLibraryKeeps,
     MainExitKeeps, OnTickKeeps, OtherSignalKeeps DEF NextMain, MainStep
<1>2. CASE UNCHANGED allVars
  <2>1. UNCHANGED <<live, pc, size, action, armed, ideal>> /\ UNCHANGED mainVars
    BY <1>2 DEF allVars, vars, heap, program, timer
  <2>2. tbf' = tbf
    BY <2>1, TbfIs
  <2>3. QED
    BY <2>1, <2>2 DEF mainVars, MainInv, MainTypeOK, CallInv, CopyInv, RateInv, Pending, Held
<1>3. QED
  BY <1>1, <1>2

\* Where the bytes of a buffer end up: o are written before, of len to be written.
LEMMA WrittenNear ==
    ASSUME NEW o \in Nat, NEW l \in Nat, NEW room \in Nat, NEW full \in Nat, NEW off \in Nat,
           o + l = off, l <= full, full <= room, NEW i \in Nat, 1 <= i, i <= l,
           NEW v, v = off - full + i
    PROVE  v <= o + i /\ o + i < v + room
OBVIOUS

LEMMA PieceWritten ==
    ASSUME SigInv, MainInv, PieceInv, MainWrite
    PROVE  PieceInv'
<1>1. PICK k \in 1 .. len :
          /\ out' = out \o SubSeq(buf, 1, k)
          /\ len' = len - k
          /\ IF k = len THEN mpc' = "fetch" /\ buf' = <<>> /\ granted' = 0
                        ELSE mpc' = mpc /\ buf' = buf /\ granted' = granted
  BY DEF MainWrite
<1>2. mpc = "write" /\ offset' = offset
  BY DEF MainWrite, At
<1>3. /\ len \in Nat /\ len > 0 /\ Pending = len /\ len <= Len(buf) /\ Len(out) + len = offset
      /\ Len(out) \in Nat /\ Len(buf) \in Nat /\ offset \in Nat /\ BUFSIZE \in Nat
  BY <1>2, SumsAreInts DEF MainInv, MainTypeOK, CallInv, CopyInv, Pending
<1>4. k \in Nat /\ 1 <= k /\ k <= len
  BY <1>3
<1>5. buf \in Seq(Int) /\ out \in Seq(Int)
  BY DEF MainInv, MainTypeOK
<1>6. /\ Len(buf) <= BUFSIZE
      /\ \A j \in 1 .. Len(buf) : buf[j] = offset - Len(buf) + j
  BY <1>3 DEF PieceInv
<1> DEFINE part == SubSeq(buf, 1, k)
<1>7. part \in Seq(Int) /\ Len(part) = k
  BY <1>3, <1>4, <1>5, SliceIs
<1>13. \A j \in 1 .. k : part[j] = buf[j]
  BY <1>3, <1>4, <1>5, SliceIs
<1> HIDE DEF part
<1>8. out' = out \o part
  BY <1>1 DEF part
<1>14. Len(out') = Len(out) + k
  BY <1>5, <1>7, <1>8, ConcatProperties
<1>9. /\ \A j \in 1 .. Len(out) : out'[j] = out[j]
      /\ \A j \in Len(out) + 1 .. Len(out) + k : out'[j] = part[j - Len(out)]
  BY <1>5, <1>7, <1>8, ConcatProperties
<1>10. ASSUME NEW j \in 1 .. Len(out') PROVE out'[j] <= j /\ j < out'[j] + BUFSIZE
  <2>1. CASE j \in 1 .. Len(out)
    BY <1>9, <2>1 DEF PieceInv
  <2>2. CASE j \in Len(out) + 1 .. Len(out) + k
    <3>1. PICK i \in 1 .. k : i = j - Len(out)
      BY <1>3, <1>4, <2>2
    <3>2. i \in Nat /\ 1 <= i /\ i <= len /\ i \in 1 .. Len(buf) /\ j = Len(out) + i
      BY <1>3, <1>4, <3>1
    <3>3. out'[j] = offset - Len(buf) + i
      BY <1>6, <1>9, <1>13, <2>2, <3>1, <3>2
    <3>4. out'[j] <= Len(out) + i /\ Len(out) + i < out'[j] + BUFSIZE
      BY <1>3, <1>6, <3>2, <3>3, WrittenNear
    <3> QED BY <3>2, <3>4
  <2> QED BY <1>3, <1>4, <1>14, <2>1, <2>2
<1>11. mpc' # "read"
  BY <1>1, <1>2
<1>12. Pending' > 0 => buf' = buf
  BY <1>1, <1>2, <1>3, <1>4 DEF Pending
<1> QED BY <1>2, <1>6, <1>10, <1>11, <1>12 DEF PieceInv

\* The other steps of main fill the buffer anew, or leave it and the output alone.
LEMMA PieceKept ==
    ASSUME SigInv, MainInv, PieceInv, [NextMain]_allVars
    PROVE  PieceInv'
<1>1. CASE MainRead
  <2>1. PICK k \in 0 .. Least(granted, Length - offset) :
            /\ len' = k
            /\ buf' = [j \in 1 .. k |-> offset + j]
            /\ offset' = offset + k
    BY <1>1 DEF MainRead
  <2>2. mpc = "read" /\ UNCHANGED out /\ mpc' \in {"destroy", "return", "write"}
    BY <1>1 DEF MainRead, At
  <2>3. granted \in Nat /\ granted <= BUFSIZE /\ offset \in Nat /\ Length \in Nat /\ BUFSIZE \in Nat
    BY <2>2, SumsAreInts DEF PieceInv
  <2>4. k \in Nat /\ k <= BUFSIZE
    BY <2>3 DEF Least
  <2>5. Len(buf') = k /\ \A j \in 1 .. k : buf'[j] = offset' - k + j
    BY <2>1, <2>3, <2>4
  <2> QED BY <2>2, <2>4, <2>5 DEF PieceInv
<1>2. CASE MainReadFails
  <2>1. len' = -1 /\ mpc' = "return" /\ UNCHANGED out
    BY <1>2 DEF MainReadFails
  <2> QED BY <2>1 DEF PieceInv, Pending
<1>3. CASE MainWrite
  BY <1>3, PieceWritten
<1>4. CASE MainReturn
  <2>1. mpc = "return" /\ mpc' = IF len > 0 THEN "write" ELSE "fetch"
    BY <1>4 DEF MainReturn, At
  <2>2. UNCHANGED <<offset, buf, len, out>>
    BY <1>4 DEF MainReturn
  <2>3. Pending' = Pending /\ mpc' # "read"
    BY <2>1, <2>2 DEF Pending
  <2> QED BY <2>2, <2>3 DEF PieceInv
<1>5. CASE InLibrary
  <2>1. UNCHANGED <<offset, buf, len, out>>
    BY <1>5 DEF InLibrary
  <2>2. CASE pc = "fstore"
    <3>1. mpc' = "read" /\ granted' = n /\ mpc = "fetching" /\ size = BUFSIZE
      BY <1>5, <2>2 DEF InLibrary, MainInv, MainTypeOK, CallInv, Active, Leaving
    <3>2. n <= BUFSIZE
      BY <2>2, <3>1 DEF SigInv, TokenInv
    <3>3. Pending' = 0
      BY <3>1 DEF Pending
    <3> QED BY <2>1, <3>1, <3>2, <3>3 DEF PieceInv
  <2>3. CASE pc # "fstore"
    <3>1. UNCHANGED <<granted, mpc>>
      BY <1>5, <2>3 DEF InLibrary
    <3> QED BY <2>1, <3>1 DEF PieceInv, Pending
  <2> QED BY <2>2, <2>3
<1>6. CASE \/ MainInit \/ MainInitFails \/ MainOpen \/ MainFetch \/ MainWriteFails
          \/ MainDestroy
  <2>1. UNCHANGED <<offset, buf, len, granted, out>>
    BY <1>6 DEF MainInit, MainInitFails, MainOpen, MainFetch, MainWriteFails, MainDestroy
  <2>2. mpc' \in {"open", "failed", "fetch", "fetching", "done"}
    BY <1>6 DEF MainInit, MainInitFails, MainOpen, MainFetch, MainWriteFails, MainDestroy
  <2>3. Pending' = 0
    BY <2>2 DEF Pending
  <2> QED BY <2>1, <2>2, <2>3 DEF PieceInv
<1>7. CASE MainExit \/ OnTick \/ OtherSignal \/ UNCHANGED allVars
  <2>1. UNCHANGED <<mpc, offset, buf, len, granted, out>>
    BY <1>7 DEF MainExit, OnTick, OtherSignal, allVars, mainVars
  <2> QED BY <2>1 DEF PieceInv, Pending
<1> QED BY <1>1, <1>2, <1>3, <1>4, <1>5, <1>6, <1>7 DEF NextMain, MainStep

THEOREM MainInvariant ==
    (Foreign => SiCode) => (SpecMain => [](SigInv /\ IdealInv /\ MainInv /\ PieceInv))
<1> SUFFICES ASSUME Foreign => SiCode PROVE SpecMain => [](SigInv /\ IdealInv /\ MainInv /\ PieceInv)
  OBVIOUS
<1>1. InitMain => SigInv /\ IdealInv /\ MainInv /\ PieceInv
  BY InitSig, InitMainInv DEF InitMain, PieceInv, Pending
<1>2. SigInv /\ IdealInv /\ MainInv /\ PieceInv /\ [NextMain]_allVars
        => (SigInv /\ IdealInv /\ MainInv /\ PieceInv)'
  <2> SUFFICES ASSUME SigInv, IdealInv, MainInv, PieceInv, [NextMain]_allVars
               PROVE  SigInv' /\ IdealInv' /\ MainInv' /\ PieceInv'
    OBVIOUS
  <2>1. Library \/ UNCHANGED vars
    BY MainIsLibrary DEF allVars
  <2>2. QED
    BY <2>1, LibraryKeeps, IdealKept, SigStutters, MainKept, PieceKept
<1>3. QED
  BY <1>1, <1>2, PTL DEF SpecMain

\* In main.c no token is granted that is not there, nor made by a race.
THEOREM MainTokensReal == (Foreign => SiCode) => (SpecMain => []TokensAreReal)
<1>1. SigInv /\ IdealInv => TokensAreReal
  BY SigGrants DEF IdealInv, TokensAreReal
<1>2. QED
  BY <1>1, MainInvariant, PTL

\* Nor does the handler meet a bucket that is not there.
THEOREM MainTouchesLive == (Foreign => SiCode) => (SpecMain => []HandlerTouchesLive)
BY SigTouchesLive, MainInvariant, PTL

\* main.c writes as many bytes as the file has before it ends, the file's in order
\* until a write is short, after which what it repeats and leaves out stays within
\* the bytes of one read; and at no time has it written more than CPS bytes a tick
\* (lines 66-92).
THEOREM CopyIsPaced == (Foreign => SiCode) => (SpecMain => []PacedCopy)
<1>1. SigInv /\ MainInv /\ PieceInv => PacedCopy
  <2> SUFFICES ASSUME SigInv, MainInv, PieceInv PROVE PacedCopy
    OBVIOUS
  <2>1. Len(out) \in Nat /\ offset \in Nat /\ offset <= Length /\ Len(out) <= offset
        /\ Length \in Nat
    BY SumsAreInts DEF MainInv, MainTypeOK, CopyInv
  <2>2. Rate
    <3>1. CASE ticks > Length
      <4>1. CPS \in Nat /\ 1 <= CPS /\ ticks \in Nat /\ fails \in Nat
        BY SigAssumption DEF MainInv, MainTypeOK
      <4>2. ticks <= CPS * ticks /\ CPS * ticks \in Nat
        BY <4>1
      <4>3. QED
        BY <2>1, <3>1, <4>1, <4>2 DEF Rate
    <3>2. CASE ~(ticks > Length)
      BY <3>2 DEF MainInv, RateInv, Rate
    <3>3. QED
      BY <3>1, <3>2
  <2>3. mpc = "done" => Len(out) = Length
    BY <2>1 DEF MainInv, CopyInv, Pending
  <2>4. QED
    BY <2>2, <2>3 DEF MainInv, CopyInv, PieceInv, PacedCopy, Copied
<1>2. QED
  BY <1>1, MainInvariant, PTL

=============================================================================
