-------------------------- MODULE PoolDynamicProofs --------------------------
(***************************************************************************)
(* What the parent's bookkeeping guarantees, for every number of slots,    *)
(* children and clients.                                                   *)
(*                                                                         *)
(* CountInv ties the counters to the table through every loop of the       *)
(* parent; the search of add_1_server stays in the table, no child escapes *)
(* the table, and the pool is replenished before the parent sleeps.        *)
(***************************************************************************)
EXTENDS PoolDynamic, FiniteSetTheorems, TLAPS

\* The taken slots that scan_pool has passed when it looks at slot k.
Seen(k) == {s \in Slots : pid[s] # NoPid /\ s < k}

Scanning == {"scan", "rescan"}
Deleting == {"delcheck", "kill"}

\* Where the parent's slot index points in each phase, and when it is booting.
PhaseInv ==
    /\ ppc \in Scanning \cup Deleting \cup {"fork", "record"} => slot \in Slots
    /\ ppc \in {"fork", "record"} => pid[slot] = NoPid
    /\ ppc \in {"rescan", "kill"} => pid[slot] # NoPid
    /\ ppc = "record" => fresh \in Pids
    /\ ppc \in Scanning \cup Deleting \cup {"suspend"} => ~booting

\* The counters and the table, in every phase.
TallyInv ==
    /\ CountsUsed
    /\ ppc \in Scanning => idle + busy = Cardinality(Seen(slot))
    /\ DelHasIdle

\* Each call of add_1_server that is not refused leaves one more idle child
\* counted, so the counter keeps up with the loop variable.
RefillInv ==
    /\ ppc = "addcheck" => n <= idle_count \/ PoolFull
    /\ ppc \in {"fork", "record"} => n <= idle_count
    /\ Replenished

CountInv == TypeOK /\ PhaseInv /\ TallyInv /\ RefillInv

-----------------------------------------------------------------------------
(* Lemmas about the set of taken slots *)

\* Slots is finite and has MAXCLIENTS elements.
LEMMA SlotsFinite == IsFiniteSet(Slots) /\ Cardinality(Slots) = MAXCLIENTS
<1>1. 0 \in Int /\ MAXCLIENTS - 1 \in Int BY SizesAssumption
<1>2. IsFiniteSet(0 .. MAXCLIENTS - 1) BY <1>1, FS_Interval
<1>3. Cardinality(0 .. MAXCLIENTS - 1) = MAXCLIENTS
  BY <1>1, FS_Interval, SizesAssumption
<1> QED BY <1>2, <1>3 DEF Slots

\* Every set of slots is finite.
LEMMA SlotSubset ==
  ASSUME NEW S \in SUBSET Slots
  PROVE  IsFiniteSet(S) /\ Cardinality(S) \in Nat
BY SlotsFinite, FS_Subset, FS_CardinalityType

\* When every slot is taken, the number of taken slots is MAXCLIENTS.
LEMMA AllUsed ==
  ASSUME \A s \in Slots : pid[s] # NoPid
  PROVE  Cardinality(Used) = MAXCLIENTS
<1>1. Used = Slots BY DEF Used
<1> QED BY <1>1, SlotsFinite

-----------------------------------------------------------------------------
(* Type correctness and the counting invariant *)

\* The initial table is empty and nothing is counted.
LEMMA InitCount == Init => CountInv
<1> SUFFICES ASSUME Init PROVE CountInv
  OBVIOUS
<1> USE DEF Init
<1>1. TypeOK
  <2>1. /\ pid \in [Slots -> Pids \cup {NoPid}]
        /\ state \in [Slots -> {"IDLE", "BUSY"}]
    OBVIOUS
  <2>2. /\ cpc \in [Pids -> ChildAt]
        /\ pos \in [Pids -> 0 .. MAXCLIENTS]
    BY SizesAssumption DEF ChildAt
  <2>3. /\ conn \in [Pids -> Clients \cup {NoClient}]
        /\ client \in [Clients ->
              {"out", "queued", "accepted", "answered", "dropped"}]
    OBVIOUS
  <2>4. backlog \in Seq(Clients)
    OBVIOUS
  <2>5. ppc \in ParentAt
    BY DEF ParentAt
  <2>6. notified \in BOOLEAN /\ booting \in BOOLEAN
    OBVIOUS
  <2> HIDE DEF Init
  <2>7. slot = 0 /\ n = 0 /\ idle = 0 /\ busy = 0 /\ idle_count = 0 /\ busy_count = 0 /\ fresh = NoPid
    BY DEF Init
  <2> QED
    BY <2>1, <2>2, <2>3, <2>4, <2>5, <2>6, <2>7, SizesAssumption DEF TypeOK
<1>2. PhaseInv
  BY DEF PhaseInv, Scanning, Deleting
<1>3. Used = {}
  BY DEF Used
<1>4. CountsUsed /\ DelHasIdle
  BY <1>3, FS_EmptySet DEF CountsUsed, DelHasIdle
<1>5. RefillInv
  BY SizesAssumption DEF RefillInv, Replenished
<1> QED BY <1>1, <1>2, <1>4, <1>5 DEF CountInv, TallyInv, Scanning

-----------------------------------------------------------------------------
(* The parent's loops *)

\* Going to sleep leaves the parent out of every loop.
LEMMA SuspendStep ==
  ASSUME Suspend
  PROVE  /\ ppc' = "suspend" /\ n' = 0 /\ slot' = 0
         /\ ~booting' /\ booting' \in BOOLEAN
BY Zenon DEF Suspend

\* After a call of add_1_server the parent calls it again with the counter
\* kept up, or sleeps with the pool replenished.
LEMMA AddLoop ==
  ASSUME NEW k \in Nat, NEW c \in Nat,
         TypeOK,
         AfterAdd(k, c),
         idle_count' = c, busy_count' = busy_count,
         k <= c \/ c + busy_count >= MAXCLIENTS
  PROVE  /\ ppc' \in {"addcheck", "suspend"}
         /\ n' \in Nat /\ slot' = 0 /\ booting' \in BOOLEAN
         /\ ppc' = "suspend" => ~booting'
         /\ n' <= idle_count' \/ idle_count' + busy_count' >= MAXCLIENTS
         /\ Replenished'
<1>1. CASE AddAgain(k, c)
  BY <1>1, SMT DEF AfterAdd, TypeOK, Replenished
<1>2. CASE ~AddAgain(k, c)
  <2>1. Suspend
    BY <1>2 DEF AfterAdd
  <2>2. k >= MINSPARESERVER \/ k >= MAXSPARESERVER - c
    BY <1>2, SizesAssumption, SMT DEF AddAgain
  <2>3. c >= MINSPARESERVER \/ c + busy_count >= MAXCLIENTS
    BY <2>2, SizesAssumption, SpareAssumption, SMT DEF TypeOK
  <2> QED BY <2>1, <2>3, SuspendStep DEF Replenished
<1> QED BY <1>1, <1>2

\* After a call of del_1_server the parent calls it again while more than
\* MAXSPARESERVER idle children are counted, or sleeps.
LEMMA DelLoop ==
  ASSUME NEW k \in Nat, NEW c \in Nat,
         TypeOK, ~booting,
         AfterDel(k, c),
         idle_count' = c,
         c >= MAXSPARESERVER
  PROVE  /\ ppc' \in {"delcheck", "suspend"}
         /\ n' \in Nat /\ slot' = 0 /\ booting' \in BOOLEAN /\ ~booting'
         /\ ppc' = "delcheck" => c > MAXSPARESERVER
         /\ Replenished'
<1>1. CASE DelAgain(k, c)
  BY <1>1, SizesAssumption, SMT DEF AfterDel, DelAgain, TypeOK, Replenished
<1>2. CASE ~DelAgain(k, c)
  <2>1. Suspend
    BY <1>2 DEF AfterDel
  <2> QED BY <2>1, SuspendStep, SizesAssumption, SpareAssumption DEF Replenished
<1> QED BY <1>1, <1>2

\* Control starts one of the loops or lets the parent sleep.
LEMMA ControlStep ==
  ASSUME NEW c \in Nat,
         TypeOK, ~booting,
         Control(c),
         idle_count' = c, busy_count' \in Nat
  PROVE  /\ ppc' \in {"addcheck", "delcheck", "suspend"}
         /\ n' \in Nat /\ slot' = 0 /\ booting' \in BOOLEAN
         /\ ppc' # "addcheck" => ~booting'
         /\ ppc' = "delcheck" => c > MAXSPARESERVER
         /\ n' <= idle_count' \/ ppc' # "addcheck"
         /\ Replenished'
<1>1. CASE c > MAXSPARESERVER
  <2>1. AfterDel(0, c)
    BY <1>1 DEF Control
  <2>2. 0 \in Nat /\ c >= MAXSPARESERVER
    BY <1>1, SizesAssumption, SMT
  <2>3. ppc' \in {"delcheck", "suspend"}
    BY <2>1, <2>2, DelLoop
  <2> QED BY <2>1, <2>2, <2>3, DelLoop
<1>2. CASE c < MINSPARESERVER
  <2>1. ~(c > MAXSPARESERVER)
    BY <1>2, SizesAssumption, SpareAssumption, SMT
  <2>2. AfterAdd(0, c)
    BY <1>2, <2>1 DEF Control
  <2>3. AddAgain(0, c)
    BY <1>2, SizesAssumption, SpareAssumption, SMT DEF AddAgain
  <2> QED BY <2>2, <2>3, SMT DEF AfterAdd, TypeOK, Replenished
<1>3. CASE ~(c > MAXSPARESERVER) /\ ~(c < MINSPARESERVER)
  <2>1. Suspend
    BY <1>3 DEF Control
  <2>2. c >= MINSPARESERVER
    BY <1>3, SizesAssumption, SMT
  <2>3. Replenished'
    BY <2>2 DEF Replenished
  <2> QED BY <2>1, <2>3, SuspendStep
<1> QED BY <1>1, <1>2, <1>3

\* scan_pool counts a slot: if its running counts are right up to this slot,
\* they, or the counters they are stored in, are right after it.
LEMMA CountedStep ==
  ASSUME NEW i \in Nat, NEW b \in Nat,
         CountInv, ppc \in Scanning,
         Counted(i, b),
         i + b = Cardinality({s \in Slots : pid'[s] # NoPid /\ s <= slot})
  PROVE  /\ ppc' \in ParentAt /\ n' \in Nat /\ booting' \in BOOLEAN
         /\ slot' \in 0 .. MAXCLIENTS
         /\ idle' \in Nat /\ busy' \in Nat
         /\ idle_count' \in Nat /\ busy_count' \in Nat
         /\ PhaseInv' /\ TallyInv' /\ RefillInv'
<1>1. slot \in Slots /\ slot \in Nat /\ ~booting
  BY DEF CountInv, PhaseInv, Slots, Scanning
<1>2. CASE slot + 1 < MAXCLIENTS
  <2>1. /\ idle' = i /\ busy' = b /\ ppc' = "scan" /\ slot' = slot + 1
        /\ UNCHANGED <<booting, n, idle_count, busy_count>>
    BY <1>2 DEF Counted
  <2>2. slot' \in Slots
    BY <1>1, <1>2, <2>1, SizesAssumption, SMT DEF Slots
  <2>3. Seen(slot)' = {s \in Slots : pid'[s] # NoPid /\ s <= slot}
    BY <1>1, <2>1, SMT DEF Seen, Slots
  <2>4. TallyInv'
    BY <2>1, <2>3, SMT DEF TallyInv, CountsUsed, DelHasIdle, Scanning
  <2>5. PhaseInv' /\ RefillInv'
    BY <1>1, <2>1, <2>2 DEF PhaseInv, RefillInv, Replenished, Scanning, Deleting
  <2> QED
    BY <1>1, <2>1, <2>2, <2>4, <2>5, SizesAssumption, SMT
    DEF CountInv, TypeOK, ParentAt, Slots
<1>3. CASE ~(slot + 1 < MAXCLIENTS)
  <2>1. /\ idle_count' = i /\ busy_count' = b /\ idle' = 0 /\ busy' = 0
        /\ Control(i)
    BY <1>3 DEF Counted
  <2>2. /\ ppc' \in {"addcheck", "delcheck", "suspend"}
        /\ n' \in Nat /\ slot' = 0 /\ booting' \in BOOLEAN
        /\ ppc' # "addcheck" => ~booting'
        /\ ppc' = "delcheck" => i > MAXSPARESERVER
        /\ n' <= idle_count' \/ ppc' # "addcheck"
        /\ Replenished'
    BY <1>1, <2>1, ControlStep DEF CountInv
  <2>3. Used' = {s \in Slots : pid'[s] # NoPid /\ s <= slot}
    BY <1>1, <1>3, SizesAssumption, SMT DEF Used, Slots
  <2>4. TallyInv'
    BY <2>1, <2>2, <2>3 DEF TallyInv, CountsUsed, DelHasIdle, Scanning
  <2>5. PhaseInv'
    BY <2>2, SizesAssumption, SMT DEF PhaseInv, Scanning, Deleting, Slots
  <2>6. RefillInv'
    BY <2>2 DEF RefillInv
  <2> QED BY <2>1, <2>2, <2>4, <2>5, <2>6, SizesAssumption, SMT DEF ParentAt
<1> QED BY <1>2, <1>3

-----------------------------------------------------------------------------
(* The steps of the parent *)

\* add_1_server keeps the invariant.
LEMMA AddCount ==
  ASSUME CountInv, AddFull \/ AddSlot \/ Fork \/ ForkFailed \/ Record
  PROVE  CountInv'
<1> USE DEF CountInv
<1>1. CASE AddFull
  <2>1. /\ ppc = "addcheck" /\ AfterAdd(n + 1, idle_count)
        /\ UNCHANGED <<table, notified, fresh, idle, busy, idle_count,
                       busy_count, child, network>>
        /\ idle_count + busy_count >= MAXCLIENTS
    BY <1>1 DEF AddFull, PoolFull
  <2>2. n + 1 \in Nat /\ idle_count \in Nat
    BY DEF TypeOK
  <2>3. /\ ppc' \in {"addcheck", "suspend"}
        /\ n' \in Nat /\ slot' = 0 /\ booting' \in BOOLEAN
        /\ ppc' = "suspend" => ~booting'
        /\ n' <= idle_count' \/ idle_count' + busy_count' >= MAXCLIENTS
        /\ Replenished'
    BY <2>1, <2>2, AddLoop
  <2>4. TypeOK'
    BY <2>1, <2>3, SizesAssumption
    DEF TypeOK, table, child, network, ParentAt
  <2>5. PhaseInv' /\ RefillInv'
    BY <2>3 DEF PhaseInv, RefillInv, PoolFull, Scanning, Deleting
  <2>6. TallyInv'
    BY <2>1, <2>3 DEF TallyInv, CountsUsed, DelHasIdle, Used, Scanning, table
  <2> QED BY <2>4, <2>5, <2>6
<1>2. CASE AddSlot
  <2>1. /\ ppc = "addcheck" /\ ppc' = "fork"
        /\ idle_count + busy_count < MAXCLIENTS
        /\ UNCHANGED <<pid, notified, booting, n, fresh, idle, busy, idle_count,
                       busy_count, child, network>>
    BY <1>2, SizesAssumption, SMT DEF AddSlot, PoolFull, TypeOK
  <2>2. PICK s \in 0 .. MAXCLIENTS :
          IsFirstFree(s) /\ slot' = s /\ state' = [state EXCEPT ![s] = "IDLE"]
    BY <1>2 DEF AddSlot
  <2>3. s \in Slots /\ pid[s] = NoPid
    <3>1. CASE s < MAXCLIENTS
      BY <2>2, <3>1, SizesAssumption, SMT DEF IsFirstFree, Slots
    <3>2. CASE s = MAXCLIENTS
      <4>1. \A t \in Slots : pid[t] # NoPid
        BY <2>2, <3>2 DEF IsFirstFree, Slots
      <4>2. Cardinality(Used) = MAXCLIENTS
        BY <4>1, AllUsed
      <4>3. idle_count + busy_count = MAXCLIENTS
        BY <2>1, <4>2 DEF TallyInv, CountsUsed
      <4> QED BY <2>1, <4>3, SizesAssumption, SMT DEF TypeOK
    <3> QED BY <3>1, <3>2, SizesAssumption, SMT
  <2>4. TypeOK'
    BY <2>1, <2>2, SizesAssumption DEF TypeOK, child, network, ParentAt
  <2>5. PhaseInv'
    BY <2>1, <2>2, <2>3 DEF PhaseInv, Scanning, Deleting
  <2>6. TallyInv'
    BY <2>1 DEF TallyInv, CountsUsed, DelHasIdle, Used, Scanning
  <2>7. n <= idle_count
    BY <2>1, SizesAssumption, SMT DEF RefillInv, PoolFull, TypeOK
  <2>8. RefillInv'
    BY <2>1, <2>7 DEF RefillInv, Replenished
  <2> QED BY <2>4, <2>5, <2>6, <2>8
<1>3. CASE Fork
  <2>1. /\ ppc = "fork" /\ ppc' = "record"
        /\ UNCHANGED <<table, notified, booting, n, slot, idle, busy,
                       idle_count, busy_count, conn, network>>
    BY <1>3 DEF Fork
  <2>2. PICK p \in Pids :
          /\ fresh' = p
          /\ cpc' = [cpc EXCEPT ![p] = "idle"]
          /\ pos' = [pos EXCEPT ![p] = slot]
    BY <1>3 DEF Fork
  <2>3. TypeOK'
    BY <2>1, <2>2, SizesAssumption
    DEF TypeOK, table, network, ParentAt, ChildAt
  <2>4. PhaseInv'
    BY <2>1, <2>2 DEF PhaseInv, Scanning, Deleting, table
  <2>5. TallyInv' /\ RefillInv'
    BY <2>1 DEF TallyInv, CountsUsed, DelHasIdle, Used, Scanning, RefillInv,
                Replenished, table
  <2> QED BY <2>3, <2>4, <2>5
<1>4. CASE ForkFailed
  <2>1. /\ ppc = "fork" /\ ppc' = "exited"
        /\ UNCHANGED <<table, notified, booting, n, slot, fresh, idle, busy,
                       idle_count, busy_count, child, network>>
    BY <1>4 DEF ForkFailed
  <2>2. TypeOK'
    BY <2>1 DEF TypeOK, table, child, network, ParentAt
  <2>3. PhaseInv' /\ TallyInv' /\ RefillInv'
    BY <2>1 DEF PhaseInv, TallyInv, CountsUsed, DelHasIdle, Used, Scanning,
                Deleting, RefillInv, Replenished, table
  <2> QED BY <2>2, <2>3
<1>5. CASE Record
  <2>1. /\ ppc = "record" /\ pid' = [pid EXCEPT ![slot] = fresh]
        /\ fresh' = NoPid
        /\ idle_count' = idle_count + 1 /\ AfterAdd(n + 1, idle_count + 1)
        /\ UNCHANGED <<state, notified, idle, busy, busy_count, child, network>>
    BY <1>5 DEF Record
  <2>2. n + 1 \in Nat /\ idle_count + 1 \in Nat /\ busy_count \in Nat
    BY DEF TypeOK
  <2>3. n + 1 <= idle_count + 1
    BY <2>1, SMT DEF RefillInv, TypeOK
  <2>4. /\ ppc' \in {"addcheck", "suspend"}
        /\ n' \in Nat /\ slot' = 0 /\ booting' \in BOOLEAN
        /\ ppc' = "suspend" => ~booting'
        /\ n' <= idle_count' \/ idle_count' + busy_count' >= MAXCLIENTS
        /\ Replenished'
    BY <2>1, <2>2, <2>3, AddLoop
  <2>5. slot \in Slots /\ pid[slot] = NoPid /\ fresh \in Pids
    BY <2>1 DEF PhaseInv
  <2>6. TypeOK'
    BY <2>1, <2>2, <2>4, <2>5, SizesAssumption
    DEF TypeOK, child, network, ParentAt
  <2>7. PhaseInv' /\ RefillInv'
    BY <2>4 DEF PhaseInv, RefillInv, PoolFull, Scanning, Deleting
  <2>8. Used' = Used \cup {slot} /\ slot \notin Used
    BY <2>1, <2>5, ValuesAssumption DEF Used, TypeOK
  <2>9. IsFiniteSet(Used)
    BY SlotSubset DEF Used
  <2>10. Cardinality(Used') = Cardinality(Used) + 1
    BY <2>8, <2>9, FS_AddElement
  <2>11. idle_count' + busy_count' = Cardinality(Used')
    BY <2>1, <2>2, <2>10, SMT DEF TallyInv, CountsUsed, TypeOK
  <2>12. TallyInv'
    BY <2>4, <2>11 DEF TallyInv, CountsUsed, DelHasIdle, Scanning
  <2> QED BY <2>6, <2>7, <2>12
<1> QED BY <1>1, <1>2, <1>3, <1>4, <1>5

\* scan_pool keeps the invariant.
LEMMA ScanCount ==
  ASSUME CountInv,
         \/ Wake \/ ScanEmpty \/ ScanDead \/ ScanIdle \/ ScanBusy
         \/ ScanNotIdle \/ RescanBusy \/ RescanUnknown
  PROVE  CountInv'
<1> DEFINE Passed == {s \in Slots : pid'[s] # NoPid /\ s <= slot}
<1> USE DEF CountInv
\* What the two ways of meeting a slot leave of the slots passed.
<1>1. ASSUME ppc \in Scanning, pid' = pid, pid[slot] # NoPid
      PROVE  idle + busy + 1 = Cardinality(Passed)
  <2>1. slot \in Slots
    BY <1>1 DEF PhaseInv
  <2>2. Passed = Seen(slot) \cup {slot} /\ slot \notin Seen(slot)
    BY <1>1, <2>1, SMT DEF Seen, Slots
  <2>3. IsFiniteSet(Seen(slot))
    BY SlotSubset DEF Seen
  <2>4. Cardinality(Passed) = Cardinality(Seen(slot)) + 1
    BY <2>2, <2>3, FS_AddElement
  <2> QED BY <1>1, <2>4 DEF TallyInv
<1>2. ASSUME ppc \in Scanning,
             \A s \in Slots : s # slot => pid'[s] = pid[s],
             pid'[slot] = NoPid
      PROVE  idle + busy = Cardinality(Passed)
  <2>1. slot \in Slots
    BY <1>2 DEF PhaseInv
  <2>2. Passed = Seen(slot)
    BY <1>2, <2>1, SMT DEF Seen, Slots
  <2> QED BY <1>2, <2>2 DEF TallyInv
<1>3. idle \in Nat /\ busy \in Nat /\ idle + 1 \in Nat /\ busy + 1 \in Nat
  BY DEF TypeOK
<1>4. CASE Wake
  <2>1. /\ ppc' = "scan" /\ ppc = "suspend"
        /\ slot' = 0 /\ idle' = 0 /\ busy' = 0
        /\ UNCHANGED <<table, booting, n, fresh, idle_count, busy_count, child,
                       network>>
    BY <1>4 DEF Wake
  <2>2. Seen(slot)' = {}
    BY <2>1, SMT DEF Seen, Slots
  <2>3. 0 \in Slots
    BY SizesAssumption, SMT DEF Slots
  <2>4. TallyInv'
    BY <2>1, <2>2, FS_EmptySet DEF TallyInv, CountsUsed, DelHasIdle, Scanning
  <2>5. PhaseInv' /\ RefillInv'
    BY <2>1, <2>3 DEF PhaseInv, RefillInv, Replenished, Scanning, Deleting
  <2>6. TypeOK'
    <3>1. notified' \in BOOLEAN
      BY <1>4 DEF Wake
    <3> QED
      BY <2>1, <3>1, SizesAssumption DEF TypeOK, table, child, network, ParentAt
  <2> QED BY <2>4, <2>5, <2>6
<1>5. CASE ScanEmpty
  <2>1. ppc \in Scanning
    BY <1>5 DEF ScanEmpty, Scanning
  <2>2. idle + busy = Cardinality(Passed) /\ Counted(idle, busy)
    BY <1>2, <1>5, <2>1 DEF ScanEmpty, table
  <2>3. TypeOK' /\ PhaseInv' /\ TallyInv' /\ RefillInv'
    BY <1>3, <1>5, <2>1, <2>2, CountedStep
    DEF ScanEmpty, TypeOK, table, child, network
  <2> QED BY <2>3
<1>6. CASE ScanDead
  <2>1. ppc \in Scanning /\ slot \in Slots
    BY <1>6 DEF ScanDead, Scanning, PhaseInv
  <2>2. pid' = [pid EXCEPT ![slot] = NoPid] /\ Counted(idle, busy)
    BY <1>6 DEF ScanDead
  <2>3. idle + busy = Cardinality(Passed)
    BY <1>2, <2>1, <2>2 DEF TypeOK
  <2>4. TypeOK' /\ PhaseInv' /\ TallyInv' /\ RefillInv'
    BY <1>3, <1>6, <2>1, <2>2, <2>3, CountedStep
    DEF ScanDead, TypeOK, child, network
  <2> QED BY <2>4
<1>7. CASE ScanIdle
  <2>1. ppc \in Scanning
    BY <1>7 DEF ScanIdle, Scanning
  <2>2. idle + busy + 1 = Cardinality(Passed) /\ Counted(idle + 1, busy)
    BY <1>1, <1>7, <2>1 DEF ScanIdle, table
  <2>3. (idle + 1) + busy = Cardinality(Passed)
    BY <1>3, <2>2, SMT
  <2>4. TypeOK' /\ PhaseInv' /\ TallyInv' /\ RefillInv'
    BY <1>3, <1>7, <2>1, <2>2, <2>3, CountedStep
    DEF ScanIdle, TypeOK, table, child, network
  <2> QED BY <2>4
<1>8. CASE ScanBusy \/ RescanBusy
  <2>1. /\ ppc \in Scanning /\ pid[slot] # NoPid /\ Counted(idle, busy + 1)
        /\ UNCHANGED <<table, notified, fresh, child, network>>
    BY <1>8 DEF ScanBusy, RescanBusy, Scanning, PhaseInv
  <2>2. idle + busy + 1 = Cardinality(Passed)
    BY <1>1, <2>1 DEF table
  <2>3. idle + (busy + 1) = Cardinality(Passed)
    BY <1>3, <2>2, SMT
  <2>4. TypeOK' /\ PhaseInv' /\ TallyInv' /\ RefillInv'
    BY <1>3, <2>1, <2>3, CountedStep
    DEF TypeOK, table, child, network
  <2> QED BY <2>4
<1>9. CASE ScanNotIdle \/ RescanUnknown
  <2>1. /\ UNCHANGED <<table, notified, booting, n, slot, fresh, idle, busy,
                       idle_count, busy_count, child, network>>
        /\ \/ ppc = "scan" /\ ppc' = "rescan" /\ pid[slot] # NoPid
           \/ ppc = "rescan" /\ ppc' = "aborted"
    BY <1>9 DEF ScanNotIdle, RescanUnknown
  <2>2. TypeOK'
    BY <2>1 DEF TypeOK, table, child, network, ParentAt
  <2>3. TallyInv'
    BY <2>1 DEF TallyInv, CountsUsed, DelHasIdle, Scanning, Seen, table
  <2>4. PhaseInv' /\ RefillInv'
    BY <2>1 DEF PhaseInv, RefillInv, Replenished, Scanning, Deleting, table
  <2> QED BY <2>2, <2>3, <2>4
<1> QED BY <1>4, <1>5, <1>6, <1>7, <1>8, <1>9

\* del_1_server keeps the invariant.
LEMMA DelCount ==
  ASSUME CountInv, DelFound \/ DelNotThis \/ DelKill
  PROVE  CountInv'
<1> USE DEF CountInv
<1>1. ppc \in Deleting /\ slot \in Slots /\ ~booting /\ idle_count > MAXSPARESERVER
  BY DEF DelFound, DelNotThis, DelKill, Deleting, PhaseInv, TallyInv, DelHasIdle
<1>2. CASE DelFound
  <2>1. /\ ppc = "delcheck" /\ ppc' = "kill" /\ pid[slot] # NoPid
        /\ UNCHANGED <<table, notified, booting, n, slot, fresh, idle, busy,
                       idle_count, busy_count, child, network>>
    BY <1>2 DEF DelFound
  <2>2. TypeOK'
    BY <2>1 DEF TypeOK, table, child, network, ParentAt
  <2>3. PhaseInv' /\ RefillInv'
    BY <1>1, <2>1 DEF PhaseInv, RefillInv, Replenished, Scanning, Deleting, table
  <2>4. TallyInv'
    BY <2>1 DEF TallyInv, CountsUsed, DelHasIdle, Scanning, Used, table
  <2> QED BY <2>2, <2>3, <2>4
<1>3. CASE DelNotThis
  <2>1. /\ ppc = "delcheck"
        /\ UNCHANGED <<table, notified, fresh, idle, busy, idle_count,
                       busy_count, child, network>>
    BY <1>3 DEF DelNotThis
  <2>2. CASE slot + 1 < MAXCLIENTS
    <3>1. slot' = slot + 1 /\ UNCHANGED <<ppc, booting, n>>
      BY <1>3, <2>2 DEF DelNotThis
    <3>2. slot' \in Slots /\ slot' \in 0 .. MAXCLIENTS
      BY <1>1, <2>2, <3>1, SizesAssumption, SMT DEF Slots
    <3>3. TypeOK'
      BY <2>1, <3>1, <3>2 DEF TypeOK, table, child, network
    <3>4. PhaseInv' /\ RefillInv'
      BY <1>1, <2>1, <3>1, <3>2
      DEF PhaseInv, RefillInv, Replenished, Scanning, Deleting, table
    <3>5. TallyInv'
      BY <2>1, <3>1 DEF TallyInv, CountsUsed, DelHasIdle, Scanning, Used, table
    <3> QED BY <3>3, <3>4, <3>5
  <2>3. CASE ~(slot + 1 < MAXCLIENTS)
    <3>1. AfterDel(n + 1, idle_count)
      BY <1>3, <2>3 DEF DelNotThis
    <3>2. n + 1 \in Nat /\ idle_count \in Nat /\ idle_count >= MAXSPARESERVER
      BY <1>1, SizesAssumption, SMT DEF TypeOK
    <3>3. /\ ppc' \in {"delcheck", "suspend"}
          /\ n' \in Nat /\ slot' = 0 /\ booting' \in BOOLEAN /\ ~booting'
          /\ Replenished'
      BY <1>1, <2>1, <3>1, <3>2, DelLoop
    <3>4. TypeOK'
      BY <2>1, <3>3, SizesAssumption DEF TypeOK, table, child, network, ParentAt
    <3>5. 0 \in Slots
      BY SizesAssumption, SMT DEF Slots
    <3>6. PhaseInv' /\ RefillInv'
      BY <3>3, <3>5 DEF PhaseInv, RefillInv, Scanning, Deleting
    <3>7. TallyInv'
      BY <1>1, <2>1, <3>3
      DEF TallyInv, CountsUsed, DelHasIdle, Scanning, Used, table
    <3> QED BY <3>4, <3>6, <3>7
  <2> QED BY <2>2, <2>3
<1>4. CASE DelKill
  <2>1. /\ ppc = "kill"
        /\ Dies(pid[slot]) /\ pid' = [pid EXCEPT ![slot] = NoPid]
        /\ idle_count' = idle_count - 1 /\ AfterDel(n + 1, idle_count - 1)
        /\ UNCHANGED <<state, notified, fresh, idle, busy, busy_count, pos, backlog>>
    BY <1>4 DEF DelKill
  <2>2. /\ n + 1 \in Nat /\ idle_count - 1 \in Nat
        /\ idle_count - 1 >= MAXSPARESERVER
    BY <1>1, SizesAssumption, SMT DEF TypeOK
  <2>3. /\ ppc' \in {"delcheck", "suspend"}
        /\ n' \in Nat /\ slot' = 0 /\ booting' \in BOOLEAN /\ ~booting'
        /\ ppc' = "delcheck" => idle_count - 1 > MAXSPARESERVER
        /\ Replenished'
    BY <1>1, <2>1, <2>2, DelLoop
  <2>4. pid[slot] \in Pids
    BY <1>1, <2>1 DEF TypeOK, PhaseInv
  <2>5. /\ cpc' \in [Pids -> ChildAt] /\ conn' \in [Pids -> Clients \cup {NoClient}]
        /\ client' \in [Clients -> {"out", "queued", "accepted", "answered", "dropped"}]
    BY <2>1, <2>4 DEF TypeOK, Dies, ChildAt
  <2>6. TypeOK'
    BY <1>1, <2>1, <2>2, <2>3, <2>5, SizesAssumption DEF TypeOK, ParentAt
  <2>7. 0 \in Slots
    BY SizesAssumption, SMT DEF Slots
  <2>8. PhaseInv' /\ RefillInv'
    BY <2>3, <2>7 DEF PhaseInv, RefillInv, Scanning, Deleting
  <2>9. slot \in Used /\ Used' = Used \ {slot}
    BY <1>1, <2>1 DEF Used, TypeOK, PhaseInv
  <2>10. IsFiniteSet(Used) /\ Cardinality(Used) \in Nat
    BY SlotSubset DEF Used
  <2>11. Cardinality(Used') = Cardinality(Used) - 1
    BY <2>9, <2>10, FS_RemoveElement
  <2>12. idle_count' + busy_count' = Cardinality(Used')
    BY <2>1, <2>2, <2>10, <2>11, SMT DEF TallyInv, CountsUsed, TypeOK
  <2>13. TallyInv'
    BY <2>1, <2>3, <2>12 DEF TallyInv, CountsUsed, DelHasIdle, Scanning
  <2> QED BY <2>6, <2>8, <2>13
<1> QED BY <1>2, <1>3, <1>4

-----------------------------------------------------------------------------
(* The steps of the children and the clients *)

\* A step that touches neither the table's pids nor the parent's variables
\* leaves the bookkeeping right.
LEMMA OthersCount ==
  ASSUME CountInv, UNCHANGED <<pid, parent>>
  PROVE  PhaseInv' /\ TallyInv' /\ RefillInv'
BY DEF CountInv, PhaseInv, TallyInv, RefillInv, CountsUsed, DelHasIdle, Used,
       Seen, PoolFull, Replenished, parent

\* Children and clients keep the invariant.
LEMMA ChildCount ==
  ASSUME CountInv,
         \/ \E p \in Pids : ChildStep(p)
         \/ \E c \in Clients : Connect(c) \/ Leave(c)
         \/ UNCHANGED vars
  PROVE  CountInv'
<1> USE DEF CountInv
<1>1. UNCHANGED <<pid, parent>>
  BY DEF ChildStep, SetIdle, TellIdle, Accept, AcceptFailed, SetBusy, TellBusy,
         Send, CloseConn, Connect, Leave, table, vars
<1>2. PhaseInv' /\ TallyInv' /\ RefillInv'
  BY <1>1, OthersCount
<1>3. ASSUME NEW p \in Pids, ChildStep(p) PROVE TypeOK'
  <2>1. CASE SetIdle(p) \/ SetBusy(p)
    BY <2>1 DEF SetIdle, SetBusy, TypeOK, ChildAt, parent, network
  <2>2. CASE TellIdle(p) \/ TellBusy(p)
    <3>1. notified' \in BOOLEAN
      BY <2>2 DEF TellIdle, TellBusy
    <3>2. /\ cpc' \in [Pids -> ChildAt]
          /\ UNCHANGED <<table, parent, pos, conn, network>>
      BY <2>2 DEF TellIdle, TellBusy, TypeOK, ChildAt
    <3> QED BY <3>1, <3>2 DEF TypeOK, table, parent, network
  <2>3. CASE Accept(p)
    <3>1. Head(backlog) \in Clients /\ Tail(backlog) \in Seq(Clients)
      BY <2>3 DEF Accept, TypeOK
    <3> QED BY <2>3, <3>1 DEF Accept, TypeOK, ChildAt, table, parent
  <2>4. CASE AcceptFailed(p)
    BY <2>4 DEF AcceptFailed, Dies, TypeOK, ChildAt, table, parent
  <2>5. CASE Send(p)
    BY <2>5 DEF Send, TypeOK, ChildAt, table, parent
  <2>6. CASE CloseConn(p)
    BY <2>6 DEF CloseConn, TypeOK, ChildAt, table, parent, network
  <2> QED BY <1>3, <2>1, <2>2, <2>3, <2>4, <2>5, <2>6 DEF ChildStep
<1>4. ASSUME NEW c \in Clients, Connect(c) \/ Leave(c) PROVE TypeOK'
  <2>1. CASE Connect(c)
    <3>1. backlog' \in Seq(Clients)
      BY <2>1 DEF Connect, TypeOK
    <3> QED BY <2>1, <3>1 DEF Connect, TypeOK, table, parent, child
  <2>2. CASE Leave(c)
    BY <2>2 DEF Leave, TypeOK, table, parent, child
  <2> QED BY <1>4, <2>1, <2>2
<1>5. ASSUME UNCHANGED vars PROVE TypeOK'
  BY <1>5 DEF vars, TypeOK, table, parent, child, network
<1>6. TypeOK'
  BY <1>3, <1>4, <1>5
<1> QED BY <1>2, <1>6

\* CountInv is inductive.
LEMMA NextCount == CountInv /\ [Next]_vars => CountInv'
BY AddCount, ScanCount, DelCount, ChildCount DEF Next, ParentStep

-----------------------------------------------------------------------------
(* Theorems *)

\* The invariant holds in every reachable state.
THEOREM Counting == Spec => []CountInv
BY InitCount, NextCount, PTL DEF Spec

\* The variables keep their types: in particular idle_count is never negative
\* and slot never points beyond the table's end.
THEOREM TypeCorrect == Spec => []TypeOK
<1>1. CountInv => TypeOK BY DEF CountInv
<1> QED BY <1>1, Counting, PTL

\* add_1_server always finds a free slot once its check for a full table has
\* passed (lines 97-103), however children die and are killed meanwhile.
THEOREM SlotFound == Spec => []SlotInTable
<1>1. CountInv => SlotInTable
  BY DEF CountInv, PhaseInv, SlotInTable
<1> QED BY <1>1, Counting, PTL

\* The counters add up to the number of slots in use.
THEOREM CountsAreUsed == Spec => []CountsUsed
<1>1. CountInv => CountsUsed BY DEF CountInv, TallyInv
<1> QED BY <1>1, Counting, PTL

\* del_1_server never finds idle_count at zero, so its early return is dead and
\* the counter never goes below zero.
THEOREM IdleToDelete == Spec => []DelHasIdle
<1>1. CountInv => DelHasIdle
  BY DEF CountInv, TallyInv
<1> QED BY <1>1, Counting, PTL

\* The parent sleeps only with the pool replenished, provided the two limits
\* are as far apart as SpareAssumption says.
THEOREM PoolReplenished == Spec => []Replenished
<1>1. CountInv => Replenished BY DEF CountInv, RefillInv
<1> QED BY <1>1, Counting, PTL

-----------------------------------------------------------------------------
(* No child escapes the table *)

\* A step of the parent keeps every living child supervised: fork starts one
\* in a free slot, and only a slot whose child is dead is given up.
LEMMA ParentSupervises ==
  ASSUME CountInv, Supervised, ParentStep
  PROVE  Supervised'
<1> SUFFICES ASSUME NEW q \in Pids, Alive(q)'
             PROVE  \/ pos'[q] \in Slots /\ pid'[pos'[q]] = q
                    \/ ppc' = "record" /\ fresh' = q /\ pos'[q] = slot'
  BY DEF Supervised
<1>1. CASE Fork
  <2>1. PICK p \in Pids :
          /\ fresh' = p
          /\ cpc' = [cpc EXCEPT ![p] = "idle"]
          /\ pos' = [pos EXCEPT ![p] = slot]
    BY <1>1 DEF Fork
  <2>2. ppc = "fork" /\ ppc' = "record" /\ slot' = slot /\ pid' = pid
    BY <1>1 DEF Fork, table
  <2>3. CASE q = p
    BY <2>1, <2>2, <2>3 DEF CountInv, TypeOK
  <2>4. CASE q # p
    <3>1. Alive(q) /\ pos'[q] = pos[q]
      BY <2>1, <2>4 DEF Alive, CountInv, TypeOK
    <3>2. pos[q] \in Slots /\ pid[pos[q]] = q
      BY <2>2, <3>1 DEF Supervised
    <3> QED BY <2>2, <3>1, <3>2
  <2> QED BY <2>3, <2>4
<1>2. CASE Record
  <2>1. /\ ppc = "record" /\ pid' = [pid EXCEPT ![slot] = fresh]
        /\ UNCHANGED child
    BY <1>2 DEF Record
  <2>2. slot \in Slots /\ pid[slot] = NoPid /\ pid \in [Slots -> Pids \cup {NoPid}]
    BY <2>1 DEF CountInv, PhaseInv, TypeOK
  <2>3. Alive(q) /\ pos' = pos
    BY <2>1 DEF Alive, child
  <2>4. CASE pos[q] \in Slots /\ pid[pos[q]] = q
    <3>1. pos[q] # slot
      BY <2>2, <2>4, ValuesAssumption
    <3> QED BY <2>1, <2>2, <2>3, <2>4, <3>1
  <2>5. CASE fresh = q /\ pos[q] = slot
    BY <2>1, <2>2, <2>3, <2>5
  <2> QED BY <2>3, <2>4, <2>5 DEF Supervised
<1>3. CASE ScanDead \/ DelKill
  <2>1. /\ ppc # "record" /\ slot \in Slots /\ pid[slot] \in Pids
        /\ pid' = [pid EXCEPT ![slot] = NoPid] /\ pos' = pos
    BY <1>3 DEF ScanDead, DelKill, child, CountInv, TypeOK, PhaseInv, Scanning,
                Deleting
  <2>2. Alive(q) /\ q # pid[slot]
    BY <1>3, <2>1 DEF ScanDead, DelKill, Dies, Alive, child, CountInv, TypeOK
  <2>3. pos[q] \in Slots /\ pid[pos[q]] = q
    BY <2>1, <2>2 DEF Supervised
  <2> QED BY <2>1, <2>2, <2>3 DEF CountInv, TypeOK
<1>4. CASE \/ AddFull \/ AddSlot \/ ForkFailed \/ Wake \/ ScanEmpty \/ ScanIdle
           \/ ScanBusy \/ ScanNotIdle \/ RescanBusy \/ RescanUnknown
           \/ DelFound \/ DelNotThis
  <2>1. ppc # "record" /\ pid' = pid /\ UNCHANGED child
    BY <1>4 DEF AddFull, AddSlot, ForkFailed, Wake, ScanEmpty, ScanIdle,
                ScanBusy, ScanNotIdle, RescanBusy, RescanUnknown, DelFound,
                DelNotThis, table
  <2>2. Alive(q) /\ pos' = pos
    BY <2>1 DEF Alive, child
  <2>3. pos[q] \in Slots /\ pid[pos[q]] = q
    BY <2>1, <2>2 DEF Supervised
  <2> QED BY <2>1, <2>2, <2>3
<1> QED BY <1>1, <1>2, <1>3, <1>4 DEF ParentStep

\* Children never come back to life nor change slot, so the others keep every
\* living child supervised.
LEMMA ChildSupervised ==
  ASSUME CountInv, Supervised,
         \/ \E p \in Pids : ChildStep(p)
         \/ \E c \in Clients : Connect(c) \/ Leave(c)
         \/ UNCHANGED vars
  PROVE  Supervised'
<1>1. UNCHANGED <<pid, pos, ppc, fresh, slot>>
  BY DEF ChildStep, SetIdle, TellIdle, Accept, AcceptFailed, SetBusy, TellBusy,
         Send, CloseConn, Connect, Leave, table, parent, child, vars
<1>2. \A q \in Pids : Alive(q)' => Alive(q)
  <2>1. ASSUME NEW p \in Pids, ChildStep(p), NEW q \in Pids, Alive(q)'
        PROVE  Alive(q)
    BY <2>1 DEF ChildStep, SetIdle, TellIdle, Accept, AcceptFailed, Dies,
                SetBusy, TellBusy, Send, CloseConn, Alive, CountInv, TypeOK
  <2>2. ASSUME \/ \E c \in Clients : Connect(c) \/ Leave(c)
               \/ UNCHANGED vars
        PROVE  cpc' = cpc
    BY <2>2 DEF Connect, Leave, vars, child
  <2> QED BY <2>1, <2>2 DEF Alive
<1> QED BY <1>1, <1>2 DEF Supervised

\* No child runs outside its own slot while the parent can reach it.
THEOREM AllSupervised == Spec => []Supervised
<1>1. Init => Supervised
  BY DEF Init, Supervised, Alive
<1>2. CountInv /\ Supervised /\ [Next]_vars => Supervised'
  BY ParentSupervises, ChildSupervised DEF Next
<1> QED BY <1>1, <1>2, Counting, PTL DEF Spec

\* The table is kept: every search ends inside it, every living child is in it.
THEOREM TableKept == Spec => []TableIsKept
<1>1. SlotInTable /\ Supervised => TableIsKept
  BY DEF TableIsKept
<1> QED BY <1>1, SlotFound, AllSupervised, PTL

-----------------------------------------------------------------------------
(* The counters and the children's states, when no notification is pending *)

\* The slots below k whose child has said that it is busy.
ToldBusy(k) ==
    {s \in Slots : /\ s < k
                   /\ pid[s] # NoPid
                   /\ state[s] = "BUSY"
                   /\ cpc[pid[s]] # "tellbusy"}

\* No process id is in two slots, nor is the one that fork has just returned in
\* any.
DistinctInv ==
    /\ \A s, t \in Slots : pid[s] = pid[t] /\ pid[s] # NoPid => s = t
    /\ ppc = "record" => \A s \in Slots : pid[s] # fresh

\* While no signal is pending, a new child has not come further than to its
\* first notification, so its slot still says idle.
NewInv ==
    ~notified =>
        /\ ppc \in {"fork", "record"} => state[slot] = "IDLE"
        /\ ppc = "record" => cpc[fresh] \in {"idle", "tellidle"}

\* While no signal is pending, every child that has said that it is busy is
\* counted as busy.
BusyInv ==
    ~notified =>
        /\ ppc \in Scanning => Cardinality(ToldBusy(slot)) <= busy
        /\ ppc \notin Scanning \cup {"aborted"} =>
              Cardinality(ToldBusy(MAXCLIENTS)) <= busy_count

ToldInv == DistinctInv /\ NewInv /\ BusyInv

\* At the start nothing is in the table.
LEMMA InitTold == Init => ToldInv
<1> SUFFICES ASSUME Init PROVE ToldInv
  OBVIOUS
<1>1. \A s \in Slots : pid[s] = NoPid
  BY DEF Init
<1>2. ppc = "addcheck" /\ busy_count = 0
  BY DEF Init
<1>3. ToldBusy(MAXCLIENTS) = {}
  BY <1>1 DEF ToldBusy
<1> QED BY <1>1, <1>2, <1>3, FS_EmptySet
        DEF ToldInv, DistinctInv, NewInv, BusyInv, Scanning

\* A set of slots has no fewer elements than a part of it.
LEMMA FewerSlots ==
  ASSUME NEW A \in SUBSET Slots, NEW B \in SUBSET A
  PROVE  Cardinality(B) <= Cardinality(A)
BY SlotSubset, FS_Subset

\* scan_pool counts a slot: BusyInv is kept when its running count of busy
\* children is right after this slot.
LEMMA CountedTold ==
  ASSUME NEW i \in Nat, NEW b \in Nat,
         CountInv, ppc \in Scanning, Counted(i, b),
         ~notified' => Cardinality({s \in Slots : s <= slot /\ s \in ToldBusy(MAXCLIENTS)'}) <= b
  PROVE  BusyInv' /\ ppc' \notin {"fork", "record"}
<1> DEFINE Passed == {s \in Slots : s <= slot /\ s \in ToldBusy(MAXCLIENTS)'}
<1>1. slot \in Slots /\ ~booting
  BY DEF CountInv, PhaseInv, Scanning
<1>2. CASE slot + 1 < MAXCLIENTS
  <2>1. busy' = b /\ ppc' = "scan" /\ slot' = slot + 1
    BY <1>2 DEF Counted
  <2>2. \A s \in Slots : s < slot + 1 <=> (s <= slot /\ s < MAXCLIENTS)
    BY <1>1, <1>2, SizesAssumption, SMT DEF Slots
  <2>3. ToldBusy(slot)' = Passed
    BY <2>1, <2>2 DEF ToldBusy
  <2> QED BY <2>1, <2>3 DEF BusyInv, Scanning
<1>3. CASE ~(slot + 1 < MAXCLIENTS)
  <2>1. idle_count' = i /\ busy_count' = b /\ Control(i)
    BY <1>3 DEF Counted
  <2>2. ppc' \in {"addcheck", "delcheck", "suspend"}
    BY <1>1, <2>1, ControlStep DEF CountInv
  <2>3. \A s \in Slots : s <= slot
    BY <1>1, <1>3, SizesAssumption, SMT DEF Slots
  <2>4. ToldBusy(MAXCLIENTS)' = Passed
    BY <2>3 DEF ToldBusy
  <2> QED BY <2>1, <2>2, <2>4 DEF BusyInv, Scanning
<1> QED BY <1>2, <1>3

\* add_1_server keeps what is known of the children that have told.
LEMMA AddTold ==
  ASSUME CountInv, Supervised, ToldInv,
         AddFull \/ AddSlot \/ Fork \/ ForkFailed \/ Record
  PROVE  ToldInv'
<1> USE DEF ToldInv
<1>1. CASE AddFull \/ ForkFailed
  <2>1. /\ UNCHANGED <<pid, state, cpc, notified, busy_count>>
        /\ ppc \in {"addcheck", "fork"}
    BY <1>1 DEF AddFull, ForkFailed, table, child
  <2>2. ppc' \in {"addcheck", "suspend", "exited"}
    BY <1>1 DEF AddFull, ForkFailed, AfterAdd, Suspend
  <2>3. ToldBusy(MAXCLIENTS)' = ToldBusy(MAXCLIENTS)
    BY <2>1 DEF ToldBusy
  <2> QED BY <2>1, <2>2, <2>3 DEF DistinctInv, NewInv, BusyInv, Scanning
<1>2. CASE AddSlot
  <2>1. /\ UNCHANGED <<pid, cpc, notified, busy_count>>
        /\ ppc = "addcheck" /\ ppc' = "fork"
    BY <1>2 DEF AddSlot, child
  <2>2. PICK s \in 0 .. MAXCLIENTS :
          IsFirstFree(s) /\ slot' = s /\ state' = [state EXCEPT ![s] = "IDLE"]
    BY <1>2 DEF AddSlot
  <2>3. CountInv'
    BY <1>2, AddCount
  <2>4. slot' \in Slots /\ pid'[slot'] = NoPid
    BY <2>1, <2>3 DEF CountInv, PhaseInv
  <2>5. ToldBusy(MAXCLIENTS)' = ToldBusy(MAXCLIENTS)
    BY <2>1, <2>2, <2>4 DEF ToldBusy, CountInv, TypeOK
  <2>6. state'[slot'] = "IDLE"
    BY <2>2, <2>4 DEF CountInv, TypeOK
  <2> QED BY <2>1, <2>5, <2>6 DEF DistinctInv, NewInv, BusyInv, Scanning
<1>3. CASE Fork
  <2>1. PICK p \in Pids :
          /\ \A s \in Slots : pid[s] # p
          /\ fresh' = p
          /\ cpc' = [cpc EXCEPT ![p] = "idle"]
    BY <1>3 DEF Fork
  <2>2. /\ UNCHANGED <<pid, state, slot, notified, busy_count>>
        /\ ppc = "fork" /\ ppc' = "record"
    BY <1>3 DEF Fork, table
  <2>3. \A s \in Slots : pid[s] # NoPid => cpc'[pid[s]] = cpc[pid[s]]
    BY <2>1 DEF CountInv, TypeOK
  <2>4. ToldBusy(MAXCLIENTS)' = ToldBusy(MAXCLIENTS)
    BY <2>2, <2>3 DEF ToldBusy
  <2>5. DistinctInv'
    BY <2>1, <2>2 DEF DistinctInv
  <2>6. cpc'[fresh'] = "idle"
    BY <2>1 DEF CountInv, TypeOK
  <2>7. NewInv'
    BY <2>2, <2>6 DEF NewInv
  <2>8. BusyInv'
    BY <2>2, <2>4 DEF BusyInv, Scanning
  <2> QED BY <2>5, <2>7, <2>8
<1>4. CASE Record
  <2>1. /\ UNCHANGED <<state, cpc, notified, busy_count>>
        /\ ppc = "record" /\ pid' = [pid EXCEPT ![slot] = fresh]
        /\ ppc' \in {"addcheck", "suspend"}
    BY <1>4 DEF Record, child, AfterAdd, Suspend
  <2>2. slot \in Slots /\ fresh \in Pids
    BY <2>1 DEF CountInv, PhaseInv
  <2>3. \A s \in Slots : pid'[s] = IF s = slot THEN fresh ELSE pid[s]
    BY <2>1, <2>2 DEF CountInv, TypeOK
  <2>4. DistinctInv'
    BY <2>1, <2>3 DEF DistinctInv
  <2>5. ~notified => slot \notin ToldBusy(MAXCLIENTS)'
    BY <2>1 DEF ToldBusy, NewInv
  <2>6. ~notified => ToldBusy(MAXCLIENTS)' \subseteq ToldBusy(MAXCLIENTS)
    BY <2>1, <2>3, <2>5 DEF ToldBusy
  <2>7. ~notified => Cardinality(ToldBusy(MAXCLIENTS)') <= Cardinality(ToldBusy(MAXCLIENTS))
    BY <2>6, FewerSlots DEF ToldBusy
  <2>8. ~notified => Cardinality(ToldBusy(MAXCLIENTS)) <= busy_count
    BY <2>1 DEF BusyInv, Scanning
  <2>9. /\ Cardinality(ToldBusy(MAXCLIENTS)) \in Nat
        /\ Cardinality(ToldBusy(MAXCLIENTS)') \in Nat
    BY SlotSubset DEF ToldBusy
  <2>10. busy_count \in Nat
    BY DEF CountInv, TypeOK
  <2>11. ~notified => Cardinality(ToldBusy(MAXCLIENTS)') <= busy_count'
    BY <2>1, <2>7, <2>8, <2>9, <2>10
  <2>12. BusyInv'
    BY <2>1, <2>11 DEF BusyInv, Scanning
  <2> QED BY <2>1, <2>4, <2>12 DEF NewInv
<1> QED BY <1>1, <1>2, <1>3, <1>4

\* scan_pool counts every child that has told; with the notification it clears
\* it starts to count from nothing.
LEMMA ScanTold ==
  ASSUME CountInv, ToldInv,
         \/ Wake \/ ScanEmpty \/ ScanDead \/ ScanIdle \/ ScanBusy
         \/ ScanNotIdle \/ RescanBusy \/ RescanUnknown
  PROVE  ToldInv'
<1> DEFINE Told   == ToldBusy(MAXCLIENTS)'
           Passed == {s \in Slots : s <= slot /\ s \in Told}
<1> USE DEF ToldInv
<1>1. idle \in Nat /\ busy \in Nat /\ idle + 1 \in Nat /\ busy + 1 \in Nat
  BY DEF CountInv, TypeOK
\* The slots passed are those seen before, and perhaps this one.
<1>2. ASSUME ppc \in Scanning, UNCHANGED <<state, cpc, notified>>,
             \A s \in Slots : pid'[s] # NoPid => pid'[s] = pid[s],
             ~notified
      PROVE  /\ Cardinality(Passed) <= busy + 1
             /\ slot \notin Told => Cardinality(Passed) <= busy
  <2>1. slot \in Slots
    BY <1>2 DEF CountInv, PhaseInv
  <2>2. Cardinality(ToldBusy(slot)) <= busy
    BY <1>2 DEF BusyInv
  <2>3. \A s \in Slots : s <= slot => s = slot \/ s < slot
    BY <2>1, SMT DEF Slots
  <2>4. \A s \in Told : s <= slot => s = slot \/ s \in ToldBusy(slot)
    BY <1>2, <2>3 DEF ToldBusy
  <2>5. Passed \subseteq ToldBusy(slot) \cup {slot}
    BY <2>4
  <2>6. slot \notin Told => Passed \subseteq ToldBusy(slot)
    BY <2>4
  <2>7. /\ ToldBusy(slot) \in SUBSET Slots
        /\ ToldBusy(slot) \cup {slot} \in SUBSET Slots
    BY <2>1 DEF ToldBusy
  <2> HIDE DEF Told, Passed
  <2>8. slot \notin ToldBusy(slot)
    BY <2>1, SMT DEF ToldBusy, Slots
  <2>9. IsFiniteSet(ToldBusy(slot)) /\ Cardinality(ToldBusy(slot)) \in Nat
    BY <2>7, SlotSubset
  <2>10. Cardinality(ToldBusy(slot) \cup {slot}) = Cardinality(ToldBusy(slot)) + 1
    BY <2>8, <2>9, FS_AddElement
  <2>11. Passed \in SUBSET Slots
    BY <2>5, <2>7
  <2>12. Cardinality(Passed) \in Nat
    BY <2>11, SlotSubset
  <2>13. Cardinality(Passed) <= Cardinality(ToldBusy(slot) \cup {slot})
    BY <2>5, <2>7, FewerSlots
  <2>14. slot \notin Told => Cardinality(Passed) <= Cardinality(ToldBusy(slot))
    BY <2>6, <2>7, FewerSlots
  <2> QED BY <1>1, <2>2, <2>9, <2>10, <2>12, <2>13, <2>14
<1>3. CASE Wake
  <2>1. /\ ppc' = "scan" /\ slot' = 0 /\ busy' = 0
        /\ UNCHANGED <<pid, state, cpc>>
    BY <1>3 DEF Wake, table, child
  <2>2. ToldBusy(slot)' = {}
    BY <2>1, SMT DEF ToldBusy, Slots
  <2> QED BY <2>1, <2>2, FS_EmptySet DEF DistinctInv, NewInv, BusyInv, Scanning
<1>4. CASE ScanEmpty \/ ScanDead \/ ScanIdle
  <2>1. /\ ppc \in Scanning /\ UNCHANGED <<state, cpc, notified>>
        /\ \A s \in Slots : pid'[s] # NoPid => pid'[s] = pid[s]
        /\ pid'[slot] = NoPid \/ state[slot] = "IDLE"
        /\ Counted(idle, busy) \/ Counted(idle + 1, busy)
    BY <1>4 DEF ScanEmpty, ScanDead, ScanIdle, Scanning, table, child, CountInv,
                TypeOK, PhaseInv
  <2>2. slot \notin Told
    BY <2>1 DEF ToldBusy
  <2>3. ~notified' => Cardinality(Passed) <= busy
    BY <1>2, <2>1, <2>2
  <2>4. BusyInv' /\ ppc' \notin {"fork", "record"}
    BY <1>1, <2>1, <2>3, CountedTold
  <2> QED BY <2>1, <2>4 DEF DistinctInv, NewInv
<1>5. CASE ScanBusy \/ RescanBusy
  <2>1. /\ ppc \in Scanning /\ UNCHANGED <<pid, state, cpc, notified>>
        /\ Counted(idle, busy + 1)
    BY <1>5 DEF ScanBusy, RescanBusy, Scanning, table, child
  <2>2. ~notified' => Cardinality(Passed) <= busy + 1
    BY <1>2, <2>1
  <2>3. BusyInv' /\ ppc' \notin {"fork", "record"}
    BY <1>1, <2>1, <2>2, CountedTold
  <2> QED BY <2>1, <2>3 DEF DistinctInv, NewInv
<1>6. CASE ScanNotIdle \/ RescanUnknown
  <2>1. /\ UNCHANGED <<pid, state, cpc, notified, slot, busy, busy_count>>
        /\ ppc \in Scanning /\ ppc' \in {"rescan", "aborted"}
    BY <1>6 DEF ScanNotIdle, RescanUnknown, Scanning, table, child
  <2>2. ToldBusy(slot)' = ToldBusy(slot)
    BY <2>1 DEF ToldBusy
  <2> QED BY <2>1, <2>2 DEF DistinctInv, NewInv, BusyInv, Scanning
<1> QED BY <1>3, <1>4, <1>5, <1>6

\* del_1_server takes a slot away and changes nothing that another child told.
LEMMA DelTold ==
  ASSUME CountInv, ToldInv, DelFound \/ DelNotThis \/ DelKill
  PROVE  ToldInv'
<1> USE DEF ToldInv
<1>1. /\ ppc \in Deleting /\ ppc' \in {"kill", "delcheck", "suspend"}
      /\ UNCHANGED <<state, notified, busy_count>>
  BY DEF DelFound, DelNotThis, DelKill, AfterDel, Suspend, Deleting, table
<1>2. CASE DelFound \/ DelNotThis
  <2>1. UNCHANGED <<pid, cpc>>
    BY <1>2 DEF DelFound, DelNotThis, table, child
  <2>2. ToldBusy(MAXCLIENTS)' = ToldBusy(MAXCLIENTS)
    BY <1>1, <2>1 DEF ToldBusy
  <2> QED BY <1>1, <2>1, <2>2 DEF DistinctInv, NewInv, BusyInv, Scanning, Deleting
<1>3. CASE DelKill
  <2>1. /\ ppc = "kill" /\ pid' = [pid EXCEPT ![slot] = NoPid]
        /\ cpc' = [cpc EXCEPT ![pid[slot]] = "dead"]
    BY <1>3 DEF DelKill, Dies
  <2>2. slot \in Slots /\ pid[slot] # NoPid
    BY <2>1 DEF CountInv, PhaseInv, Deleting
  <2>3. \A s \in Slots : pid'[s] = IF s = slot THEN NoPid ELSE pid[s]
    BY <2>1, <2>2 DEF CountInv, TypeOK
  <2>4. \A s \in Slots : s # slot => pid[s] = NoPid \/ pid[s] # pid[slot]
    BY <2>2 DEF DistinctInv
  <2>5. \A s \in Slots : pid'[s] # NoPid => pid'[s] = pid[s] /\ cpc'[pid[s]] = cpc[pid[s]]
    BY <2>1, <2>3, <2>4 DEF CountInv, TypeOK
  <2>6. ToldBusy(MAXCLIENTS)' \subseteq ToldBusy(MAXCLIENTS)
    BY <1>1, <2>5 DEF ToldBusy
  <2>7. Cardinality(ToldBusy(MAXCLIENTS)') <= Cardinality(ToldBusy(MAXCLIENTS))
    BY <2>6, FewerSlots DEF ToldBusy
  <2>8. /\ Cardinality(ToldBusy(MAXCLIENTS)) \in Nat
        /\ Cardinality(ToldBusy(MAXCLIENTS)') \in Nat
    BY SlotSubset DEF ToldBusy
  <2>9. ~notified => Cardinality(ToldBusy(MAXCLIENTS)) <= busy_count
    BY <2>1 DEF BusyInv, Scanning
  <2>10. busy_count \in Nat
    BY DEF CountInv, TypeOK
  <2>11. ~notified => Cardinality(ToldBusy(MAXCLIENTS)') <= busy_count'
    BY <1>1, <2>7, <2>8, <2>9, <2>10
  <2>12. DistinctInv'
    BY <1>1, <2>3 DEF DistinctInv
  <2>13. NewInv' /\ BusyInv'
    BY <1>1, <2>11 DEF NewInv, BusyInv, Scanning
  <2> QED BY <2>12, <2>13
<1> QED BY <1>2, <1>3

\* A step that makes no child one that has told that it is busy, and leaves the
\* parent where it is, keeps BusyInv.
LEMMA ToldKept ==
  ASSUME CountInv, BusyInv, UNCHANGED <<pid, parent>>,
         ~notified' => ~notified,
         \A s \in Slots :
            (pid[s] # NoPid /\ state'[s] = "BUSY" /\ cpc'[pid[s]] # "tellbusy")
            => (state[s] = "BUSY" /\ cpc[pid[s]] # "tellbusy")
  PROVE  BusyInv'
<1>1. /\ ToldBusy(slot)' \subseteq ToldBusy(slot)
      /\ ToldBusy(MAXCLIENTS)' \subseteq ToldBusy(MAXCLIENTS)
  BY DEF ToldBusy, parent
<1>2. ToldBusy(slot) \in SUBSET Slots /\ ToldBusy(MAXCLIENTS) \in SUBSET Slots
  BY DEF ToldBusy
<1>3. /\ Cardinality(ToldBusy(slot)') <= Cardinality(ToldBusy(slot))
      /\ Cardinality(ToldBusy(MAXCLIENTS)') <= Cardinality(ToldBusy(MAXCLIENTS))
  BY <1>1, <1>2, FewerSlots
<1>4. /\ Cardinality(ToldBusy(slot)) \in Nat
      /\ Cardinality(ToldBusy(MAXCLIENTS)) \in Nat
      /\ Cardinality(ToldBusy(slot)') \in Nat
      /\ Cardinality(ToldBusy(MAXCLIENTS)') \in Nat
  <2>1. /\ ToldBusy(slot)' \in SUBSET Slots
        /\ ToldBusy(MAXCLIENTS)' \in SUBSET Slots
    BY <1>1, <1>2
  <2> QED BY <1>2, <2>1, SlotSubset
<1>5. busy \in Nat /\ busy_count \in Nat
  BY DEF CountInv, TypeOK
<1>6. UNCHANGED <<ppc, slot, busy, busy_count>>
  BY DEF parent
<1>7. ASSUME ~notified', ppc \in Scanning
      PROVE  Cardinality(ToldBusy(slot)') <= busy
  <2>1. Cardinality(ToldBusy(slot)) <= busy
    BY <1>7 DEF BusyInv
  <2> QED BY <1>3, <1>4, <1>5, <2>1
<1>8. ASSUME ~notified', ppc \notin Scanning \cup {"aborted"}
      PROVE  Cardinality(ToldBusy(MAXCLIENTS)') <= busy_count
  <2>1. Cardinality(ToldBusy(MAXCLIENTS)) <= busy_count
    BY <1>8 DEF BusyInv
  <2> QED BY <1>3, <1>4, <1>5, <2>1
<1> QED BY <1>6, <1>7, <1>8 DEF BusyInv

\* A child keeps what is known of those that have told: it says so itself, in a
\* slot that is its own.
LEMMA ChildTold ==
  ASSUME CountInv, Supervised, ToldInv, NEW p \in Pids, ChildStep(p)
  PROVE  ToldInv'
<1> USE DEF ToldInv
<1>1. UNCHANGED <<pid, parent, ppc, slot, fresh>>
  BY DEF ChildStep, SetIdle, TellIdle, Accept, AcceptFailed, SetBusy, TellBusy,
         Send, CloseConn, table, parent
<1>2. DistinctInv'
  BY <1>1 DEF DistinctInv
<1>3. CASE SetIdle(p)
  <2>1. /\ cpc[p] = "idle" /\ cpc' = [cpc EXCEPT ![p] = "tellidle"]
        /\ state' = [state EXCEPT ![pos[p]] = "IDLE"] /\ notified' = notified
    BY <1>3 DEF SetIdle
  <2>2. BusyInv'
    BY <1>1, <2>1, ToldKept DEF CountInv, TypeOK
  <2>3. NewInv'
    BY <1>1, <2>1 DEF NewInv, CountInv, TypeOK, PhaseInv
  <2> QED BY <1>2, <2>2, <2>3
<1>4. CASE SetBusy(p)
  <2>1. /\ cpc[p] = "busy" /\ cpc' = [cpc EXCEPT ![p] = "tellbusy"]
        /\ state' = [state EXCEPT ![pos[p]] = "BUSY"] /\ notified' = notified
    BY <1>4 DEF SetBusy
  <2>2. \/ pos[p] \in Slots /\ pid[pos[p]] = p
        \/ ppc = "record" /\ fresh = p /\ pos[p] = slot /\ pid[slot] = NoPid
    BY <2>1 DEF Supervised, Alive, CountInv, PhaseInv
  <2>3. cpc'[p] = "tellbusy" /\ \A q \in Pids : q # p => cpc'[q] = cpc[q]
    BY <2>1 DEF CountInv, TypeOK
  <2>4. \A s \in Slots : s # pos[p] => state'[s] = state[s]
    BY <2>1 DEF CountInv, TypeOK
  <2>5. \A s \in Slots : pid[s] # NoPid => pid[s] \in Pids
    BY DEF CountInv, TypeOK
  <2>6. \A s \in Slots : pid[s] # NoPid /\ pid[s] # p => s # pos[p]
    BY <2>2
  <2>7. BusyInv'
    BY <1>1, <2>1, <2>3, <2>4, <2>5, <2>6, ToldKept
  <2>8. ASSUME ~notified, ppc \in {"fork", "record"}
        PROVE  state'[slot] = "IDLE" /\ (ppc = "record" => fresh # p)
    <3>1. slot \in Slots /\ pid[slot] = NoPid
      BY <2>8 DEF CountInv, PhaseInv
    <3>2. ppc = "record" => fresh # p
      BY <2>1, <2>8 DEF NewInv
    <3>3. slot # pos[p]
      BY <2>2, <3>1, <3>2, ValuesAssumption
    <3> QED BY <2>4, <2>8, <3>1, <3>2, <3>3 DEF NewInv
  <2>9. ppc = "record" => fresh \in Pids
    BY DEF CountInv, PhaseInv
  <2>10. NewInv'
    BY <1>1, <2>1, <2>3, <2>8, <2>9 DEF NewInv
  <2> QED BY <1>2, <2>7, <2>10
<1>5. CASE TellIdle(p) \/ TellBusy(p)
  <2>1. notified'
    BY <1>5 DEF TellIdle, TellBusy
  <2> QED BY <1>2, <2>1 DEF NewInv, BusyInv
<1>6. CASE Accept(p) \/ AcceptFailed(p) \/ Send(p) \/ CloseConn(p)
  <2>1. /\ cpc[p] \in {"accept", "send", "close"} /\ UNCHANGED <<state, notified>>
        /\ \E c \in ChildAt : c # "tellbusy" /\ cpc' = [cpc EXCEPT ![p] = c]
    BY <1>6 DEF Accept, AcceptFailed, Dies, Send, CloseConn, table, ChildAt
  <2>2. \A q \in Pids : q # p => cpc'[q] = cpc[q]
    BY <2>1 DEF CountInv, TypeOK
  <2>3. \A s \in Slots : pid[s] # NoPid => pid[s] \in Pids
    BY DEF CountInv, TypeOK
  <2>4. BusyInv'
    BY <1>1, <2>1, <2>2, <2>3, ToldKept
  <2>5. ppc = "record" => fresh \in Pids
    BY DEF CountInv, PhaseInv
  <2>6. NewInv'
    BY <1>1, <2>1, <2>2, <2>5 DEF NewInv
  <2> QED BY <1>2, <2>4, <2>6
<1> QED BY <1>3, <1>4, <1>5, <1>6 DEF ChildStep

\* ToldInv is inductive relative to the invariants above.
LEMMA NextTold == CountInv /\ Supervised /\ ToldInv /\ [Next]_vars => ToldInv'
<1> SUFFICES ASSUME CountInv, Supervised, ToldInv, [Next]_vars PROVE ToldInv'
  OBVIOUS
<1>1. CASE ParentStep
  BY <1>1, AddTold, ScanTold, DelTold DEF ParentStep
<1>2. CASE \E p \in Pids : ChildStep(p)
  BY <1>2, ChildTold
<1>3. CASE (\E c \in Clients : Connect(c) \/ Leave(c)) \/ UNCHANGED vars
  <2>1. UNCHANGED <<pid, state, cpc, notified, parent, ppc, slot, fresh>>
    BY <1>3 DEF Connect, Leave, vars, table, parent, child
  <2>2. BusyInv'
    BY <2>1, ToldKept DEF ToldInv
  <2> QED BY <2>1, <2>2 DEF ToldInv, DistinctInv, NewInv
<1> QED BY <1>1, <1>2, <1>3 DEF Next

\* When the parent sleeps and nothing is on its way to it, it counts on no more idle
\* children than live and are idle, but for those that have died without a word.
THEOREM CountsSettled == Spec => []SettledCounts
<1>1. ASSUME CountInv, ToldInv PROVE SettledCounts
  <2> DEFINE Idle == {s \in Used : state[s] = "IDLE"}
             Busy == {s \in Used : state[s] = "BUSY"}
  <2>1. SUFFICES ASSUME Settled
                 PROVE  /\ idle_count <= Cardinality({s \in Living : state[s] = "IDLE"})
                                           + Cardinality(Used \ Living)
                        /\ busy_count >= Cardinality(Busy)
    BY DEF SettledCounts
  <2>2. Idle \cup Busy = Used /\ Idle \cap Busy = {}
    BY <1>1 DEF CountInv, TypeOK, Used
  <2>3. ToldBusy(MAXCLIENTS) = Busy
    <3>1. \A s \in Slots : s < MAXCLIENTS
      BY SizesAssumption, SMT DEF Slots
    <3>2. \A s \in Used : cpc[pid[s]] # "tellbusy"
      BY <1>1, <2>1 DEF Settled, Used, CountInv, TypeOK
    <3> QED BY <3>1, <3>2 DEF ToldBusy, Used
  <2>4. Cardinality(Busy) <= busy_count
    BY <1>1, <2>1, <2>3 DEF ToldInv, BusyInv, Settled, Scanning
  <2>5. idle_count + busy_count = Cardinality(Used)
    BY <1>1, <2>1 DEF CountInv, TallyInv, CountsUsed, Settled
  <2>6. /\ IsFiniteSet(Idle) /\ IsFiniteSet(Busy)
        /\ Cardinality(Idle) \in Nat /\ Cardinality(Busy) \in Nat
    BY SlotSubset DEF Used
  <2> HIDE DEF Idle, Busy
  <2>7. Cardinality(Idle \cup Busy) = Cardinality(Idle) + Cardinality(Busy)
    <3>1. Cardinality(Idle \cap Busy) = 0
      BY <2>2, FS_EmptySet
    <3>2. Cardinality(Idle \cup Busy)
            = Cardinality(Idle) + Cardinality(Busy) - Cardinality(Idle \cap Busy)
      BY <2>6, FS_Union
    <3> QED BY <2>6, <3>1, <3>2
  <2>8. idle_count \in Nat /\ busy_count \in Nat
    BY <1>1 DEF CountInv, TypeOK
  <2>9. idle_count <= Cardinality(Idle) /\ busy_count >= Cardinality(Busy)
    BY <2>2, <2>4, <2>5, <2>6, <2>7, <2>8
  <2> DEFINE Idlers == {s \in Living : state[s] = "IDLE"}
             Dead   == Used \ Living
  <2>10. /\ Idlers \in SUBSET Slots /\ Dead \in SUBSET Slots
         /\ Idlers \cup Dead \in SUBSET Slots /\ Idlers \cap Dead = {}
    BY DEF Used, Living
  <2>11. Idle \subseteq Idlers \cup Dead
    BY DEF Idle, Living
  <2>12. /\ IsFiniteSet(Idlers) /\ IsFiniteSet(Dead)
         /\ Cardinality(Idlers) \in Nat /\ Cardinality(Dead) \in Nat
    BY <2>10, SlotSubset
  <2> HIDE DEF Idlers, Dead
  <2>13. Cardinality(Idlers \cup Dead) = Cardinality(Idlers) + Cardinality(Dead)
    <3>1. Cardinality(Idlers \cap Dead) = 0
      BY <2>10, FS_EmptySet
    <3>2. Cardinality(Idlers \cup Dead)
            = Cardinality(Idlers) + Cardinality(Dead) - Cardinality(Idlers \cap Dead)
      BY <2>12, FS_Union
    <3> QED BY <2>12, <3>1, <3>2
  <2>14. Cardinality(Idle) <= Cardinality(Idlers \cup Dead)
    BY <2>10, <2>11, FewerSlots
  <2>15. idle_count <= Cardinality(Idlers) + Cardinality(Dead)
    BY <2>6, <2>8, <2>9, <2>12, <2>13, <2>14
  <2> QED BY <2>9, <2>15 DEF Idlers, Dead
<1>2. CountInv /\ Supervised /\ ToldInv => SettledCounts
  BY <1>1
<1>3. Spec => []Supervised
  BY AllSupervised
<1> QED BY <1>2, <1>3, InitTold, NextTold, Counting, PTL DEF Spec

=============================================================================
