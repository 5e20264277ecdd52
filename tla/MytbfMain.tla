------------------------------ MODULE MytbfMain ------------------------------
(***************************************************************************)
(* The program of parallel/signal/mytbf/main.c (and of mytbf_sa, whose     *)
(* main.c is the same): it copies a file to its standard output, as many   *)
(* bytes at a time as the token bucket grants.                             *)
(***************************************************************************)
EXTENDS MytbfSig, Sequences

CONSTANTS
    Length,      \* bytes of the file, which are 1, 2, .. Length
    BUFSIZE,
    MaxFails     \* bound: failed reads, each of which main survives

ASSUME CopyAssumption ==
    /\ Length \in Nat
    /\ BUFSIZE \in Nat \ {0}
    /\ MaxFails \in Nat

VARIABLES
    mpc,     \* where main is
    offset,  \* bytes read from the file
    buf,     \* what the last read put in the buffer
    len,     \* main's len
    granted, \* main's size: what mytbf_fetchtoken returned
    out,     \* what the output has received
    ticks,   \* history: ticks so far, no longer counted once they exceed Length
    fails,   \* history: failed reads so far
    short    \* history: a write has taken fewer bytes than it was given

mainVars == <<mpc, offset, buf, len, granted, out, ticks, fails, short>>
allVars  == <<vars, mainVars>>

\* main's local variables are as yet unset; 0 stands for what they hold.
InitMain ==
    /\ Init
    /\ mpc = "init" /\ offset = 0 /\ buf = <<>> /\ len = 0 /\ granted = 0
    /\ out = <<>> /\ ticks = 0 /\ fails = 0 /\ short = FALSE

tbf == CHOOSE b \in live : TRUE

At(l) == mpc = l /\ pc = "out"

MainInit ==
    /\ At("init")
    /\ \E b \in Buckets : InitBegin(b)
    /\ mpc' = "open"
    /\ UNCHANGED <<offset, buf, len, granted, out, ticks, fails, short>>

\* exit(1).
MainInitFails ==
    /\ At("init")
    /\ InitNull
    /\ mpc' = "failed"
    /\ UNCHANGED <<offset, buf, len, granted, out, ticks, fails, short>>

\* open, which is tried again while a signal interrupts it; exit(1) otherwise.
MainOpen ==
    /\ At("open")
    /\ mpc' \in {"fetch", "failed"}
    /\ UNCHANGED <<vars, offset, buf, len, granted, out, ticks, fails, short>>

MainFetch ==
    /\ At("fetch")
    /\ FetchBegin(tbf, BUFSIZE)
    /\ mpc' = "fetching"
    /\ UNCHANGED <<offset, buf, len, granted, out, ticks, fails, short>>

\* Mutant of MainRead: the end of the file is not looked for.
MainReadOn ==
    /\ At("read")
    /\ \E k \in 0 .. Least(granted, Length - offset) :
          /\ k = 0 => offset = Length
          /\ len' = k
          /\ buf' = [j \in 1 .. k |-> offset + j]
          /\ offset' = offset + k
          /\ mpc' = IF granted > k THEN "return" ELSE "write"
    /\ UNCHANGED <<vars, granted, out, ticks, fails, short>>
\* read returns what there is, up to what was granted, or 0 at the end.
MainRead ==
    /\ At("read")
    /\ \E k \in 0 .. Least(granted, Length - offset) :
          /\ k = 0 => offset = Length \/ granted = 0
          /\ len' = k
          /\ buf' = [j \in 1 .. k |-> offset + j]
          /\ offset' = offset + k
          /\ mpc' = IF k = 0 THEN "destroy"
                    ELSE IF granted > k THEN "return" ELSE "write"
    /\ UNCHANGED <<vars, granted, out, ticks, fails, short>>

\* An error leaves len at -1, which is not 0: granted - len tokens are returned
\* and main goes on.
MainReadFails ==
    /\ At("read")
    /\ fails < MaxFails
    /\ fails' = fails + 1
    /\ len' = -1 /\ buf' = <<>>
    /\ mpc' = "return"
    /\ UNCHANGED <<vars, offset, granted, out, ticks, short>>

\* Mutant of MainReturn: what was read is returned, not what was not.
MainReturnRead ==
    /\ At("return")
    /\ ReturnBegin(tbf, len)
    /\ mpc' = IF len > 0 THEN "write" ELSE "fetch"
    /\ UNCHANGED <<offset, buf, len, granted, out, ticks, fails, short>>
MainReturn ==
    /\ At("return")
    /\ ReturnBegin(tbf, granted - len)
    /\ mpc' = IF len > 0 THEN "write" ELSE "fetch"
    /\ UNCHANGED <<offset, buf, len, granted, out, ticks, fails, short>>

\* Mutant of MainWrite: one write, however much it took.
MainWriteOnce ==
    /\ At("write")
    /\ \E k \in 1 .. len :
          /\ out' = out \o SubSeq(buf, 1, k)
          /\ short' = (short \/ k < len)
    /\ len' = 0 /\ buf' = <<>> /\ granted' = 0
    /\ mpc' = "fetch"
    /\ UNCHANGED <<vars, offset, ticks, fails>>
\* write is given the start of the buffer each time, whatever pos says.
MainWrite ==
    /\ At("write")
    /\ \E k \in 1 .. len :
          /\ short' = (short \/ k < len)
          /\ out' = out \o SubSeq(buf, 1, k)
          /\ len' = len - k
          /\ IF k = len THEN mpc' = "fetch" /\ buf' = <<>> /\ granted' = 0
                        ELSE UNCHANGED <<mpc, buf, granted>>
    /\ UNCHANGED <<vars, offset, ticks, fails>>

\* An error other than EINTR: exit(1).
MainWriteFails ==
    /\ At("write")
    /\ mpc' = "failed"
    /\ UNCHANGED <<vars, offset, buf, len, granted, out, ticks, fails, short>>

MainDestroy ==
    /\ At("destroy")
    /\ DestroyBegin(tbf)
    /\ mpc' = "done"
    /\ UNCHANGED <<offset, buf, len, granted, out, ticks, fails, short>>

\* The library's steps; what a fetch takes is what it returns.
InLibrary ==
    /\ Step
    /\ IF pc = "fstore" THEN granted' = n /\ mpc' = "read" ELSE UNCHANGED <<granted, mpc>>
    /\ UNCHANGED <<offset, buf, len, out, ticks, fails, short>>

MainExit ==
    /\ mpc \in {"done", "failed"}
    /\ ExitRestore
    /\ UNCHANGED mainVars

OnTick ==
    /\ Tick
    /\ ticks' = IF ticks > Length THEN ticks ELSE ticks + 1
    /\ UNCHANGED <<mpc, offset, buf, len, granted, out, fails, short>>

OtherSignal == (ForeignTick \/ TickKills) /\ UNCHANGED mainVars

MainStep ==
    \/ MainInit \/ MainInitFails \/ MainOpen
    \/ MainFetch \/ MainRead \/ MainReadFails \/ MainReturn
    \/ MainWrite \/ MainWriteFails \/ MainDestroy \/ InLibrary \/ MainExit

NextMain == MainStep \/ OnTick \/ OtherSignal

SpecMain == InitMain /\ [][NextMain]_allVars

\* The timer goes off again and again, and main goes on.
FairSpecMain == SpecMain /\ WF_allVars(OnTick) /\ WF_allVars(MainStep)

-----------------------------------------------------------------------------
(* Properties *)

\* main.c:13 "ten characters a second": at no time has the output received
\* more than CPS bytes a tick, however read splits the file and whatever of a
\* grant is returned; each failed read gives away one byte (lines 71-78).
Rate == Len(out) <= CPS * ticks + fails

\* As many bytes are written as the file has before main ends, whatever read and
\* write did on the way (lines 66-92); until a write is short they are the file's,
\* in order, and what a short write repeats and leaves out stays within the bytes
\* of one read: no byte comes early, and none as late as BUFSIZE bytes.
Copied ==
    /\ mpc = "done" => Len(out) = Length
    /\ ~short => \A j \in 1 .. Len(out) : out[j] = j
    /\ \A j \in 1 .. Len(out) : out[j] <= j /\ j < out[j] + BUFSIZE

\* The copy is as long as the file, in order but for short writes, and never
\* ahead of the clock.
PacedCopy == Rate /\ Copied

\* The copy ends, or an alarm during exit ends the program.
Ends == <>~Running
=============================================================================
