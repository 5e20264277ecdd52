------------------------------- MODULE Copies -------------------------------
(***************************************************************************)
(* The programs that copy one file: slowcat.c and slowcat1.c of            *)
(* parallel/signal, at the pace of an alarm; mycopy.c there and in         *)
(* io/sysio (the one of parallel/signal tries again what a signal          *)
(* interrupts, which is no step); mycop.c of io/stdio, a character at a    *)
(* time; and webdl.c, which reads a connection.                            *)
(***************************************************************************)
EXTENDS Integers, Sequences, Program

CONSTANTS
    FileLength,     \* the source's bytes, which are 1, 2, .. FileLength
    CopySize,       \* BUFSIZE
    TokenBurst,     \* BURST of slowcat1
    CopyFails       \* may calls fail?  Bound: read does once

ASSUME CopiesAssumption ==
    /\ FileLength \in Nat
    /\ CopySize \in Nat \ {0} /\ TokenBurst \in Nat \ {0}
    /\ CopyFails \in BOOLEAN

VARIABLES
    cat,       \* where the program is
    permits,   \* loop of slowcat, token of slowcat1
    loaded,    \* the token that slowcat1 has loaded and will store less one
    saved,     \* history: what permits would be if nothing fell between two steps
    coffset,   \* bytes read so far
    cbuf,      \* those not yet written, from the buffer's start
    output,    \* what has been written; of the streams, what is not lost
    cshort,    \* history: a write took fewer bytes than it was given
    readError, \* history: a read has failed
    writeError \* history: a stream could not write, and nobody asked

copyVars == <<cat, permits, loaded, saved, coffset, cbuf, output, cshort, readError, writeError>>

Paced  == program \in {"slowcat", "slowcat1"}
Stdio  == program \in {"mycop", "webdl"}
Burst  == IF program = "slowcat" THEN 1 ELSE TokenBurst

CopyTypeOK ==
    /\ cat \in {"open", "test", "pause", "take", "store", "read", "write", "done", "failed"}
    /\ permits \in 0 .. TokenBurst /\ loaded \in 0 .. TokenBurst /\ saved \in 0 .. TokenBurst
    /\ coffset \in 0 .. FileLength
    /\ cbuf \in Seq(1 .. FileLength) /\ output \in Seq(1 .. FileLength)
    /\ cshort \in BOOLEAN /\ readError \in BOOLEAN /\ writeError \in BOOLEAN

CopyInit ==
    /\ cat = "open"
    /\ permits = 0 /\ loaded = 0 /\ saved = 0
    /\ coffset = 0 /\ cbuf = <<>> /\ output = <<>>
    /\ cshort = FALSE /\ readError = FALSE /\ writeError = FALSE

\* Where the loop begins again.
Again == IF Paced THEN "test" ELSE "read"

CopyGoto(l) == cat' = l /\ UNCHANGED <<coffset, cbuf, output, cshort, readError, writeError>>

\* exit(1) unless both files can be opened, or the connection made.
OpenFiles ==
    /\ cat = "open"
    /\ \/ CopyGoto(Again)
       \/ CopyFails /\ CopyGoto("failed")
    /\ UNCHANGED <<permits, loaded, saved>>

Capped(k) == IF k > Burst THEN Burst ELSE k

\* Mutant of OnAlarm: the token is capped before it is counted up.
OnAlarmOver ==
    /\ Paced /\ cat \notin {"done", "failed"}
    /\ permits' = IF program = "slowcat" THEN 1
                  ELSE IF permits > TokenBurst THEN TokenBurst ELSE permits + 1
    /\ saved' = Capped(saved + 1)
    /\ CopyGoto(IF cat = "pause" THEN "test" ELSE cat)
    /\ UNCHANGED loaded
\* alrm_handler: it ends a pause, and a write goes on after it.
OnAlarm ==
    /\ Paced /\ cat \notin {"done", "failed"}
    /\ permits' = Capped(permits + 1)
    /\ saved' = Capped(saved + 1)
    /\ CopyGoto(IF cat = "pause" THEN "test" ELSE cat)
    /\ UNCHANGED loaded

\* A signal that falls before the pause does not end it.
TestPermit ==
    /\ cat = "test"
    /\ CopyGoto(IF permits = 0 THEN "pause" ELSE "take")
    /\ UNCHANGED <<permits, loaded, saved>>

\* loop = 0, or the load of token --.
TakePermit ==
    /\ cat = "take"
    /\ IF program = "slowcat"
       THEN /\ permits' = 0 /\ saved' = saved - 1
            /\ CopyGoto("read") /\ UNCHANGED loaded
       ELSE loaded' = permits /\ CopyGoto("store") /\ UNCHANGED <<permits, saved>>

\* The store of token --: a tick since the load is lost.
StorePermit ==
    /\ cat = "store"
    /\ permits' = loaded - 1 /\ saved' = saved - 1
    /\ CopyGoto("read")
    /\ UNCHANGED loaded

\* Up to CopySize bytes, 0 at the end; fread fills the buffer, fgetc takes one.
\* webdl looks for the end in another variable, which is never 0.
ReadPiece ==
    /\ cat = "read"
    /\ \E k \in 0 .. CopySize :
          /\ coffset + k <= FileLength
          /\ k = 0 => coffset = FileLength
          /\ program = "mycop" => k <= 1
          /\ program = "webdl" => k = CopySize \/ coffset + k = FileLength
          /\ coffset' = coffset + k
          /\ cbuf' = [j \in 1 .. k |-> coffset + j]
          /\ cat' = IF k > 0 THEN "write" ELSE IF program = "webdl" THEN "read" ELSE "done"
    /\ UNCHANGED <<permits, loaded, saved, output, cshort, readError, writeError>>

\* mycopy and mycop end, with success; slowcat leaves the inner loop and waits
\* for the next alarm; webdl takes what fread returns.
ReadPieceFails ==
    /\ CopyFails /\ ~readError
    /\ cat = "read"
    /\ readError' = TRUE
    /\ cat' = IF program \in {"mycopy", "sysio_mycopy", "mycop"} THEN "done" ELSE Again
    /\ UNCHANGED <<permits, loaded, saved, coffset, cbuf, output, cshort, writeError>>

\* write is given the buffer's start each time; streams take all they are given.
WritePiece ==
    /\ cat = "write"
    /\ \E k \in 1 .. Len(cbuf) :
          /\ Stdio => k = Len(cbuf)
          /\ output' = output \o SubSeq(cbuf, 1, k)
          /\ cbuf' = SubSeq(cbuf, 1, Len(cbuf) - k)
          /\ cshort' = (cshort \/ k < Len(cbuf))
          /\ cat' = IF k = Len(cbuf) THEN Again ELSE "write"
    /\ UNCHANGED <<permits, loaded, saved, coffset, readError, writeError>>

\* exit(1).
WritePieceFails ==
    /\ CopyFails /\ ~Stdio
    /\ cat = "write"
    /\ CopyGoto("failed")
    /\ UNCHANGED <<permits, loaded, saved>>

\* Nobody asks what fputc, fwrite and fclose return: some of the bytes are dropped,
\* and the program goes on.
WriteIgnored ==
    /\ CopyFails /\ Stdio
    /\ cat = "write"
    /\ \E k \in 0 .. Len(cbuf) - 1 : output' = output \o SubSeq(cbuf, 1, k)
    /\ cbuf' = <<>>
    /\ writeError' = TRUE
    /\ cat' = Again
    /\ UNCHANGED <<permits, loaded, saved, coffset, cshort, readError>>

CopyStep ==
    \/ OpenFiles \/ TestPermit \/ TakePermit \/ StorePermit
    \/ ReadPiece \/ ReadPieceFails \/ WritePiece \/ WritePieceFails \/ WriteIgnored

CopyNext == CopyStep \/ OnAlarm

-----------------------------------------------------------------------------
(* Properties *)

\* The paced programs never have a permit that no alarm has brought, nor more of
\* them than fit (slowcat.c:66-69, slowcat1.c:28-30, 63-66), wherever the alarm
\* falls.  Whoever says that the copy is done has written as many bytes as the
\* source has, unless a read failed that the program does not try again or a
\* stream's write that it does not look at; and they are the source's, in order,
\* as long as no write was short or failed.  What a short write spoils stays within
\* its piece, and what a stream keeps it keeps in order.
CopyIsRight ==
    /\ CopyTypeOK
    /\ permits <= saved
    /\ cat = "done" => Len(output) = FileLength \/ (readError /\ ~Paced) \/ writeError
    /\ ~cshort /\ ~writeError => output \o cbuf = [j \in 1 .. coffset |-> j]
    /\ ~writeError => \A j \in 1 .. Len(output) : output[j] <= j /\ j < output[j] + CopySize
    /\ Stdio => \A j, k \in 1 .. Len(output) : j < k => output[j] < output[k]
=============================================================================
