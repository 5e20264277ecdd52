------------------------------- MODULE Daemon -------------------------------
(***************************************************************************)
(* The daemon that writes a number a second to a file: of process_basic,   *)
(* and of parallel/signal, whose handler closes the file and ends it.      *)
(***************************************************************************)
EXTENDS Integers, Sequences, Program

CONSTANTS
    MaxNumbers,   \* bound: numbers the daemon writes
    DaemonFails   \* may fork, open and fopen fail?

ASSUME DaemonAssumption == MaxNumbers \in Nat /\ DaemonFails \in BOOLEAN

VARIABLES
    forker,    \* what has become of the process that was started
    daemon,    \* where the daemon is
    fp,        \* the stream: not yet opened, open, or closed
    number_,   \* main's i
    infile,    \* the file's numbers
    unflushed  \* those in the stream's buffer

daemonVars == <<forker, daemon, fp, number_, infile, unflushed>>

DaemonTypeOK ==
    /\ forker \in {"begin", "handles", "forked", "exited", "killed", "crashed", "failed"}
    /\ daemon \in {"none", "begin", "fopen", "print", "printing", "flush", "flushing", "sleep",
                   "killed", "crashed", "failed", "closed", "closed_in_flush", "undefined"}
    /\ fp \in {"NULL", "open", "closed"}
    /\ number_ \in 0 .. MaxNumbers
    /\ infile \in Seq(Nat) /\ unflushed \in Seq(Nat)

DaemonInit ==
    /\ forker = "begin" /\ daemon = "none"
    /\ fp = "NULL" /\ number_ = 0
    /\ infile = <<>> /\ unflushed = <<>>

\* sigaction for the three signals, each of which keeps off the others.
SetHandlers ==
    /\ forker = "begin"
    /\ forker' = "handles"
    /\ UNCHANGED <<daemon, fp, number_, infile, unflushed>>

\* daemonize: fork, and exit(0) of the parent.
Daemonize ==
    /\ forker = "handles"
    /\ \/ forker' = "forked" /\ daemon' = "begin"
       \/ DaemonFails /\ forker' = "failed" /\ UNCHANGED daemon
    /\ UNCHANGED <<fp, number_, infile, unflushed>>

ForkerExits ==
    /\ forker = "forked"
    /\ forker' = "exited"
    /\ UNCHANGED <<daemon, fp, number_, infile, unflushed>>

DaemonIs(l) == daemon' = l /\ UNCHANGED <<forker, number_, infile, unflushed>>

\* /dev/null in place of its descriptors, and setsid.
Detach ==
    /\ daemon = "begin"
    /\ \/ DaemonIs("fopen")
       \/ DaemonFails /\ DaemonIs("failed")
    /\ UNCHANGED fp

\* fopen(FNAME, "w"), which empties the file.
OpenLog ==
    /\ daemon = "fopen"
    /\ \/ DaemonIs("print") /\ fp' = "open"
       \/ DaemonFails /\ DaemonIs("failed") /\ UNCHANGED fp

\* fprintf, within which the stream is in no state to be closed.
PrintNumber ==
    /\ daemon = "print"
    /\ number_ < MaxNumbers
    /\ DaemonIs("printing")
    /\ UNCHANGED fp

NumberPrinted ==
    /\ daemon = "printing"
    /\ daemon' = "flush"
    /\ unflushed' = Append(unflushed, number_)
    /\ UNCHANGED <<forker, fp, number_, infile>>

\* fflush writes the buffer, and then notes that it is written.
FlushNumber ==
    /\ daemon = "flush"
    /\ daemon' = "flushing"
    /\ infile' = infile \o unflushed
    /\ UNCHANGED <<forker, fp, number_, unflushed>>

NumberFlushed ==
    /\ daemon = "flushing"
    /\ daemon' = "sleep"
    /\ unflushed' = <<>>
    /\ UNCHANGED <<forker, fp, number_, infile>>

\* sleep(1), which any signal would end with the program; i++.
SleepASecond ==
    /\ daemon = "sleep"
    /\ daemon' = "print"
    /\ number_' = number_ + 1
    /\ UNCHANGED <<forker, fp, infile, unflushed>>

\* A signal to the process that was started: before its handlers are set, or in
\* process_basic, it kills; the handler closes a stream that is not open yet.
SignalForker ==
    /\ forker \in {"begin", "handles", "forked"}
    /\ forker' = IF program = "daemon" \/ forker = "begin" THEN "killed" ELSE "crashed"
    /\ UNCHANGED <<daemon, fp, number_, infile, unflushed>>

Living == {"begin", "fopen", "print", "printing", "flush", "flushing", "sleep"}

SignalKills ==
    /\ program = "daemon"
    /\ daemon \in Living
    /\ DaemonIs("killed")
    /\ UNCHANGED fp

\* Mutant of DaemonExit: _exit, which leaves the stream's buffer unwritten.
DaemonExitNow ==
    /\ program = "mydaemon"
    /\ daemon \in Living
    /\ daemon' = CASE fp = "NULL" -> "crashed"
                   [] daemon = "printing" -> "undefined"
                   [] daemon = "flushing" -> "closed_in_flush"
                   [] OTHER -> "closed"
    /\ fp' = IF fp = "open" THEN "closed" ELSE fp
    /\ unflushed' = <<>>
    /\ UNCHANGED <<forker, number_, infile>>
\* daemon_exit: fclose, closelog, and exit(0).  fclose writes what the buffer holds,
\* also when an fflush that it interrupts has just written it.
DaemonExit ==
    /\ program = "mydaemon"
    /\ daemon \in Living
    /\ daemon' = CASE fp = "NULL" -> "crashed"
                   [] daemon = "printing" -> "undefined"
                   [] daemon = "flushing" -> "closed_in_flush"
                   [] OTHER -> "closed"
    /\ fp' = IF fp = "open" THEN "closed" ELSE fp
    /\ infile' = IF daemon = "printing" THEN infile ELSE infile \o unflushed
    /\ unflushed' = <<>>
    /\ UNCHANGED <<forker, number_>>

DaemonStep ==
    \/ Detach \/ OpenLog \/ PrintNumber \/ NumberPrinted \/ FlushNumber
    \/ NumberFlushed \/ SleepASecond

DaemonNext ==
    \/ SetHandlers \/ Daemonize \/ ForkerExits \/ DaemonStep
    \/ SignalForker \/ SignalKills \/ DaemonExit

-----------------------------------------------------------------------------
(* Properties *)

\* The file holds the numbers from 0 on, none missing and none twice, and when a
\* signal ends the daemon as many as it got to (signal/daemon/mydaemon.c:51-66).
\* The exceptions are a signal within fprintf, whose effect is undefined, and one
\* within fflush, after which the last number, and no other, may stand there twice.
NumbersInOrder ==
    /\ DaemonTypeOK
    /\ daemon # "closed_in_flush" => infile = [k \in 1 .. Len(infile) |-> k - 1]
    /\ daemon = "closed_in_flush" =>
          infile = [k \in 1 .. number_ + 2 |-> IF k = number_ + 2 THEN number_ ELSE k - 1]
    /\ daemon = "closed" => Len(infile) \in {number_, number_ + 1}
    /\ daemon = "sleep" => Len(infile) = number_ + 1 /\ fp = "open"
=============================================================================
