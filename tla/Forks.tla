-------------------------------- MODULE Forks --------------------------------
(***************************************************************************)
(* A parent and its one child: few.c, fork1.c, system1.c, mysu.c and sh.c  *)
(* of process_basic, which fork and mostly exec, and shm.c and shmem.c,    *)
(* which share memory.  What has been printed may still be in the stream's *)
(* buffer when fork copies it, when exec drops it and when exit writes it. *)
(***************************************************************************)
EXTENDS Integers, Sequences, Program

CONSTANTS
    Commands,    \* the lines that sh reads before the end of its input
    ForksFail    \* may fork, exec and shmat fail?

ASSUME ForksAssumption == Commands \in Nat /\ ForksFail \in BOOLEAN

VARIABLES
    terminal,  \* the output is a terminal: a line is written at its end
    parent,    \* where each of the two is
    kid,
    unwritten, \* what each has in its buffer
    written,   \* what has been written, by whom and of which round
    round,     \* the commands sh has read
    memory     \* the shared memory: what was there, or the child's greeting

forkVars == <<terminal, parent, kid, unwritten, written, round, memory>>

Executes == program \in {"few", "system1", "mysu", "sh"}
Shares   == program \in {"shm", "shmem"}

Parent == "parent"
Kid    == "kid"

\* What the programs print: the greetings, a prompt, a command's output, what
\* was in the shared memory.
Printable == {"begin", "end", "kid_end", "prompt", "output", "old", "hello"}

\* What is printed, and in which round.
PrintedLine == Printable \X Nat

ForksTypeOK ==
    /\ terminal \in BOOLEAN
    /\ parent \in {"begin", "flush", "fork", "wait", "print", "exit", "gone", "failed"}
    /\ kid \in {"none", "running", "exec", "printing", "exit", "wait", "ended", "failed"}
    /\ unwritten \in [{Parent, Kid} -> Seq(PrintedLine)]
    /\ written \in Seq(PrintedLine)
    /\ round \in 0 .. Commands
    /\ memory \in {"old", "hello"}

ForksInit ==
    /\ terminal \in BOOLEAN
    /\ parent = IF program \in {"few", "fork1", "sh"} THEN "begin" ELSE "fork"
    /\ kid = "none"
    /\ unwritten = [w \in {Parent, Kid} |-> <<>>]
    /\ written = <<>>
    /\ round = 0
    /\ memory = "old"

\* A line printed by w.
Puts(w, text) ==
    IF terminal
    THEN /\ written' = written \o unwritten[w] \o <<<<text, round>>>>
         /\ unwritten' = [unwritten EXCEPT ![w] = <<>>]
    ELSE /\ unwritten' = [unwritten EXCEPT ![w] = Append(@, <<text, round>>)]
         /\ UNCHANGED written

\* fflush, and exit.
Flush(w) ==
    /\ written' = written \o unwritten[w]
    /\ unwritten' = [unwritten EXCEPT ![w] = <<>>]

\* "Begin!"
Begin ==
    /\ parent = "begin" /\ program # "sh"
    /\ Puts(Parent, "begin")
    /\ parent' = "flush"
    /\ UNCHANGED <<terminal, kid, round, memory>>

\* sh: the prompt has no end of line; getline has it written on a terminal only.
Prompt ==
    /\ parent = "begin" /\ program = "sh"
    /\ LET prompts == Append(unwritten[Parent], <<"prompt", round>>) IN
          /\ written' = IF terminal THEN written \o prompts ELSE written
          /\ unwritten' = [unwritten EXCEPT ![Parent] = IF terminal THEN <<>> ELSE prompts]
    /\ IF round < Commands THEN round' = round + 1 /\ parent' = "fork"
                           ELSE parent' = "exit" /\ UNCHANGED round
    /\ UNCHANGED <<terminal, kid, memory>>

\* Mutant of FlushFirst: the buffer is not flushed before fork.
FlushFirstNot ==
    /\ parent = "flush"
    /\ parent' = "fork"
    /\ UNCHANGED <<terminal, kid, unwritten, written, round, memory>>
\* fflush(NULL), "before exec and fork".
FlushFirst ==
    /\ parent = "flush"
    /\ Flush(Parent)
    /\ parent' = "fork"
    /\ UNCHANGED <<terminal, kid, round, memory>>

ForkKid ==
    /\ parent = "fork"
    /\ kid' = IF Executes THEN "exec" ELSE "running"
    /\ unwritten' = [unwritten EXCEPT ![Kid] = unwritten[Parent]]
    /\ parent' = IF program = "fork1" THEN "print" ELSE "wait"
    /\ UNCHANGED <<terminal, written, round, memory>>

\* exit(1).
ForkKidFails ==
    /\ ForksFail
    /\ parent = "fork"
    /\ Flush(Parent)
    /\ parent' = "failed"
    /\ UNCHANGED <<terminal, kid, round, memory>>

\* wait(NULL) takes the child, however it has ended.
WaitKid ==
    /\ parent = "wait"
    /\ kid \in {"ended", "failed"}
    /\ kid' = IF program = "sh" THEN "none" ELSE kid
    /\ parent' = CASE program = "sh" -> "begin"
                   [] program = "few" \/ Shares -> "print"
                   [] OTHER -> "exit"
    /\ UNCHANGED <<terminal, unwritten, written, round, memory>>

\* "End!", or what the shared memory says; shm's shmat may fail.
ParentPrints ==
    /\ parent = "print"
    /\ Puts(Parent, IF Shares THEN memory ELSE "end")
    /\ parent' = "exit"
    /\ UNCHANGED <<terminal, kid, round, memory>>

ParentNoMemory ==
    /\ ForksFail /\ program = "shm"
    /\ parent = "print"
    /\ parent' = "failed"
    /\ UNCHANGED <<terminal, kid, unwritten, written, round, memory>>

ParentExits ==
    /\ parent = "exit"
    /\ Flush(Parent)
    /\ parent' = "gone"
    /\ UNCHANGED <<terminal, kid, round, memory>>

KidIs(l) == kid' = l /\ UNCHANGED <<terminal, parent, round, memory>>

\* The new program has none of the old one's buffers; it prints its own.
Exec ==
    /\ kid = "exec"
    /\ unwritten' = [unwritten EXCEPT ![Kid] = <<>>]
    /\ KidIs("printing")
    /\ UNCHANGED written

\* exit(1), which writes the child's copy of the buffer; mysu goes on to the
\* parent's wait, which fails for want of children, and returns from main.
ExecFails ==
    /\ ForksFail
    /\ kid = "exec"
    /\ IF program = "mysu" THEN KidIs("wait") /\ UNCHANGED <<unwritten, written>>
                           ELSE KidIs("failed") /\ Flush(Kid)

KidWaits ==
    /\ kid = "wait"
    /\ Flush(Kid)
    /\ KidIs("ended")

\* date, or the command.
KidPrints ==
    /\ kid = "printing"
    /\ written' = Append(written, <<"output", round>>)
    /\ UNCHANGED unwritten
    /\ KidIs("ended")

\* The child of fork1 prints its own "End!".
KidWorks ==
    /\ kid = "running" /\ program = "fork1"
    /\ Puts(Kid, "kid_end")
    /\ KidIs("exit")

KidExits ==
    /\ kid = "exit"
    /\ Flush(Kid)
    /\ KidIs("ended")

\* strcpy into the shared memory, and exit.
KidWrites ==
    /\ kid = "running" /\ Shares
    /\ memory' = "hello"
    /\ kid' = "ended"
    /\ UNCHANGED <<terminal, parent, unwritten, written, round>>

KidNoMemory ==
    /\ ForksFail /\ program = "shm"
    /\ kid = "running"
    /\ KidIs("failed")
    /\ UNCHANGED <<unwritten, written>>

ForkParent ==
    \/ Begin \/ Prompt \/ FlushFirst \/ ForkKid \/ ForkKidFails \/ WaitKid
    \/ ParentPrints \/ ParentNoMemory \/ ParentExits

ForkKidStep ==
    \/ Exec \/ ExecFails \/ KidWaits \/ KidPrints \/ KidWorks \/ KidExits
    \/ KidWrites \/ KidNoMemory

ForksNext == ForkParent \/ ForkKidStep

-----------------------------------------------------------------------------
(* Properties *)

Before(x, y) == \A j, k \in DOMAIN written : written[j][1] = x /\ written[k][1] = y => j < k

\* Nothing is printed twice (few.c:15, fork1.c:12: the buffer is flushed before
\* fork) but the prompt of a shell that does not write to a terminal and cannot
\* exec; the output comes after what was printed before fork and before what is
\* printed after wait; a shell's commands print in turn; and the parent finds in
\* the shared memory what a child that did not fail has put there.
PrintedInOrder ==
    /\ ForksTypeOK
    /\ program # "sh" \/ terminal =>
          \A j, k \in DOMAIN written : written[j] = written[k] => j = k
    /\ Before("begin", "output") /\ Before("output", "end") /\ Before("begin", "kid_end")
    /\ program # "sh" \/ terminal =>
          \A j, k \in DOMAIN written : j < k => written[j][2] <= written[k][2]
    /\ Shares /\ kid = "ended" => \A k \in DOMAIN written : written[k][1] # "old"
=============================================================================
