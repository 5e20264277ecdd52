------------------------------ MODULE RelayFsm ------------------------------
(***************************************************************************)
(* The state machine that carries bytes from one descriptor to another:    *)
(* fsm_driver of io/adv/nonblock/relay.c, which select/relay.c,            *)
(* poll/relay.c, epoll/relay.c and relayer.c share, and the two descriptors*)
(* it reads and writes.                                                    *)
(*                                                                         *)
(* A machine is the pair <<sfd, dfd>>.  The bytes that arrive at a         *)
(* descriptor are 1, 2, 3, ...: their order is all that matters.           *)
(***************************************************************************)
EXTENDS Integers, Sequences

CONSTANTS
    Fds,
    Machines,   \* the machines: pairs of descriptors
    Length,     \* bound of the model: bytes that arrive at each descriptor
    BUFSIZE,
    Breaks,     \* the descriptors that may fail
    Fills       \* those whose writes may be refused for want of room

ASSUME FsmAssumption ==
    /\ Machines \subseteq Fds \X Fds
    /\ Length \in [Fds -> Nat]
    /\ BUFSIZE \in Nat \ {0}
    /\ Breaks \subseteq Fds /\ Fills \subseteq Fds

VARIABLES
    fsm,      \* state, buf, len and pos of each machine
    arrived,  \* bytes that have arrived at each descriptor
    taken,    \* bytes read from it
    eof,      \* no more will arrive: read returns 0 after the last
    room,     \* a write is not refused with EAGAIN
    broken,   \* read and write fail with some other error (a hang-up)
    out       \* what has been written to it

files   == <<arrived, taken, eof, room, broken, out>>
fsmVars == <<fsm, files>>

sfd(m) == m[1]
dfd(m) == m[2]

Fsm == [state : {"R", "W", "Ex", "T"}, buf : Seq(Nat),
        len : -1 .. BUFSIZE, pos : 0 .. BUFSIZE]

TypeOKFsm ==
    /\ fsm \in [Machines -> Fsm]
    /\ arrived \in [Fds -> Nat]
    /\ taken \in [Fds -> Nat]
    /\ eof \in [Fds -> BOOLEAN]
    /\ room \in [Fds -> BOOLEAN]
    /\ broken \in [Fds -> BOOLEAN]
    /\ out \in [Fds -> Seq(Nat)]

StartFsm == [state |-> "R", buf |-> <<>>, len |-> 0, pos |-> 0]

InitFiles ==
    /\ arrived = [f \in Fds |-> 0]
    /\ taken = [f \in Fds |-> 0]
    /\ eof = [f \in Fds |-> FALSE]
    /\ room = [f \in Fds |-> TRUE]
    /\ broken = [f \in Fds |-> FALSE]
    /\ out = [f \in Fds |-> <<>>]

Waiting(f)  == arrived[f] - taken[f]
Readable(f) == Waiting(f) > 0 \/ eof[f] \/ broken[f]
Writable(f) == room[f] \/ broken[f]

-----------------------------------------------------------------------------
(* fsm_driver, one disjunct for each outcome of each state.                  *)

ReadSome(m) ==
    /\ fsm[m].state = "R"
    /\ ~broken[sfd(m)]
    /\ \E k \in 1 .. BUFSIZE :
          /\ k <= Waiting(sfd(m))
          /\ fsm' = [fsm EXCEPT ![m] =
                [state |-> "W", len |-> k, pos |-> 0,
                 buf |-> [i \in 1 .. k |-> taken[sfd(m)] + i]]]
          /\ taken' = [taken EXCEPT ![sfd(m)] = @ + k]
    /\ UNCHANGED <<arrived, eof, room, broken, out>>

\* Mutant of ReadEnd: nothing to read is taken for the end of the file.
ReadEndNow(m) ==
    /\ fsm[m].state = "R"
    /\ ~broken[sfd(m)]
    /\ Waiting(sfd(m)) = 0
    /\ fsm' = [fsm EXCEPT ![m].len = 0, ![m].state = "T"]
    /\ UNCHANGED files
\* Mutant of ReadEnd: 0 is no reason to stop.
ReadEndNot(m) ==
    /\ fsm[m].state = "R"
    /\ ~broken[sfd(m)]
    /\ Waiting(sfd(m)) = 0
    /\ eof[sfd(m)]
    /\ fsm' = [fsm EXCEPT ![m].len = 0]
    /\ UNCHANGED files
ReadEnd(m) ==
    /\ fsm[m].state = "R"
    /\ ~broken[sfd(m)]
    /\ Waiting(sfd(m)) = 0
    /\ eof[sfd(m)]
    /\ fsm' = [fsm EXCEPT ![m].len = 0, ![m].state = "T"]
    /\ UNCHANGED files

ReadAgain(m) ==
    /\ fsm[m].state = "R"
    /\ ~Readable(sfd(m))
    /\ fsm' = [fsm EXCEPT ![m].len = -1]
    /\ UNCHANGED files

ReadFails(m) ==
    /\ fsm[m].state = "R"
    /\ broken[sfd(m)]
    /\ fsm' = [fsm EXCEPT ![m].len = -1, ![m].state = "Ex"]
    /\ UNCHANGED files

\* Mutant of WriteSome: every write starts at the head of the buffer.
WriteHead(m) ==
    /\ fsm[m].state = "W"
    /\ ~broken[dfd(m)] /\ room[dfd(m)]
    /\ \E k \in 1 .. fsm[m].len :
          /\ out' = [out EXCEPT ![dfd(m)] = @ \o SubSeq(fsm[m].buf, 1, k)]
          /\ fsm' = [fsm EXCEPT ![m].pos = @ + k, ![m].len = @ - k,
                                ![m].state = IF k = fsm[m].len THEN "R" ELSE "W"]
    /\ UNCHANGED <<arrived, taken, eof, room, broken>>
WriteSome(m) ==
    /\ fsm[m].state = "W"
    /\ ~broken[dfd(m)] /\ room[dfd(m)]
    /\ \E k \in 1 .. fsm[m].len :
          /\ out' = [out EXCEPT ![dfd(m)] =
                        @ \o SubSeq(fsm[m].buf, fsm[m].pos + 1, fsm[m].pos + k)]
          /\ fsm' = [fsm EXCEPT ![m].pos = @ + k, ![m].len = @ - k,
                                ![m].state = IF k = fsm[m].len THEN "R" ELSE "W"]
    /\ UNCHANGED <<arrived, taken, eof, room, broken>>

WriteAgain(m) ==
    /\ fsm[m].state = "W"
    /\ ~Writable(dfd(m))
    /\ UNCHANGED fsmVars

WriteFails(m) ==
    /\ fsm[m].state = "W"
    /\ broken[dfd(m)]
    /\ fsm' = [fsm EXCEPT ![m].state = "Ex"]
    /\ UNCHANGED files

Report(m) ==
    /\ fsm[m].state = "Ex"
    /\ fsm' = [fsm EXCEPT ![m].state = "T"]
    /\ UNCHANGED files

Rest(m) ==
    /\ fsm[m].state = "T"
    /\ UNCHANGED fsmVars

fsm_driver(m) ==
    \/ ReadSome(m) \/ ReadEnd(m) \/ ReadAgain(m) \/ ReadFails(m)
    \/ WriteSome(m) \/ WriteAgain(m) \/ WriteFails(m)
    \/ Report(m) \/ Rest(m)

-----------------------------------------------------------------------------
(* The other ends of the descriptors *)

Arrive(f) ==
    /\ ~eof[f]
    /\ arrived[f] < Length[f]
    /\ arrived' = [arrived EXCEPT ![f] = @ + 1]
    /\ UNCHANGED <<fsm, taken, eof, room, broken, out>>

End(f) ==
    /\ ~eof[f]
    /\ eof' = [eof EXCEPT ![f] = TRUE]
    /\ UNCHANGED <<fsm, arrived, taken, room, broken, out>>

\* The reader of the output falls behind, or catches up.
Fill(f) ==
    /\ f \in Fills
    /\ room' = [room EXCEPT ![f] = ~@]
    /\ UNCHANGED <<fsm, arrived, taken, eof, broken, out>>

Break(f) ==
    /\ f \in Breaks
    /\ ~broken[f]
    /\ broken' = [broken EXCEPT ![f] = TRUE]
    /\ UNCHANGED <<fsm, arrived, taken, eof, room, out>>

World == \E f \in Fds : Arrive(f) \/ End(f) \/ Fill(f) \/ Break(f)

-----------------------------------------------------------------------------
(* Properties of the machines *)

Pending(m) == IF fsm[m].len > 0 THEN SubSeq(fsm[m].buf, fsm[m].pos + 1,
                                            fsm[m].pos + fsm[m].len)
                                ELSE <<>>

\* Nothing is lost, repeated or put out of order, however reads and writes are
\* cut short or refused: what the other side has received and what the buffer
\* still holds are the bytes read (lines 39-73).
InOrder ==
    \A m \in Machines :
        out[dfd(m)] \o Pending(m) = [i \in 1 .. taken[sfd(m)] |-> i]

\* A machine stops only at the end of its input with everything delivered, or
\* because a descriptor has failed: EAGAIN stops none.
StopsForAReason ==
    \A m \in Machines :
        fsm[m].state = "T" =>
            \/ eof[sfd(m)] /\ Len(out[dfd(m)]) = arrived[sfd(m)]
            \/ broken[sfd(m)] \/ broken[dfd(m)]
=============================================================================
