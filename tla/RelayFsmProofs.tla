--------------------------- MODULE RelayFsmProofs ---------------------------
(***************************************************************************)
(* The state machine of the relays keeps the order of the bytes and stops  *)
(* for a reason, whoever drives it and whatever the descriptors do: for    *)
(* any descriptors, machines, buffer size and bytes.                       *)
(***************************************************************************)
EXTENDS RelayFsm, SequenceTheorems, TLAPS

\* No two machines read from or write to the same descriptor.
OneEach == \A m, n \in Machines : m # n => sfd(m) # sfd(n) /\ dfd(m) # dfd(n)

UpTo(k) == [j \in 1 .. k |-> j]

\* The buffer holds what was read and not written, at pos, and nothing before
\* the next read.
BufferInv ==
    \A m \in Machines :
        /\ fsm[m].state = "R" => fsm[m].len <= 0
        /\ fsm[m].state = "W" => fsm[m].len > 0
        /\ fsm[m].len > 0 => fsm[m].pos + fsm[m].len = Len(fsm[m].buf)
        /\ Len(fsm[m].buf) <= BUFSIZE

OrderInv == \A m \in Machines : out[dfd(m)] \o Pending(m) = UpTo(taken[sfd(m)])

StopInv ==
    \A m \in Machines :
        /\ fsm[m].state = "Ex" => broken[sfd(m)] \/ broken[dfd(m)]
        /\ fsm[m].state = "T" =>
              \/ eof[sfd(m)] /\ Len(out[dfd(m)]) = arrived[sfd(m)]
              \/ broken[sfd(m)] \/ broken[dfd(m)]

FsmInv ==
    /\ TypeOKFsm
    /\ \A f \in Fds : taken[f] <= arrived[f]
    /\ BufferInv /\ OrderInv /\ StopInv

\* The bytes from the first one on, and the next k of them.
LEMMA NextUpTo ==
    ASSUME NEW k \in Nat, NEW off \in Nat
    PROVE  /\ UpTo(off) \in Seq(Nat) /\ Len(UpTo(off)) = off
           /\ [j \in 1 .. k |-> off + j] \in Seq(Nat) /\ Len([j \in 1 .. k |-> off + j]) = k
           /\ UpTo(off) \o [j \in 1 .. k |-> off + j] = UpTo(off + k)
<1> DEFINE piece == [j \in 1 .. k |-> off + j]
           done  == [j \in 1 .. off |-> j]
           all   == [j \in 1 .. off + k |-> j]
<1>1. piece \in Seq(Nat) /\ Len(piece) = k /\ done \in Seq(Nat) /\ Len(done) = off
  OBVIOUS
<1>2. done \o piece \in Seq(Nat) /\ Len(done \o piece) = off + k
  BY <1>1
<1>3. ASSUME NEW j \in 1 .. off + k PROVE (done \o piece)[j] = j
  <2>1. CASE j \in 1 .. off
    <3>1. (done \o piece)[j] = done[j]
      BY <1>1, <2>1
    <3> QED BY <2>1, <3>1
  <2>2. CASE j \in off + 1 .. off + k
    <3>1. (done \o piece)[j] = piece[j - off]
      BY <1>1, <2>2
    <3> QED BY <2>2, <3>1
  <2> QED BY <2>1, <2>2
<1>4. all \in Seq(Nat) /\ Len(all) = off + k /\ \A j \in 1 .. off + k : all[j] = j
  OBVIOUS
<1> HIDE DEF piece, all, done
<1>5. done \o piece = all
  BY <1>2, <1>3, <1>4, SeqEqual
<1> QED BY <1>1, <1>5 DEF piece, done, all, UpTo

LEMMA Associate ==
    ASSUME NEW s \in Seq(Nat), NEW t \in Seq(Nat), NEW u \in Seq(Nat)
    PROVE  (s \o t) \o u = s \o (t \o u)
<1> DEFINE left  == (s \o t) \o u
           right == s \o (t \o u)
<1>1. /\ left \in Seq(Nat) /\ Len(left) = Len(s) + Len(t) + Len(u)
      /\ right \in Seq(Nat) /\ Len(right) = Len(s) + Len(t) + Len(u)
  OBVIOUS
<1>2. \A j \in 1 .. Len(left) : left[j] = right[j]
  BY <1>1, SMTT(60)
<1> HIDE DEF left, right
<1>3. left = right
  BY <1>1, <1>2, SeqEqual
<1> QED BY <1>3 DEF left, right

\* What is written, and then what is left to write, is what was to be written.
LEMMA PendingSplits ==
    ASSUME NEW s \in Seq(Nat), NEW buf \in Seq(Nat), NEW at \in Nat, NEW len \in Nat,
           at + len = Len(buf), NEW k \in 1 .. len
    PROVE  /\ s \o SubSeq(buf, at + 1, at + k) \in Seq(Nat)
           /\ (s \o SubSeq(buf, at + 1, at + k)) \o SubSeq(buf, at + k + 1, at + len) =
                 s \o SubSeq(buf, at + 1, at + len)
<1> DEFINE first == SubSeq(buf, at + 1, at + k)
           rest  == SubSeq(buf, at + k + 1, at + len)
           all   == SubSeq(buf, at + 1, at + len)
<1>1. /\ at + 1 \in 1 .. Len(buf) + 1 /\ at + k \in (at + 1) - 1 .. Len(buf)
      /\ at + len \in at + k .. Len(buf)
  OBVIOUS
<1>2. first \o rest = all
  BY <1>1, ConcatAdjacentSubSeq
<1>3. /\ \A j \in at + 1 .. at + k : buf[j] \in Nat
      /\ \A j \in at + k + 1 .. at + len : buf[j] \in Nat
      /\ {at + 1, at + k, at + k + 1, at + len} \subseteq Int
  BY <1>1
<1>4. first \in Seq(Nat) /\ rest \in Seq(Nat)
  BY <1>3, SubSeqProperties
<1> HIDE DEF first, rest, all
<1>5. s \o first \in Seq(Nat)
  BY <1>4, ConcatProperties
<1>6. (s \o first) \o rest = s \o (first \o rest)
  BY <1>4, Associate
<1> QED BY <1>2, <1>5, <1>6 DEF first, rest, all

-----------------------------------------------------------------------------
(* The machines.  The steps that leave the buffer of machine m as it is.     *)

LEMMA StateOnly ==
    ASSUME FsmInv, NEW m \in Machines, UNCHANGED files,
           fsm' \in [Machines -> Fsm],
           \A p \in Machines : p # m => fsm'[p] = fsm[p],
           fsm'[m].buf = fsm[m].buf, fsm'[m].pos = fsm[m].pos,
           fsm'[m].len = fsm[m].len \/ (fsm'[m].len <= 0 /\ fsm[m].len <= 0),
           fsm'[m].state = "R" => fsm'[m].len <= 0,
           fsm'[m].state # "W",
           fsm'[m].state = "Ex" => broken[sfd(m)] \/ broken[dfd(m)],
           fsm'[m].state = "T" =>
              \/ eof[sfd(m)] /\ Len(out[dfd(m)]) = arrived[sfd(m)]
              \/ broken[sfd(m)] \/ broken[dfd(m)]
    PROVE  FsmInv'
<1>1. TypeOKFsm' /\ (\A f \in Fds : taken[f] <= arrived[f])'
  BY DEF FsmInv, TypeOKFsm, files
<1>2. BufferInv'
  <2>1. fsm[m].len \in Int /\ fsm'[m].len \in Int
    BY DEF FsmInv, TypeOKFsm, Fsm
  <2> QED BY <2>1 DEF FsmInv, BufferInv
<1>3. OrderInv'
  <2>1. fsm[m].len \in Int /\ fsm'[m].len \in Int
    BY DEF FsmInv, TypeOKFsm, Fsm
  <2>2. \A p \in Machines : Pending(p)' = Pending(p)
    BY <2>1 DEF Pending
  <2>3. out' = out /\ taken' = taken
    BY DEF files
  <2> QED BY <2>2, <2>3 DEF FsmInv, OrderInv
<1>4. StopInv'
  <2>1. eof' = eof /\ out' = out /\ arrived' = arrived /\ broken' = broken
    BY DEF files
  <2> QED BY <2>1 DEF FsmInv, StopInv
<1> QED BY <1>1, <1>2, <1>3, <1>4 DEF FsmInv

\* What a machine that waits to read has left to write, and what it has read.
LEMMA AllWritten ==
    ASSUME FsmInv, NEW m \in Machines, fsm[m].len <= 0
    PROVE  out[dfd(m)] = UpTo(taken[sfd(m)]) /\ Len(out[dfd(m)]) = taken[sfd(m)]
<1>1. Pending(m) = <<>>
  <2>1. fsm[m].len \in Int
    BY DEF FsmInv, TypeOKFsm, Fsm
  <2> QED BY <2>1 DEF Pending
<1>2. sfd(m) \in Fds /\ dfd(m) \in Fds
  BY FsmAssumption DEF sfd, dfd
<1>3. out[dfd(m)] \in Seq(Nat) /\ taken[sfd(m)] \in Nat
  BY <1>2 DEF FsmInv, TypeOKFsm
<1>4. out[dfd(m)] \o <<>> = UpTo(taken[sfd(m)])
  BY <1>1 DEF FsmInv, OrderInv
<1>5. out[dfd(m)] = UpTo(taken[sfd(m)])
  BY <1>3, <1>4
<1>6. Len(UpTo(taken[sfd(m)])) = taken[sfd(m)]
  BY <1>3, NextUpTo
<1> QED BY <1>5, <1>6

LEMMA ReadSomeKept ==
    ASSUME OneEach, FsmInv, NEW m \in Machines, ReadSome(m)
    PROVE  FsmInv'
<1>1. sfd(m) \in Fds /\ dfd(m) \in Fds
  BY FsmAssumption DEF sfd, dfd
<1>2. PICK k \in 1 .. BUFSIZE :
        /\ k <= Waiting(sfd(m))
        /\ fsm' = [fsm EXCEPT ![m] =
              [state |-> "W", len |-> k, pos |-> 0,
               buf |-> [j \in 1 .. k |-> taken[sfd(m)] + j]]]
        /\ taken' = [taken EXCEPT ![sfd(m)] = @ + k]
  BY DEF ReadSome
<1> DEFINE off   == taken[sfd(m)]
           piece == [j \in 1 .. k |-> off + j]
<1>3. off \in Nat /\ arrived[sfd(m)] \in Nat /\ BUFSIZE \in Nat /\ k \in Nat
  BY <1>1, FsmAssumption DEF FsmInv, TypeOKFsm
<1>4. piece \in Seq(Nat) /\ Len(piece) = k /\ UpTo(off) \o piece = UpTo(off + k)
  BY <1>3, NextUpTo
<1>5. off + k <= arrived[sfd(m)]
  BY <1>2, <1>3 DEF Waiting
<1>6. UNCHANGED <<arrived, eof, room, broken, out>>
  BY DEF ReadSome
<1> HIDE DEF piece
<1>7. fsm' = [fsm EXCEPT ![m] = [state |-> "W", len |-> k, pos |-> 0, buf |-> piece]]
  BY <1>2 DEF piece
<1>8. [state |-> "W", len |-> k, pos |-> 0, buf |-> piece] \in Fsm
  BY <1>2, <1>3, <1>4 DEF Fsm
<1>9. /\ fsm' \in [Machines -> Fsm]
      /\ \A p \in Machines : p # m => fsm'[p] = fsm[p]
      /\ fsm'[m].state = "W" /\ fsm'[m].len = k /\ fsm'[m].pos = 0 /\ fsm'[m].buf = piece
  BY <1>7, <1>8 DEF FsmInv, TypeOKFsm
<1>10. /\ taken' \in [Fds -> Nat]
       /\ taken'[sfd(m)] = off + k
       /\ \A f \in Fds : f # sfd(m) => taken'[f] = taken[f]
  BY <1>1, <1>2, <1>3 DEF FsmInv, TypeOKFsm
<1>11. TypeOKFsm'
  BY <1>6, <1>9, <1>10 DEF FsmInv, TypeOKFsm
<1>12. \A f \in Fds : taken'[f] <= arrived'[f]
  BY <1>1, <1>5, <1>6, <1>10 DEF FsmInv
<1>13. BufferInv'
  BY <1>2, <1>3, <1>4, <1>9 DEF FsmInv, BufferInv
<1>14. OrderInv'
  <2>1. ASSUME NEW p \in Machines, p # m
        PROVE  out'[dfd(p)] \o Pending(p)' = UpTo(taken'[sfd(p)])
    <3>1. sfd(p) \in Fds /\ sfd(p) # sfd(m)
      BY <2>1, FsmAssumption DEF OneEach, sfd
    <3>2. taken'[sfd(p)] = taken[sfd(p)] /\ out' = out /\ fsm'[p] = fsm[p]
      BY <1>6, <1>9, <1>10, <2>1, <3>1
    <3>3. Pending(p)' = Pending(p)
      BY <3>2 DEF Pending
    <3> QED BY <3>2, <3>3 DEF FsmInv, OrderInv
  <2>2. out'[dfd(m)] \o Pending(m)' = UpTo(taken'[sfd(m)])
    <3>1. fsm[m].len <= 0
      BY DEF ReadSome, FsmInv, BufferInv
    <3>2. out[dfd(m)] = UpTo(off)
      BY <3>1, AllWritten
    <3>3. SubSeq(piece, 1, k) = piece
      BY <1>4
    <3>4. Pending(m)' = piece
      BY <1>2, <1>3, <1>9, <3>3 DEF Pending
    <3> QED BY <1>4, <1>6, <1>10, <3>2, <3>4
  <2> QED BY <2>1, <2>2 DEF OrderInv
<1>15. StopInv'
  BY <1>6, <1>9 DEF FsmInv, StopInv
<1> QED BY <1>11, <1>12, <1>13, <1>14, <1>15 DEF FsmInv

LEMMA WriteSomeKept ==
    ASSUME OneEach, FsmInv, NEW m \in Machines, WriteSome(m)
    PROVE  FsmInv'
<1>1. sfd(m) \in Fds /\ dfd(m) \in Fds
  BY FsmAssumption DEF sfd, dfd
<1>2. PICK k \in 1 .. fsm[m].len :
        /\ out' = [out EXCEPT ![dfd(m)] =
                      @ \o SubSeq(fsm[m].buf, fsm[m].pos + 1, fsm[m].pos + k)]
        /\ fsm' = [fsm EXCEPT ![m].pos = @ + k, ![m].len = @ - k,
                              ![m].state = IF k = fsm[m].len THEN "R" ELSE "W"]
  BY DEF WriteSome
<1> DEFINE buf  == fsm[m].buf
           at   == fsm[m].pos
           len  == fsm[m].len
           sent == out[dfd(m)] \o SubSeq(buf, at + 1, at + k)
<1>3. /\ BUFSIZE \in Nat /\ buf \in Seq(Nat) /\ at \in Nat /\ len \in -1 .. BUFSIZE
      /\ fsm[m] \in Fsm
  BY FsmAssumption, SMTT(60) DEF FsmInv, TypeOKFsm, Fsm
<1>4. len \in Nat /\ k \in 1 .. len /\ len > 0
  BY <1>2, <1>3
<1>5. at + len = Len(buf) /\ Len(buf) <= BUFSIZE
  BY <1>4 DEF FsmInv, BufferInv
<1>6. out[dfd(m)] \in Seq(Nat)
  BY <1>1 DEF FsmInv, TypeOKFsm
<1>7. /\ sent \in Seq(Nat)
      /\ sent \o SubSeq(buf, at + k + 1, at + len) =
             out[dfd(m)] \o SubSeq(buf, at + 1, at + len)
  <2> HIDE DEF buf, at, len
  <2> QED BY <1>3, <1>4, <1>5, <1>6, PendingSplits DEF sent
<1>8. UNCHANGED <<arrived, taken, eof, room, broken>>
  BY DEF WriteSome
<1>9. out' = [out EXCEPT ![dfd(m)] = sent]
  BY <1>2
<1> HIDE DEF sent
<1>10. /\ out' \in [Fds -> Seq(Nat)]
       /\ out'[dfd(m)] = sent
       /\ \A f \in Fds : f # dfd(m) => out'[f] = out[f]
  BY <1>1, <1>7, <1>9 DEF FsmInv, TypeOKFsm
<1>11. /\ DOMAIN fsm' = Machines
       /\ fsm' = [p \in Machines |-> fsm'[p]]
       /\ \A p \in Machines : p # m => fsm'[p] = fsm[p]
       /\ fsm'[m] = [state |-> IF k = len THEN "R" ELSE "W", len |-> len - k,
                     pos |-> at + k, buf |-> buf]
  BY <1>2, <1>3 DEF FsmInv, TypeOKFsm, Fsm
<1>12. fsm'[m] \in Fsm
  BY <1>3, <1>4, <1>5, <1>11, SMTT(60) DEF Fsm
<1>13. fsm' \in [Machines -> Fsm]
  BY <1>11, <1>12 DEF FsmInv, TypeOKFsm
<1>14. /\ fsm'[m].state = (IF k = len THEN "R" ELSE "W") /\ fsm'[m].len = len - k
       /\ fsm'[m].pos = at + k /\ fsm'[m].buf = buf
  BY <1>11
<1>15. TypeOKFsm' /\ \A f \in Fds : taken'[f] <= arrived'[f]
  BY <1>8, <1>10, <1>13 DEF FsmInv, TypeOKFsm
<1>16. BufferInv'
  <2>1. /\ fsm'[m].state = "R" => fsm'[m].len <= 0
        /\ fsm'[m].state = "W" => fsm'[m].len > 0
        /\ fsm'[m].pos + fsm'[m].len = Len(fsm'[m].buf)
        /\ Len(fsm'[m].buf) <= BUFSIZE
    <3> HIDE DEF at, len, buf
    <3> QED BY <1>3, <1>4, <1>5, <1>14
  <2> QED BY <1>11, <2>1 DEF FsmInv, BufferInv
<1>17. OrderInv'
  <2>1. ASSUME NEW p \in Machines, p # m
        PROVE  out'[dfd(p)] \o Pending(p)' = UpTo(taken'[sfd(p)])
    <3>1. dfd(p) \in Fds /\ dfd(p) # dfd(m)
      BY <2>1, FsmAssumption DEF OneEach, dfd
    <3>2. taken' = taken /\ out'[dfd(p)] = out[dfd(p)] /\ fsm'[p] = fsm[p]
      BY <1>8, <1>10, <1>11, <2>1, <3>1
    <3>3. Pending(p)' = Pending(p)
      BY <3>2 DEF Pending
    <3> QED BY <3>2, <3>3 DEF FsmInv, OrderInv
  <2>2. out'[dfd(m)] \o Pending(m)' = UpTo(taken'[sfd(m)])
    <3>1. Pending(m) = SubSeq(buf, at + 1, at + len)
      BY <1>4 DEF Pending
    <3>2. sent \o SubSeq(buf, at + k + 1, at + len) = UpTo(taken[sfd(m)])
      BY <1>7, <3>1 DEF FsmInv, OrderInv
    <3>3. Pending(m)' = SubSeq(buf, at + k + 1, at + len)
      <4>1. CASE k < len
        <5>1. (at + k) + (len - k) = at + len /\ len - k > 0
          <6> HIDE DEF at, len
          <6> QED BY <1>3, <1>4, <4>1
        <5> QED BY <1>14, <5>1 DEF Pending
      <4>2. CASE k = len
        <5>1. ~(len - k > 0) /\ at + k = at + len
          BY <1>4, <4>2
        <5>2. SubSeq(buf, at + k + 1, at + len) = <<>>
          BY <1>3, <1>4, <1>5, <4>2
        <5>3. Pending(m)' = <<>>
          BY <1>14, <5>1 DEF Pending
        <5> QED BY <5>2, <5>3
      <4> QED BY <1>4, <4>1, <4>2
    <3> QED BY <1>8, <1>10, <3>2, <3>3
  <2> QED BY <2>1, <2>2 DEF OrderInv
<1>18. StopInv'
  <2>1. ASSUME NEW p \in Machines, p # m
        PROVE  dfd(p) \in Fds /\ out'[dfd(p)] = out[dfd(p)]
    BY <1>10, <2>1, FsmAssumption DEF OneEach, dfd
  <2> QED BY <1>8, <1>11, <1>14, <2>1 DEF FsmInv, StopInv
<1> QED BY <1>15, <1>16, <1>17, <1>18 DEF FsmInv

LEMMA DriverKept ==
    ASSUME OneEach, FsmInv, NEW m \in Machines, fsm_driver(m)
    PROVE  FsmInv'
<1>1. /\ fsm \in [Machines -> Fsm] /\ fsm[m] \in Fsm /\ BUFSIZE \in Nat
      /\ fsm[m].state \in {"R", "W", "Ex", "T"} /\ fsm[m].len \in -1 .. BUFSIZE
      /\ fsm[m].state = "R" => fsm[m].len <= 0
  BY FsmAssumption DEF FsmInv, TypeOKFsm, Fsm, BufferInv
<1>2. sfd(m) \in Fds /\ dfd(m) \in Fds
  BY FsmAssumption DEF sfd, dfd
<1>3. CASE ReadSome(m)
  BY <1>3, ReadSomeKept
<1>4. CASE ReadEnd(m)
  <2>1. Len(out[dfd(m)]) = arrived[sfd(m)]
    <3>1. Len(out[dfd(m)]) = taken[sfd(m)]
      BY <1>1, <1>4, AllWritten DEF ReadEnd
    <3>2. arrived[sfd(m)] \in Nat /\ taken[sfd(m)] \in Nat
      BY <1>2 DEF FsmInv, TypeOKFsm
    <3> QED BY <1>4, <3>1, <3>2 DEF ReadEnd, Waiting
  <2>2. /\ fsm' \in [Machines -> Fsm]
        /\ \A p \in Machines : p # m => fsm'[p] = fsm[p]
        /\ fsm'[m].buf = fsm[m].buf /\ fsm'[m].pos = fsm[m].pos
        /\ fsm'[m].len = 0 /\ fsm'[m].state = "T"
    <3>1. /\ DOMAIN fsm' = Machines /\ fsm' = [p \in Machines |-> fsm'[p]]
          /\ \A p \in Machines : p # m => fsm'[p] = fsm[p]
          /\ fsm'[m] = [state |-> "T", buf |-> fsm[m].buf, len |-> 0, pos |-> fsm[m].pos]
      BY <1>1, <1>4 DEF ReadEnd, Fsm
    <3>2. fsm'[m] \in Fsm
      BY <1>1, <3>1 DEF Fsm
    <3> QED BY <1>1, <3>1, <3>2
  <2> QED BY <1>1, <1>4, <2>1, <2>2, StateOnly DEF ReadEnd
<1>5. CASE ReadAgain(m)
  <2>1. /\ fsm' \in [Machines -> Fsm]
        /\ \A p \in Machines : p # m => fsm'[p] = fsm[p]
        /\ fsm'[m].buf = fsm[m].buf /\ fsm'[m].pos = fsm[m].pos
        /\ fsm'[m].len = -1 /\ fsm'[m].state = "R"
    BY <1>1, <1>5, SMTT(60) DEF ReadAgain, Fsm
  <2> QED BY <1>1, <1>5, <2>1, StateOnly DEF ReadAgain
<1>6. CASE ReadFails(m)
  <2>1. /\ fsm' \in [Machines -> Fsm]
        /\ \A p \in Machines : p # m => fsm'[p] = fsm[p]
        /\ fsm'[m].buf = fsm[m].buf /\ fsm'[m].pos = fsm[m].pos
        /\ fsm'[m].len = -1 /\ fsm'[m].state = "Ex"
    <3>1. /\ DOMAIN fsm' = Machines /\ fsm' = [p \in Machines |-> fsm'[p]]
          /\ \A p \in Machines : p # m => fsm'[p] = fsm[p]
          /\ fsm'[m] = [state |-> "Ex", buf |-> fsm[m].buf, len |-> -1, pos |-> fsm[m].pos]
      BY <1>1, <1>6 DEF ReadFails, Fsm
    <3>2. fsm'[m] \in Fsm
      BY <1>1, <3>1 DEF Fsm
    <3> QED BY <1>1, <3>1, <3>2
  <2> QED BY <1>1, <1>6, <2>1, StateOnly DEF ReadFails
<1>7. CASE WriteSome(m)
  BY <1>7, WriteSomeKept
<1>8. CASE UNCHANGED fsmVars
  BY <1>8 DEF fsmVars, files, FsmInv, TypeOKFsm, BufferInv, OrderInv, Pending, StopInv
<1>9. CASE WriteFails(m)
  <2>1. /\ fsm' \in [Machines -> Fsm]
        /\ \A p \in Machines : p # m => fsm'[p] = fsm[p]
        /\ fsm'[m].buf = fsm[m].buf /\ fsm'[m].pos = fsm[m].pos
        /\ fsm'[m].len = fsm[m].len /\ fsm'[m].state = "Ex"
    BY <1>1, <1>9 DEF WriteFails, Fsm
  <2> QED BY <1>1, <1>9, <2>1, StateOnly DEF WriteFails
<1>10. CASE Report(m)
  <2>1. /\ fsm' \in [Machines -> Fsm]
        /\ \A p \in Machines : p # m => fsm'[p] = fsm[p]
        /\ fsm'[m].buf = fsm[m].buf /\ fsm'[m].pos = fsm[m].pos
        /\ fsm'[m].len = fsm[m].len /\ fsm'[m].state = "T"
    BY <1>1, <1>10 DEF Report, Fsm
  <2>2. broken[sfd(m)] \/ broken[dfd(m)]
    BY <1>10 DEF Report, FsmInv, StopInv
  <2> QED BY <1>1, <1>10, <2>1, <2>2, StateOnly DEF Report
<1> QED BY <1>3, <1>4, <1>5, <1>6, <1>7, <1>8, <1>9, <1>10
         DEF fsm_driver, WriteAgain, Rest

-----------------------------------------------------------------------------
(* The descriptors: bytes arrive before the end, and a failure stays.        *)

LEMMA WorldKept ==
    ASSUME FsmInv, World
    PROVE  FsmInv'
<1>1. PICK f \in Fds : Arrive(f) \/ End(f) \/ Fill(f) \/ Break(f)
  BY DEF World
<1>2. fsm' = fsm /\ taken' = taken /\ out' = out
  BY <1>1 DEF Arrive, End, Fill, Break
<1>3. /\ arrived' \in [Fds -> Nat] /\ eof' \in [Fds -> BOOLEAN]
      /\ room' \in [Fds -> BOOLEAN] /\ broken' \in [Fds -> BOOLEAN]
  <2>0. TypeOKFsm
    BY DEF FsmInv
  <2>1. CASE Arrive(f)
    BY <2>0, <2>1 DEF Arrive, TypeOKFsm
  <2>2. CASE End(f)
    BY <2>0, <2>2 DEF End, TypeOKFsm
  <2>3. CASE Fill(f)
    BY <2>0, <2>3 DEF Fill, TypeOKFsm
  <2>4. CASE Break(f)
    BY <2>0, <2>4 DEF Break, TypeOKFsm
  <2> QED BY <1>1, <2>1, <2>2, <2>3, <2>4
<1>4. \A g \in Fds :
         /\ arrived[g] <= arrived'[g]
         /\ eof[g] => eof'[g] /\ arrived'[g] = arrived[g]
         /\ broken[g] => broken'[g]
  BY <1>1 DEF Arrive, End, Fill, Break, FsmInv, TypeOKFsm
<1>5. TypeOKFsm'
  BY <1>2, <1>3 DEF FsmInv, TypeOKFsm
<1>6. \A g \in Fds : taken'[g] <= arrived'[g]
  BY <1>2, <1>3, <1>4 DEF FsmInv, TypeOKFsm
<1>7. BufferInv' /\ OrderInv'
  BY <1>2 DEF FsmInv, BufferInv, OrderInv, Pending
<1>8. StopInv'
  <2>1. \A p \in Machines : sfd(p) \in Fds /\ dfd(p) \in Fds
    BY FsmAssumption DEF sfd, dfd
  <2> QED BY <1>2, <1>4, <2>1 DEF FsmInv, StopInv
<1> QED BY <1>5, <1>6, <1>7, <1>8 DEF FsmInv

\* A step of a machine, of the world or of neither.
LEMMA FsmKept ==
    ASSUME OneEach, FsmInv,
           (\E m \in Machines : fsm_driver(m)) \/ World \/ UNCHANGED fsmVars
    PROVE  FsmInv'
<1>1. CASE UNCHANGED fsmVars
  BY <1>1 DEF fsmVars, files, FsmInv, TypeOKFsm, BufferInv, OrderInv, Pending, StopInv
<1> QED BY <1>1, DriverKept, WorldKept

LEMMA FsmStarts ==
    ASSUME InitFiles, fsm = [m \in Machines |-> StartFsm]
    PROVE  FsmInv
<1>1. BUFSIZE \in Nat /\ StartFsm \in Fsm
  BY FsmAssumption DEF StartFsm, Fsm
<1>2. TypeOKFsm /\ \A f \in Fds : taken[f] <= arrived[f]
  BY <1>1 DEF InitFiles, TypeOKFsm
<1>3. \A m \in Machines : fsm[m] = StartFsm /\ sfd(m) \in Fds /\ dfd(m) \in Fds
  BY FsmAssumption DEF sfd, dfd
<1>4. BufferInv /\ StopInv
  BY <1>1, <1>3 DEF StartFsm, BufferInv, StopInv
<1>5. OrderInv
  <2>1. UpTo(0) = <<>>
    BY DEF UpTo
  <2>2. \A m \in Machines : Pending(m) = <<>>
    BY <1>3 DEF StartFsm, Pending
  <2>3. \A m \in Machines : out[dfd(m)] = <<>> /\ taken[sfd(m)] = 0
    BY <1>3 DEF InitFiles
  <2>4. <<>> \o <<>> = <<>>
    OBVIOUS
  <2>5. \A m \in Machines : out[dfd(m)] \o Pending(m) = UpTo(taken[sfd(m)])
    BY <2>1, <2>2, <2>3, <2>4, Zenon
  <2> QED BY <2>5 DEF OrderInv
<1> QED BY <1>2, <1>4, <1>5 DEF FsmInv

LEMMA FsmIsRight ==
    ASSUME FsmInv
    PROVE  InOrder /\ StopsForAReason
BY DEF FsmInv, OrderInv, StopInv, UpTo, InOrder, StopsForAReason

=============================================================================
