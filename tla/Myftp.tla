-------------------------------- MODULE Myftp --------------------------------
(***************************************************************************)
(* The file transfer of ipc/xsi/msg/myftp_msg: a server and a client, each *)
(* a state machine, and the one message queue both send to and receive     *)
(* from.  Both receive messages of any type (msgtyp 0): a client may take  *)
(* its own request.  ipc/socket/dgram/myftp_udp holds the same programs.   *)
(***************************************************************************)
EXTENDS Integers, Sequences, Program

CONSTANTS
    Chunks,       \* the file is read in this many pieces of BUF_SIZE bytes
    QueueSize,    \* messages the queue has room for
    CallsFail     \* may msgsnd, msgrcv, fseek and fopen fail?

ASSUME MyftpAssumption == Chunks \in Nat /\ QueueSize \in Nat \ {0} /\ CallsFail \in BOOLEAN

VARIABLES
    queue,     \* the messages in it, in the order they were sent
    server,    \* ctx.state of the server; boot before it has the queue
    offset,    \* ctx.reader.offset, in pieces
    opened,    \* ctx.reader.hander is not NULL
    client,    \* ctx.state of the client
    recv_msg,  \* ctx.recv_msg of the client
    received   \* the pieces the client has printed

ftpVars == <<queue, server, offset, opened, client, recv_msg, received>>

Path    == [mtype |-> "PATH"]
Data(k) == [mtype |-> "DATA", data |-> k]
Eot     == [mtype |-> "EOT"]

\* A message zeroed by memset.
Zeroed  == [mtype |-> "0"]

Messages == {Path, Eot} \cup {Data(k) : k \in 1 .. Chunks}

FtpTypeOK ==
    /\ queue \in Seq(Messages)
    /\ Len(queue) <= QueueSize
    /\ server \in {"boot", "start", "wait_path", "send_data", "send_eot", "fail", "end"}
    /\ offset \in 0 .. Chunks
    /\ opened \in BOOLEAN
    /\ client \in {"boot", "start", "send_path", "wait_data", "recv_data", "recv_eot",
                   "fail", "end", "aborted"}
    /\ recv_msg \in Messages \cup {Zeroed}
    /\ received \in Seq(1 .. Chunks)

FtpInit ==
    /\ queue = <<>>
    /\ server = "boot"
    /\ offset = 0
    /\ opened = FALSE
    /\ client = "boot"
    /\ recv_msg = Zeroed
    /\ received = <<>>

\* msgsnd waits while the queue is full.
Send(m) ==
    /\ Len(queue) < QueueSize
    /\ queue' = Append(queue, m)

\* msgrcv takes the first message, whatever its type, and waits for one.
Receive ==
    /\ queue # <<>>
    /\ queue' = Tail(queue)

-----------------------------------------------------------------------------
(* server.c *)

ServerIs(s) == server' = s /\ UNCHANGED <<client, recv_msg, received>>

\* msgget with IPC_CREAT, and server_state_start.
ServerBoot ==
    /\ server = "boot"
    /\ ServerIs("start")
    /\ UNCHANGED <<queue, offset, opened>>

ServerStart ==
    /\ server = "start"
    /\ ServerIs("wait_path")
    /\ UNCHANGED <<queue, offset, opened>>

\* The path has come: fopen.  The server's own messages are longer than the
\* room msgrcv is given: it fails and leaves them.
OpenPath ==
    /\ server = "wait_path"
    /\ queue # <<>>
    /\ IF Head(queue) = Path
       THEN Receive /\ ServerIs("send_data") /\ opened' = TRUE /\ offset' = 0
       ELSE ServerIs("fail") /\ UNCHANGED <<queue, opened, offset>>

OpenPathFails ==
    /\ CallsFail
    /\ server = "wait_path"
    /\ Receive
    /\ Head(queue) = Path
    /\ ServerIs("fail")
    /\ UNCHANGED <<offset, opened>>

\* Mutant of SendPiece: the offset is not advanced.
SendPieceAgain ==
    /\ server = "send_data"
    /\ offset < Chunks
    /\ Send(Data(offset + 1))
    /\ ServerIs("send_data")
    /\ UNCHANGED <<offset, opened>>
SendPiece ==
    /\ server = "send_data"
    /\ offset < Chunks
    /\ Send(Data(offset + 1))
    /\ offset' = offset + 1
    /\ ServerIs("send_data")
    /\ UNCHANGED opened

\* fread returns 0.
AtEnd ==
    /\ server = "send_data"
    /\ offset = Chunks
    /\ ServerIs("send_eot")
    /\ UNCHANGED <<queue, offset, opened>>

SendEot ==
    /\ server = "send_eot"
    /\ Send(Eot)
    /\ opened' = FALSE
    /\ ServerIs("end")
    /\ UNCHANGED offset

\* msgrcv, fseek or msgsnd fails.
ServerCallFails ==
    /\ CallsFail
    /\ server \in {"wait_path", "send_data", "send_eot"}
    /\ ServerIs("fail")
    /\ UNCHANGED <<queue, offset, opened>>

ServerFails ==
    /\ server = "fail"
    /\ opened' = FALSE
    /\ ServerIs("end")
    /\ UNCHANGED <<queue, offset>>

Server ==
    \/ ServerBoot \/ ServerStart \/ OpenPath \/ OpenPathFails \/ SendPiece \/ AtEnd
    \/ SendEot \/ ServerCallFails \/ ServerFails

-----------------------------------------------------------------------------
(* cilent.c *)

ClientIs(s) == client' = s /\ UNCHANGED <<server, offset, opened>>

\* msgget fails while no server has made the queue.
ClientBoot ==
    /\ client = "boot"
    /\ ClientIs(IF server = "boot" THEN "end" ELSE "start")
    /\ UNCHANGED <<queue, recv_msg, received>>

ClientStart ==
    /\ client = "start"
    /\ ClientIs("send_path")
    /\ UNCHANGED <<queue, recv_msg, received>>

SendPath ==
    /\ client = "send_path"
    /\ Send(Path)
    /\ ClientIs("wait_data")
    /\ UNCHANGED <<recv_msg, received>>

SendPathFails ==
    /\ CallsFail
    /\ client = "send_path"
    /\ ClientIs("fail")
    /\ UNCHANGED <<queue, recv_msg, received>>

\* The assertion on the message's type fails on a path.
WaitData ==
    /\ client = "wait_data"
    /\ Receive
    /\ recv_msg' = Head(queue)
    /\ ClientIs(IF Head(queue) = Path THEN "aborted"
                ELSE IF Head(queue) = Eot THEN "recv_eot" ELSE "recv_data")
    /\ UNCHANGED received

\* len is a size_t: an error of msgrcv is not noticed, and the assertion fails
\* on the message that memset has zeroed.
WaitDataFails ==
    /\ CallsFail
    /\ client = "wait_data"
    /\ recv_msg' = Zeroed
    /\ ClientIs("aborted")
    /\ UNCHANGED <<queue, received>>

RecvData ==
    /\ client = "recv_data"
    /\ received' = Append(received, recv_msg.data)
    /\ ClientIs("wait_data")
    /\ UNCHANGED <<queue, recv_msg>>

RecvEot ==
    /\ client = "recv_eot"
    /\ ClientIs("end")
    /\ UNCHANGED <<queue, recv_msg, received>>

ClientFails ==
    /\ client = "fail"
    /\ ClientIs("end")
    /\ UNCHANGED <<queue, recv_msg, received>>

Client ==
    \/ ClientBoot \/ ClientStart \/ SendPath \/ SendPathFails \/ WaitData
    \/ WaitDataFails \/ RecvData \/ RecvEot \/ ClientFails

-----------------------------------------------------------------------------

\* The client prints the file's pieces in order, none twice, and when it has
\* been told the end of the transmission it has printed all of them, whatever
\* the queue's size and whichever call fails (server.c:98-139).
FileIsReceived ==
    /\ received = [k \in 1 .. Len(received) |-> k]
    /\ client = "recv_eot" => Len(received) = Chunks
=============================================================================
