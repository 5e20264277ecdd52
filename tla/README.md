# Verification of the programs of `linux-`

The repository holds the exercises of a course in Linux system programming
(`src/linux_c/`) and in data structures (`src/C11-数据结构/`). Its heart is a set of
small libraries and programs whose correctness depends on interleavings: a
dynamic pre-fork server, a semaphore and a token bucket for threads, two
libraries driven by `SIGALRM`, relays that carry bytes between descriptors,
alone and as an engine for many jobs, and small programs whose threads or processes
share work, a file, a connection or a message queue. Beside it stand libraries of
lists, queues, stacks and trees, whose difficulty is pointers and positions, under
any sequence of calls. This directory models those in TLA+, checks them with TLC and
proves, with TLAPS, what holds for every size.

Paths below are relative to `src/linux_c/` unless they begin with `C11`, which stands
for `src/C11-数据结构/ds`.

## 1. Inventory

### Modelled

**Dynamic pre-fork server** (`ipc/socket/stream/pool_dynamic/server.c`).
*State*: `serverpool[]` in memory shared by parent and children (a pid and a
state per slot), the parent's counters `idle_count` and `busy_count`, the pending
`SIGUSR2`, the listening socket's queue. *Operations*: `add_1_server`,
`del_1_server`, `scan_pool` and the control loop in the parent; `server_job` in
each child. *Interaction*: children write their own slot and signal the parent;
the parent kills children and reads slots without any lock. *Hard*: slots are
read while children write them, the signal does not queue, children are killed
between any two of their instructions, loop bounds change under their loops.
*Correct when* the parent never leaves the table, its counters agree with it, no
child escapes it, the pool is replenished, and every client is served.

**Thread semaphore** (`parallel/thread/posix/mysem/`). *State*: a value, a mutex, a
condition variable. *Operations*: `mysem_add`, `mysem_sub`; `main.c` bounds its
workers by it. *Hard*: lost wakeups, different amounts, destruction while in use.
*Correct when* it implements an atomic counting semaphore and no unit is lost.

**Thread token bucket** (`parallel/thread/posix/mytbf_mt/`). *State*: the table
`job[]` under `mut_job`, each bucket's tokens under its own mutex. *Operations*:
`mytbf_init`, `mytbf_fetchtoken`, `mytbf_returntoken`, `mytbf_destroy`, the thread
`thr_alrm`, `module_unload` at exit. *Hard*: two levels of locks, destruction beside
the refilling thread, cancellation. *Correct when* it implements a token bucket,
never touches a freed bucket, grants waiting fetches and can exit.

**Alarm job scheduler** (`parallel/signal/anytimer/anytimer.c`). *State*: the table
`job[]`, each job's state and remaining time, the interval timer and handler.
*Operations*: `at_addjob`, `at_addjob_repeat`, `at_canceljob`, `at_waitjob`, the handler
`alrm_action`, `module_unload`. *Hard*: the handler comes between any two steps of
the calls, and calls user functions that may call the library. *Correct when* jobs
run once and on time, none is lost, cancelled ones do not run, `at_waitjob` returns (section 6
says where the code falls short of it).

**Signal token bucket and the flow-controlled copy** (`parallel/signal/mytbf`,
`mytbf_sa`, each with `mytbf.c` and `main.c`). *State*: the table and tokens, changed
by the handler and the program alike without masking. *Hard*: non-atomic
`token -= n`, signals between test and `pause`, signals of other processes, failing
reads and short writes. *Correct when* no more is granted than a race-free bucket
would grant, and the file is copied at its rate.

**Relays** (`io/adv/nonblock/relay.c`, `io/adv/select/relay.c`, `io/adv/poll/relay.c`,
`io/adv/epoll/relay.c`) and the **relay engine** (`io/adv/nonblock/relayer/`). *State*:
two state machines (`STATE_R`, `STATE_W`, `STATE_Ex`, `STATE_T`) per job with their
buffers; for the engine a table under `mut_rel_job`. *Operations*: `fsm_driver`, the
wait loops, `rel_addjob`, `thr_relayer`, `module_unload`. *Hard*: short reads and writes,
`EAGAIN`, hang-ups, the wait for the right events, jobs added while the engine
runs, a blocking call under the lock. *Correct when* no byte is lost, repeated or
reordered, each direction ends only for a reason, none starves the other.

**Prime searches** (`parallel/thread/posix/primer0.c`, `primer0_e.c`, `primer0_pool.c`,
`primer0_pool_busy.c`, `process_basic/primer1.c`, `primer2.c`, `primerN.c`). *State*: the
number handed over in `num` under `mut_num`, or each thread's or child's own numbers.
*Operations*: `main`'s loops, `thr_prime`, the children. *Hard*: one variable is both task
and end mark, main and pool wait on one condition variable, children must not go on with
main's loop. *Correct when* each number is tested once, the primes and only they are
reported, and main outlives the work.

**Letters in turn** (`parallel/thread/posix/abcd.c`, `abcd_e.c`). *State*: a mutex per thread, or
`num` with one mutex. *Operations*: `main`, `thr_func`. *Hard*: a thread unlocks another's
mutex; threads start while main still creates others. *Correct when* the letters come in
order and never stop before the alarm.

**Counters in a file** (`parallel/thread/posix/add.c`, `io/adv/lockf/add.c`, `ipc/xsi/sem/add.c`).
*State*: the file's number, each stream's buffer, the mutex, file lock or semaphore.
*Operations*: `thr_add`, `func_add`, `P`, `V`, `main`. *Hard*: what is printed is not in the file
before it is flushed; failing threads and processes, and locks that fail. *Correct when* every addition counts.

**File transfer over a message queue** (`ipc/xsi/msg/myftp_msg`). *State*: the queue, the server's
and the client's state machines. *Operations*: the `*_state_*` functions and drivers of `server.c`
and `cilent.c`. *Hard*: one queue for both directions, failing calls, a full queue. *Correct
when* the client gets the whole file in order, and only what the server has sent.

**Stream servers** (`ipc/socket/stream/basic`, `par`, `pool_static`). *State*: the listening socket's
queue, who has which connection open, the children. *Operations*: `main`'s loops, `server_job`.
*Interaction*: `fork` opens each connection twice; several children accept on one socket. *Hard*: a
connection lasts until every process has closed it; any call may fail in any process. *Correct when*
each client is answered once and let go, by a server that goes on.

**Copies of a file** (`parallel/signal/slowcat.c`, `slowcat1.c`, `mycopy.c`, `io/sysio/mycopy.c`,
`io/stdio/mycop.c`, `ipc/socket/stream/webdl/webdl.c`). *State*: the offsets, the buffer, for the paced ones
the flag or token that the alarm's handler sets. *Hard*: the alarm between a test and `pause` or
between the load and the store of `token --`, short writes, failing reads. *Correct when* the copy is
the file, or what a short write makes of it, the pace is kept and none waits for ever.

**Blocked signals** (`parallel/signal/star.c`, `block.c`, `susp.c`, `susp_rt.c`). *State*: the mask, the
pending signals, the line being printed. *Hard*: a mask that was inherited, signals that come while
they are blocked, two kinds of them. *Correct when* no line is interrupted, every signal is answered as
often as its kind promises, and `sigsuspend` returns when there is one.

**Forks and shared memory** (`process_basic/few.c`, `fork1.c`, `system1.c`, `mysu.c`, `sh.c`,
`ipc/xsi/shm/shm.c`, `io/adv/mmap/shmem.c`). *State*: what each of two processes has printed and not
written, what has been written, the memory shared. *Hard*: `fork` copies the buffer, `exec` drops it,
`exit` writes it, and a file is buffered unlike a terminal. *Correct when* everything is printed once
and in order, and the parent reads what the child wrote.

**Daemons** (`process_basic/daemon/mydaemon.c`, `parallel/signal/daemon/mydaemon.c`). *State*: the stream, the
numbers written, the process started and its child. *Hard*: a handler that closes the stream
wherever the program is. *Correct when* the file holds the numbers in order, each once, whatever ends it.

**Lines of items** (`C11/line/list`, `stack`, `squeue`): the array list, stack and ring queue; the list
with and without head, the generic double lists `lib1` to `lib4`, the kernel's list, and the
stack and queue over them. *State*: array and counters, or nodes on a heap. *Operations*: every
function of the libraries. *Hard*: positions at both ends and beyond, a full and an empty ring, failing
allocations in the middle of a call, nodes freed while a list still names them. *Correct when* each
implements a sequence, no node leaks and none is used after its release.

**Programs over lines** (`C11/line/ball_clock/main.c`, and `simple/josephu/jose.c` and `simple/polynomial/poly.c` among
the lists). *Correct when* every ball is in
one place and stands in order when the clock stops (it does not, section 6), the right person is left, and the sum is the sum.

**Trees** (`C11/tree/btree`, `retrieval`, `save_load`). *State*: nodes with two links, or many; the file.
*Operations*: insertion, search, deletion, balancing by turns, the walk by levels; the dictionary's lines
and search; saving and loading. *Hard*: deleting and turning re-hang whole subtrees, a file cut off
anywhere, or that cannot be opened; input lines of any form. *Correct when* a tree holds what was put in, in order and balanced after `balance`, and a
loaded tree is the saved one.

### Not modelled, and why

| part | reason |
|---|---|
| `parallel/thread/posix/mypipe` | does not compile (lines 51, 75, 149-150) |
| `ipc/pipe` | `pipe.c` does not compile (`fd`, `exet`); no state of its own |
| `C11/line/compute` | unfinished by its own comment, and reads an index that it never sets |
| `parallel/signal/5sec*.c`, `process_basic/primer0.c` | one loop over one variable |
| `parallel/thread/posix/create*.c`, `cleanup.c`, `openmp` | one call each |
| `ipc/xsi/msg/basic`, datagram examples (`ipc/socket/dgram`: `basic`, `bcast`, `mcast`, `var`) | one message and its print |
| `ipc/socket/dgram/myftp_udp` | holds a copy of `ipc/xsi/msg/myftp_msg`, which is modelled |
| `io/fs`, the rest of `io/stdio`, `io/sysio` and `io/adv` (`mmap.c`) | straight sequences of library calls; nothing is shared or repeated that a model would tell apart |

`PROJECT.json` lists every component with its sources.

## 2. Modules

| module | code | role |
|---|---|---|
| `PoolDynamic` | `server.c`, `client.c` | the parent, its children, the clients |
| `MCPoolDynamic` | | its instances |
| `PoolDynamicProofs` | | its theorems |
| `Semaphore` | | abstract counting semaphore |
| `MySem` | `mysem.c` | the semaphore; refines `Semaphore` |
| `MySemMain` | `mysem/main.c` | the program around it; extends `MySem` |
| `TokenBucket` | | abstract token bucket |
| `MytbfMt` | `mytbf_mt/mytbf.c` | the thread version; refines `TokenBucket` |
| `MytbfMtProofs` | | its theorems |
| `AnyTimer`, `MCAnyTimer` | `anytimer.c` | the scheduler |
| `AnyTimerProofs` | | its theorems |
| `MytbfSig` | `mytbf/mytbf.c`, `mytbf_sa/mytbf.c` | the signal versions of the bucket |
| `MytbfMain` | `mytbf/main.c` | the copying program; extends `MytbfSig` |
| `MytbfProofs` | | theorems about both |
| `RelayFsm` | `fsm_driver` | the machine all relays share, and the descriptors |
| `Relay`, `MCRelay` | the four `relay.c` | the loops around it; extend `RelayFsm` |
| `Relayer`, `MCRelayer` | `relayer.c` | the engine; extends `RelayFsm` |
| `RelayFsmProofs`, `RelayerProofs` | | the lemmas about the machine, and the theorems about the engine; those about the loops are the last section of `StructuresProofs` |
| `Program` | | the variable that names the program that runs |
| `PrimeWork` | | abstract prime search |
| `PrimeTest` | the loop over `j` | the prime test of all the searches |
| `PrimePool` | `primer0_pool.c`, `primer0_pool_busy.c` | a pool of threads fed through `num` |
| `PrimeSpread` | `primer0.c`, `primer0_e.c`, `primer1.c`, `primer2.c`, `primerN.c` | numbers shared out beforehand |
| `Ring` | `abcd.c`, `abcd_e.c` | letters in turn |
| `FileAdd` | the three `add.c` | the number in the file |
| `Myftp` | `myftp_msg/server.c`, `cilent.c` | the transfer |
| `StreamServers` | `basic/server.c`, `par/server.c`, `pool_static/server.c` | processes and their connections |
| `Copies` | the copying programs | one program, its alarm and its file |
| `Blocked` | `star.c`, `block.c`, `susp.c`, `susp_rt.c` | one program and the signals sent to it |
| `Forks` | `few.c`, `fork1.c`, `system1.c`, `mysu.c`, `sh.c`, `shm.c`, `shmem.c` | a parent and its child |
| `Daemon` | the two `mydaemon.c` | a daemon and who ends it |
| `Programs` | | one of the programs above from `MySemMain` on runs; refines `PrimeWork` |
| `ProgramsProofs` | | theorems about `MySem` alone and about everything `Programs` runs |
| `Sequence` | | abstract line of items: its calls and their answers |
| `Arrays` | `sqlist`, `sqstack`, `squeue` (`arr`) | the structures in arrays |
| `Chain` | `simple/nohead`, and what all lists share | the heap of nodes: addresses, links, failing `malloc`; the list without a head |
| `Lists` | `simple/head`; `double/lib1` to `lib4`, `kernel`, list stack and queue | the single list with a head; the double lists and what is built on them |
| `LinePrograms` | `ball_clock`, `josephu`, `polynomial` | the programs over lines, each beside its reference definition |
| `Trees` | `btree`, `retrieval`, `save_load` | the trees |
| `Structures`, `MCStructures` | | one of the structures and programs runs; refines `Sequence` |
| `StructuresProofs` | | theorems about everything `Structures` runs but the binary tree, and about the loops of `Relay` |

Grain of atomicity. A step is one access to state that another process, thread or
handler also uses, or one system call; work on local variables is merged with the
step before it. A mutex is taken, used and released in separate steps. In
`MytbfSig` and `AnyTimer` a signal may come between any two steps; in `MytbfSig` the
handler is one step, since nothing runs beside it, in `AnyTimer` it is several,
since it calls functions that call back into the library.

Names follow the code: `serverpool[].pid` is `pid`, `me->token` is `token`, and so on;
where one variable would hide another the module's header says which is which.
`pc`-like variables stand for the place in a function. `PROJECT.json`, under `map`,
gives the lines each definition models.

Modelling decisions worth knowing:

* `PoolDynamic`: `kill(SIGTERM)` takes effect before the child's next instruction.
  A pid is not handed out while a child or the table has it. Whether `scan_pool`
  loads a state once or twice (`-O0`) is the constant `Rereads`. The early return of
  `del_1_server` for `idle_count = 0` is left out because it cannot be reached; the
  theorem `IdleToDelete` proves that.
* `MySem`, `MytbfMt`: `pthread_cond_wait` may wake without reason.
* `AnyTimer`: freed memory shows the handler a state that is none of the three (the
  allocator's link lies there). A job's function may add and cancel jobs wherever the signal falls.
  The history variable `crossed` names the two cases in which that collides with what the
  interrupted program is doing: the job is given the very slot that the program has found free
  (`"lost"`), or the memory that the program has just freed, which its old slot still names (`"doubled"`).
* `MytbfSig`: with `SiCode` the handler ignores signals that are not the kernel's
  (`mytbf_sa`); `Foreign` says whether another process sends them.
* `RelayFsm`: the bytes of an input are 1, 2, 3, ..., so that order is all there is;
  descriptors may fill up, hang up and end. `Relay` holds all four loops, told apart by
  the variable `waits`, which no step changes.
* `Programs`, `Structures`: the programs do not interact. The variable `program` chooses the one that
  runs, and the state of the others stays as it began, so that the state space is the sum of
  theirs and not the product; versions of one program differ in guards on `program`.
* `FileAdd`: `fprintf` fills the stream's buffer, `fflush`, `fclose` and `exit` write it out. A failing `P` ends
  its process (`LockFails`), a failing `lockf` does not (`LockIgnored`), and a failing `V` leaves the semaphore down
  (`UnlockFails`), so that the others wait for ever. Reading and writing the number itself does not fail.
* `StreamServers`: a connection is open in a set of processes. `fork` adds one; `close` and the end
  of a process, however it ends, take it away. A client connects once; sockets have been set up.
* `Copies`: the history variable `saved` is what the permits would be if the alarm never fell between
  a load and its store; the real ones may only be fewer. A short write starts again at the
  buffer's beginning, as the code does, and a stream that cannot write drops some of its bytes (`WriteIgnored`);
  `CopyIsRight` says what the copy is then, too. `output` is what has been handed to the descriptor or the
  stream: `webdl`, whose loop never ends, may keep the last of it in the stream's buffer for ever.
* `Blocked`: a standard signal is pending once at most, a real-time one queues up. `sigsuspend` is
  one step that delivers one signal of each kind that is pending and unmasked, and puts the mask back.
* `Forks`: `fork` copies the buffer, `exec` drops it, `exit` writes it; a terminal writes each line as it
  ends, a file does not: `terminal` says which the output is.
* `Daemon`: a handler that closes the stream before `fopen`, or while `fprintf` works on it, has undefined
  behaviour: the places `"crashed"` and `"undefined"`, of which nothing is claimed. `fflush` is two steps, its write
  and the emptying of the buffer: a handler between them writes the number again (`"closed_in_flush"`).
* `Chain`: an address is a small number, and `malloc` gives the lowest that is free, which only renames
  nodes; what a freed node held is forgotten, so that no property can lean on it. A call is one
  step, since nothing runs beside it; its answer is a tuple, the empty one when it does not return.
  What `queue_en` returns without a `return` statement is any of the codes.
* `Sequence` lets two surprises pass, because callers see them: `sqlist_find` overlooks the last item, and
  `list_delete_at` reads through `NULL` for most positions that are not there.
* `Trees`: a slot is a place that holds a pointer, the code's `struct node_st **`. `balance` and `travel` go
  turn by turn. `wrong` remembers that `find_max` has given a node that is not the largest; while it has not,
  the tree must be a search tree with exactly the nodes inserted, and afterwards `balance` must still end.
* The dictionary's nodes are the paths that lead to them. A line without a colon makes `trie.c` read beyond the line
  (line 26), a key with another character than a to z makes it use a link outside the node (line 71): after either
  (`ReadOther`) nothing is claimed, and `DictionaryIsRight` is about inputs of keys of letters with a description.
* The saved file is a sequence of characters and may be cut anywhere before it is loaded. `save.c` may be run
  several times, with other trees; when it cannot open the file it ends as if it had, and the file of the
  run before stays (`SaveUnopened`). `load` that cannot open it draws the empty tree (`LoadUnopened`); only a missing
  parenthesis or a failing `malloc` ends it with an error (`Load`, `LoadFails`).
* `Myftp`: the queue is empty when the server makes it (nothing in the code removes it, so
  it would be left over from an earlier transfer).

## 3. Runs

All are in `PROJECT.json`. A run with expectation *violation* documents a disagreement
of the code with a comment or header of its own; section 6 explains it.

| run | instance | shows |
|---|---|---|
| `MCPoolDynamicSafety` | 4 slots, at least 1 and at most 2 spare, 1 client; `fork` and `accept` may fail, states are loaded twice | the parent's bookkeeping: `TypeOK`, `TableIsKept`, `CountsUsed`, `Replenished`, `SettledCounts` |
| `MCPoolDynamicLive` | 3 slots, 2 clients, no failures, fairness | `QueuedIsServed`; deadlock is checked |
| `MCPoolDynamicDropped` | the same | *violation* of `NoClientDropped` |
| `MCPrograms` | the programs of `Programs` one at a time; any call may fail | `ImplementsSemaphore`, `NoLostWakeup`, `SemaphoreIsKept` (`mysem`), `ImplementsWork` (the searches), `InTurn` (the letters), `EveryAdditionCounts` (the counters), `CopiesAreRight` (the transfer and the copies), `ClientsAreAnswered` (the servers), `SignalsAreAnswered` (the blocked signals), `ProcessesPrintRight` (forks, shared memory and daemons), `EveryoneGetsOn` |
| `MCMytbfMt` | 2 threads, 2 buckets for 1 slot, rate 1, burst 2, sizes 0, 1, 3 | `ImplementsBucket`, `TableIsSafe`, `CallsEnd` |
| `MCAnyTimer` | 3 jobs for 2 slots, delays 0 and 2, functions that add and cancel anywhere, fairness | `RunsOnTime`, `Kept`, `CancelledStops`, `WaitReturns` |
| `MCAnyTimerCancel` | 2 jobs, delays 0, 1 and 2 | *violation* of `CancelledIsNotOver` |
| `MCMytbfMain` | a file of 7 bytes, rate 2, burst 4, one failing read, foreign signals | `TokensAreReal`, `HandlerTouchesLive`, `PacedCopy`, `Ends` |
| `MCRelay` | all four versions; 2 bytes one way and 1 back, buffers of 2; both descriptors may fail and fill | `InOrder`, `StopsForAReason`, `RelayEnds`, `BytesAreTaken` |
| `MCRelayer` | 2 threads, 3 jobs for 2 slots, one byte for each of two jobs, one descriptor that fails and fills | `EngineIsSafe` (when a job is over, the table, the lock), `EveryoneIsServed` with both jobs in the table at once |
| `MCStructures` | every structure and program of `Structures`, one at a time, under any sequence of calls | `ImplementsSequence` (the lists and the arrays), `HeapIsExact`, `BallsAreKept` (the ball clock), `ResultsAreRight` (josephus, polynomials, dictionary, saved tree), `TreeIsRight`, `LoopsEnd` |
| `MCTreeDelete` | the same | *violation* of `DeleteRemovesOne` |

A property that joins several programs is the conjunction of named parts, one per program, each
stated in that program's module (`CopiesAreRight == FileIsReceived /\ CopyIsRight`).

### Bounds, and why they are enough

* *Pool*: with one to two spare children, three slots are the fewest in which a
  child is killed while others work, and the table fills; with four, a child counted busy can turn
  idle and be killed before it tells, while others go on. Two clients let one be served
  while another queues; clients return for ever. The liveness run uses no symmetry;
  there the action constraint `LowestPid` hands out pids in order, which only
  renames processes.
* *Semaphore*: two units and four workers make main wait with workers at every stage.
  Different amounts and several waiters are covered by the proofs.
* *Programs*: two threads of a pool are the fewest of which a signal can wake the wrong one,
  and four numbers, two of them prime, pass through each more than once. Three children
  take unequal shares of four numbers. Three letters tell "next" from "other". With three
  adders one can fail, one hold the lock and one wait. A queue of 2 for 3 pieces and the end
  mark fills up.
* *Servers*: two children of `pool_static` and three clients let one wait for the other two; three
  processes beside main are one child of `par` for each client.
* *Copies*: three bytes and a buffer of two need a second read and allow a short write; the burst of
  3 lies above what one read takes. One read fails at most.
* *Signals*: two lines of two stars are the fewest with a signal within a line, between two and after the last;
  two signals of each kind tell pending once from queued.
* *Forks, daemons*: two commands let the first one's output meet the second; three numbers
  let the buffer hold some and the file others.
* *Arrays*: four places make the ring wrap at every offset; two values give equal and unequal ones.
* *Nodes*: three nodes have a first, a middle and a last one; three data order them in every way, and one
  more insertion than nodes makes `malloc` fail at each of its places.
* *Clock*: nine balls with stacks of 1, 1 and 2 instead of 27 with 4, 11 and 11: every
  stack fills and empties, and the clock is followed until `check` says that the balls stand in order (which it
  says too early, section 6).
* *Josephus*: seven people and counts of 2, 3 and 4. *Polynomials*: exponents 0 to 2, coefficients 1 and -1, so
  that terms cancel.
* *Trees*: four nodes with three ids are the fewest in which `find_max` errs, both turns happen and
  ids repeat. *Dictionary*: three lines of which words are prefixes of each other. *File*: trees of up to three
  of three characters, saved any number of times, cut after each character.
* *Buckets*: two buckets for one slot reach the full table, reuse of a slot and its
  races; sizes 0, 1 and 3 lie below, at and above what the bucket can hold. `BURST`
  exceeds `CPS` so that both the cap and its absence matter.
* *Timer*: two slots give ids before and after the handler's position, a third job finds
  the table full; `LowestAddress` hands out memory in order, which only renames jobs. Delay 0 is the boundary that
  the handler misses, 2 has the countdown's last step and one before it. What the last call has returned is left out of
  the states told apart (`ButRet`), since nothing depends on it.
  `time_remain` is kept at -1 once negative, since nothing tells lower values apart.
* *Copy*: seven bytes exceed the burst and the buffer; `ticks` is counted no further
  than `Length`, where `Rate` cannot fail any more. `MaxFails` is 1.
* *Engine*: two slots let the engine go from a job to the next, with all that one may do while the other waits;
  a third job competes for the table and one is refused. `ByNumber` adds jobs in order, which only renames them, and
  `WhileWatched` lets a descriptor change only where the program looks at it: bytes and ends come while its job runs,
  it fills up and drains while something is to be written to it. An input ends only where bytes come; the other
  direction of a job stops when the descriptor fails.
* *Relays*: two bytes and a buffer of two make every short read and short write.
  Only `Length` bounds the input; everything else is finite by itself.

### Fairness

* `PoolDynamic`: weak fairness of the parent and of each child: the kernel schedules
  every process. No client is made to come or go.
* `Programs`, `MytbfMt`, `Relayer`: weak fairness of each thread's steps and strong
  fairness of taking a mutex: a mutex that is free again and again is got in the
  end. glibc does not promise this of its default mutexes for an adversarial
  scheduler, but every library here releases its mutex around blocking calls or at
  the end of each round, and the properties that need it (`CallsReturn`,
  `CallsEnd`) are those a user would call starvation. Spurious wakeups and calls are never forced. A cancelled
  `thr_alrm` cannot forever be just leaving its sleep.
  In `Programs` the alarm of the letters' programs is not counted on, and the transfer
  has no fairness: its client may wait for ever for a server that has failed. The slow copies count on
  their alarm, which the interval timer repeats for ever. Clients, senders of signals and failing calls owe
  nothing. Since only one program runs, a formula per role (main, the k-th other process, its lock)
  says of that program what a formula of its own would say.
* `Structures`: a loop that has begun goes on; calls are never forced.
* `AnyTimer`, `MytbfMain`: the timer fires again and again (its interval is one
  second for ever) and a call that has begun goes on. The strong fairness of
  `AnyTimer` says that the handler, which is short, does not take all the processor's time.
* `Relay`: the loop goes on; `epoll_wait` serves its ready list in turn, as the kernel
  does. `RelayEnds` also assumes, in the property itself, that inputs end and receivers
  catch up.

Deadlock checking is off in the runs in which the program ends or exits, which
is every run but `MCPoolDynamicLive`.

## 4. Proofs

Eight modules hold theorems; `PROJECT.json` lists the ones a reader should know. Except for `TreeIsRight`,
the binary tree's, every safety invariant, action property and refinement that a passing run checks is also
proved, for every value of the constants that the named assumptions allow. `Spec => []Inv` is always shown
the same way: an inductive strengthening holds at the start and is kept by every step, one step of the proof
for each action, and implies `Inv`. Each strengthening was first checked by TLC on the run's instance.

**`PoolDynamicProofs`** (for all `MAXCLIENTS >= 1`, `MINSPARESERVER >= 1`,
`2 * MINSPARESERVER <= MAXSPARESERVER`, any pids and clients, any calls failing)

* `Counting` proves the inductive invariant `CountInv == TypeOK /\ PhaseInv /\ TallyInv /\
  RefillInv`. `CountsUsed` alone is not inductive: during a scan the counters lag behind the table,
  so `TallyInv` says what `idle + busy` amount to at slot k (the taken slots below k), and
  `PhaseInv` where the index points. `RefillInv` ties the loop counter of the refill
  loop to the idle children counted, without which `Replenished` does not follow.
* From it: `TypeCorrect`, `SlotFound` (the free-slot search never leaves the
  table), `CountsAreUsed`, `IdleToDelete` (`del_1_server` always has an idle child to
  its count, so `idle_count` never goes negative), `PoolReplenished`.
* `AllSupervised` adds that every living child is named by its own slot, and `TableKept` joins the two
  into the `TableIsKept` that the run checks.
* `CountsSettled`: while no signal is pending, every child that has said that it is busy is counted busy, also
  half way through a scan (`ToldInv`). That the counts are exact does not follow, and is wrong: with four slots
  TLC finds a child that is counted busy, turns idle and is killed before it tells, whereupon `del_1_server`
  takes it off `idle_count`. Nor is every child counted idle alive: one that dies tells nobody.
  `SettledCounts` therefore states what the parent may rely on: as many living idle children as it counts, but for those that
  have died without telling, and no more busy ones than it counts.

The assumption `SpareAssumption` is what the header's values (5 and 10) satisfy, and the
proof needs it: the refill loop's bound is `MAXSPARESERVER - idle_count`, which shrinks as
the count grows, so it stops at about half of the maximum.

**`ProgramsProofs`**, first of `MySem` alone (for any threads, amounts and initial value): `TypeCorrect`,
`MutualExclusion`, `WakeupsKept` (whoever sleeps while its amount is there is
about to be woken; it needs mutual exclusion, since a value may only be raised by the
thread that will broadcast), and `Refinement`: every step of the code is a step of `Semaphore` or
a stutter, with `Add` and `Take` as the points where a call takes effect.

Then of `SpecPrograms`, the specification that `MCPrograms` checks. `PlainSteps` says once that a step is
one of the program that runs and leaves the state of all others alone; each theorem then is about one program.

* `SemaphoreKept`: each unit is in the semaphore, with a worker, or on its way (`SemInv`); main has joined
  all workers before it frees, so none is inside.
* `LettersInTurn`, for any number of threads: each writing of a letter, also of the same one twice in a row,
  is held against the one before. `InTurn` needs to know whose turn it is: in `abcd.c`
  at most one thread has its mutex or may lock it, and none before all exist (`ChainInv`); in
  `abcd_e.c` the mutex excludes and `num` is ahead of what has been written exactly while its writer
  is about to change it (`TurnInv`).
* `MarkIsPrime`: the loop `j < i/2` finds exactly the primes above 4. A divisor that it leaves out
  can only be half of the number, which is then even, and 2 has been tried.
* `WorkImplemented`: both kinds of search implement `PrimeWork`, for any range above 4 and any number of
  threads or processes. In the pools a number that main has handed out is in one place: in `num`, with one thread,
  or tested (`NumbersInv`), and `num` says -1 only once the last has been taken, so main's join means
  that all are tested. Of the numbers shared out beforehand the k-th belongs to the child whose number is
  k's remainder, and each child has tested those before the one it is at (`SharesInv`); `ChildrenInv` counts whom
  main has waited for, whose cardinality `wait` by any child needs.
* `AdditionsCount`, for any number of threads or processes, also when `P` and `V` or anything else fails. `FileInv` says
  that the lock is held from reading to writing, so that what is read, printed and buffered
  follows from the number in the file. That needs every `lockf` to succeed (`unlocked = {}`); what is left
  without it, that the file never holds more than the additions made, follows from a second part: what anyone has read
  or printed is bounded by the additions made so far.
* `SignalsAnswered`: where the program is says what it blocks (`MaskInv`), and what was sent is answered or
  pending (`CountInv`).
* `PrintsRight` joins `NumbersWritten`, the daemon's file (`WrittenInv`: what is in the buffer at each place of the
  loop, within `fflush` too, where the file may get the last number twice), with the processes that fork. There the invariant is of two kinds (`ForksInv`): for every program but
  `sh`, `PlainStages` says what each of the two buffers may hold at each place and what has been written by then;
  for `sh` on a terminal, that buffers are empty between steps and rounds only grow.
* `CopiesAllRight` joins `CopiesRight`, the copies (permits are lost between load and store but never made
  up; what is read is written or in the buffer; a short write or one that is dropped spoils no more than its
  buffer), with `FilesReceived`: the queue holds the pieces between those
  received and those sent, and nothing else until the end mark (`FtpInv`).
* `ClientsServed`: a connection waits in the backlog, or has one owner, who answers it before it closes it, or is
  over (`OwnersInv`, `QueueInv`, `ServedInv`). The owner is not whoever has it open, since after `fork` two have.

**`MytbfMtProofs`** (any threads, buckets, table, rate, burst and sizes): `TableSafe` from `MtInv`, which says who
holds which mutex, that a bucket being made or destroyed is one call's alone and any other in the table at its
own place, and that thr_alrm has ended before the table is destroyed. `BucketImplemented`: only five steps touch a
bucket, each the abstract one of its name.

**`AnyTimerProofs`** (any slots, jobs and delays): `TimerInv` follows a running job's countdown, with one tick more
while the handler has still to come to its slot (`Late`), which gives `OnTime`; `JobsKept` and
`CancelledStay` come from the same invariant. They hold whatever the jobs' functions add and cancel: what a job added
within the program's own `at_addjob` or `at_waitjob` may lose is named by `crossed`, and `TableInv` says that nothing
else loses it. `TimerAssumption` takes the delays
to be natural numbers, 0 among them, with a greatest one, as an `int` has.

**`MytbfProofs`**: `GrantsCovered` and `TouchesLive` of `MytbfSig` for callers that do anything in any order, and with another
process's signals. `SigInv` says that a handler only adds, and only up to `BURST`, so that what was loaded is
still there at the store; a bucket exceeds `BURST` only within `mytbf_returntoken`. `TokensReal` compares with the
ideal bucket (`IdealInv`) and holds under `Foreign => SiCode`: a version that takes any `SIGALRM` for a tick is filled by
others. The same for the copying program, and `CopyIsPaced`, where `RateInv` adds that what has been written and what
is granted are paid for by ticks, and `PieceInv` that each byte written
stands less than a buffer away from its place, however many writes were short.

**`RelayFsmProofs`, `RelayerProofs`, and the last section of `StructuresProofs`**: the machine's buffer holds what was read and not written, behind what was
(`BufferInv`), so that `Pending` and the output are always the input so far. The lemmas need only that no two
machines share a descriptor's direction (`OneEach`), which is so in the loops (`BytesInOrder`, `NoneStopsEarly`) and in the
engine, where callers give a descriptor to one job and one end of it (`RelayerAssumption`). `OverExactly` and
`JobsAreSafe`, joined in `EngineSafe`, add the lock, the callers' jobs and the slot they have found (`RelayerInv`), and that the descriptors of every job in
the table are nonblocking, so the engine never blocks with the mutex held.

**`StructuresProofs`** (any sizes, numbers of nodes, data and calls, any failing allocation)

The definitions of these models are recursive functions, and what they give is itself proved by induction. The
library's induction theorems take an operator as a parameter and cannot be used, but the theorem that a well-founded
relation has a minimal element in every set that is not empty takes none: `Least` gets from it that a set of naturals
that is not empty has a least element, and every induction here is over the least number for which a statement
fails. `Walks`, `Recursion`, `Fixpoint` and `TreeRecursion` build functions in the same way, which shows that the
recursions of the model have a value. `SequencesImplemented` joins the two theorems about sequences and `ResultsRight` those about
josephus, the polynomials, the dictionary and the saved trees (`ResultsAreRight`); each part is a theorem of its own:

* *Lists* (`NodesAreAccountedFor`, `ListsAreSequences`). `ChainInv`: there is a path of distinct nodes from the head
  to the end (for a ring, to the head again), the nodes in use are those on it and those leaked, and in a ring the pointers back undo
  those forth. The path is the witness that replaces recursion: one lemma per call says what the call does
  to it (a node more at one place, or one less), and items and answers follow.
* *Arrays* (`ArraysAreSequences`). `ArrayInv` bounds `last`, `top`, `front` and `rear`; the lemmas say what the shifting loops
  and the remainder leave in each slot. `sqlist_union` is followed with the item its search overlooks.
* *Ball clock* (`BallsKept`). `BallInv`: the items of the queue and of the three stacks are as many as there are balls and
  together all of them, so each is there once. `main` ignores the results of `st_push` and `qu_enqueue`: none
  fails while the ring is larger than the number of balls. The order in which they stand at the end is no part of it,
  and is wrong (section 6). That `check` compares slots that have been written needs `RINGSIZE <=
  NR_BALL + FIVEMIN + 1` (32 and 27 + 10 + 1 in the code): the tail is round the ring once before `check` first looks.
* *Josephus* (`JosephusRight`). `RingInv`: from the pointer on, the ring passes once over each of the living. A
  window of the ring, renumbered from the one behind the dead, gives the recurrence's step. Counts are at
  least 2; with 1 a pointer is read uninitialised (section 6).
* *Polynomials* (`SumRight`). `PolyInv`: every term of either polynomial is settled, that is, in the list with its sum or
  cancelled and out of it, or still to come behind one of the two pointers; the list so far is in order, though
  its last link may be stale. The exponents must be finitely many (`PolyAssumption`), else a list would not end.
* *Dictionary* (`DictionaryRight`), up to the first line that is not a key of letters with a description. `TrieInv`: nodes
  are closed under prefixes and hold a word's last description.
* *Saved trees* (`LoadedRight`). `SaveInv` says that the file begins the text of the tree that was saved last by a
  `save.c` that could open it. `AllRead`, by induction over the
  tree: where the file, as far as it goes, reads as the text of a subtree, `load_` either gives that subtree and stops right behind its
  text, or fails because the file ends before. What it may miss is therefore no more than the end that it does not look at.

Only model-checked:

* `TreeIsRight`, the binary tree over explicit pointers: after `find_max` has erred it is a graph rather than a
  tree, and before, each turn re-hangs a subtree below a node that a walk has to find. Its proof would need the
  reachable nodes, the heights and the order of both sides as one invariant over paths that branch; TLC
  checks it over four nodes.
* Liveness everywhere: it depends on fairness, which is out of the prover's reach. `ENABLED` likewise.

## 5. Plan

Done, in this order: the pool with its proofs, the semaphore with its refinement proof, the token buckets,
the timer, the relays and the engine, the programs of `Programs`, the data structures, the proofs of the
safety of all of these but the binary tree. What is left:

1. `TreeIsRight` for any number of nodes, with the ways to a node (as `LoadedRight` has them) instead of a path.
2. The calculator of `C11/line/compute`, when it is finished.

## 6. Disagreements found

Shown by runs:

* **A client may lose its connection** (`server.c:131`). Between a child's return from
  `accept` and its store of `STATE_BUSY` its slot says idle, and the parent may kill it. The comments at
  `server.c:251` and `:34` say that only a child without a client is killed.
* **A cancellation may succeed after the job has run** (`anytimer.c:179-181`): the handler ends the job
  between the test for `STATE_OVER` and the store over it, where `anytimer.h:28` promises `-EBUSY`.
* **Deleting one node may lose others** (`C11/tree/btree/main.c:162`): `find_max` calls `find_min` on the right
  subtree, so that the subtree hung below what it gives replaces what was there.

Met while modelling: the code against what it says of itself, present in the models, where the properties say what is
left:

* **The parent may sleep on too few children** (`server.c:64-66`). A child that exits after a failed
  `accept` does not notify the parent, which may sleep with no idle child alive (`server.c:17` asks for
  five of them, `server.c:240` says that every change is notified). TLC: all children of a new pool fail in `accept`.
* **A refused lock is taken for one that was got** (`lockf/add.c:37`): nobody looks at the result of
  `lockf`, and an addition is lost; `lockf/add.c:12` says that no two read and write at the same time.
* **A short write is not continued but begun again** (`mycopy.c:60`, `slowcat.c:84`, `slowcat1.c:81`,
  `sysio/mycopy.c:46`, and `mytbf/main.c:83`): the comment on each of these lines says that the next write goes on
  behind what was taken; `pos` is set and never used. Bytes are repeated and others never written.
* **The daemon may write a number twice** (`signal/daemon/mydaemon.c:63`): its handler closes the stream also when the
  signal falls within `fflush` (115), after the write and before the buffer is marked empty. Line 100 says
  that one is written each second.
* **The client may receive its own request** (`myftp_msg/cilent.c:75`): both programs ask the one queue for any message,
  so the assertion at `cilent.c:80`, that only data or the end comes, fails.
* **A job may be lost** (`anytimer.c:122-137`): a function that calls `at_addjob` while the program is inside it is
  given the same slot, and the program's store overwrites its job; both hold the same id, which `anytimer.h:9`
  promises to be the job's.
* **`at_waitjob` may never return** (`anytimer.c:114`): a delay of 0 is accepted, but the handler decrements
  before it compares (52-53), so that the job never runs and its waiter waits for ever; `anytimer.h:32` says that it is released.
* **The ball clock stops out of order** (`C11/line/ball_clock/main.c:25`): `check` has `/` where `%` was meant, so the clock of 27
  balls stops at minute 7920 instead of 33120; the task (`C11-数据结构.md:53`) asks for the order from 1 to 27.

Smaller ones:

* `server.c:250`: `del_1_server` decrements the `idle_count` that bounds the loop, so one pass kills
  half of the surplus, and a pool whose children all wait in `accept` stays above
  `MAXSPARESERVER` (`server.c:18`).
* `server.c:131-134`: a child counted busy that turns idle and is killed before it tells is taken off `idle_count`, so the
  count is one too low until the next scan (`SettledCounts` says no more than that it is never too high).
* `server.c:153-162`: loading a state twice, the parent aborts when the child turns idle between.
* `anytimer.c:199-200`: the job is freed before its slot is cleared; a signal between reads freed memory, and a job
  added by a callback may be given that memory: two slots name it until the old one is cleared, and meanwhile each
  tick counts it down twice.
* `mytbf/mytbf.c:44-45`, `mytbf_sa/mytbf.c:50-57`: `SIGALRM` gets its default action back before the
  timer is stopped; a tick between ends the process.
* `mytbf/main.c:71-78`: after a failed read `len` is -1 and `size + 1` tokens are returned:
  `Rate` therefore allows one byte more for each failed read.
* `select/relay.c:139`: a machine in `STATE_Ex` is not driven while the other waits in
  `select`, so its error is reported late or never; `select/relay.c:17` places it among what is driven
  unconditionally. `poll` and `epoll` wake for the hang-up, and spin if it is not watched.
* `relayer.c:138-147`: the engine's only cancellation points are in `fsm_driver`; with every
  job over it meets none and `exit` hangs, and when it ends it holds `mut_rel_job`, which is
  then destroyed locked.
* `myftp_msg/cilent.c:75-76`: the result of `msgrcv` is kept in a `size_t`, so its error is never below zero
  and the assertion at line 80 fails on the zeroed message instead.
* `myftp_msg/server.c`: a server that cannot open the file ends without a message; the client
  waits for ever.
* The prime searches' loop `j < i/2` takes 4 (and 1) for a prime; `LEFT` keeps both out of range.
* `ipc/xsi/sem/add.c:36`: `errno != EINTR || errno != EAGAIN` is always true, so an interrupted
  `semop` fails instead of being tried again. A `V` that fails (51-54) ends its process with the
  semaphore down, and the others wait for ever.
* `process_basic/primer1.c` does not wait for its children: main may end before the primes are printed.
* `mycop.c:34-39`, `webdl.c:57`: the results of `fputc`, `fwrite` and `fclose` are not looked at: a copy onto a full disk
  ends with success.
* `webdl.c:55` tests `len` where the result of `fread` is in `len1`: the loop never ends.
* `par/server.c` never waits for its children; `pool_static/server.c` does not replace one that has ended
  after a failure; `basic/server.c` ends as a whole when one client's answer fails.
* `sh.c`: an empty line runs the last command again (or, as the first, an uninitialised one); when `exec` fails and the
  output is a file, the child writes the prompt a second time. `mysu.c`: a child whose `exec` fails
  goes on into the parent's `wait`.
* `signal/daemon/mydaemon.c:63`: the handler calls `fclose` on a stream that may not be open yet, or that main is writing to.
* `sqlist.c:74`: the search stops before the last item, so `sqlist_union` adds it again.
* `simple/head/list.c:81-90`: `list_delete_at` reads through `NULL` for every position behind the end but the second one.
* `squeue/list/queue.c:8-11`: `queue_en` has no `return` for its success; what it gives is left over in a register.
* `double/lib1/llist.c:31-33`: when the second allocation fails the first is not freed; in all the libraries
  a mode that is none of the two leaks the node (47-50).
* `josephu/jose.c`: with a count of 1 the pointer to the one before is read uninitialised, and `main` does not
  test what `jose_create` returns. `polynomial/poly.c`: `poly_create` allocates the size of a pointer (`sizeof(me)`), and
  `poly_union` drops terms that it does not free.
* `ball_clock/main.c`: `time` starts uninitialised.
* `retrieval/trie.c`: a line without a colon is read beyond its end (26), and a key with a character that is not one of a to z
  indexes outside `ch[26]` (71). The root starts uninitialised, and a proper prefix of a stored word is found, with an empty description.
* `save_load/save.c` ignores every error of writing. `load` exits with an error at the first missing parenthesis, so a
  file cut off is refused (or whole but for ends that it does not look at); but `main` ignores that `save` could not open the file
  (109-110), so that `load` draws the tree of an earlier run, and `load` takes a file that it cannot open for the empty
  tree (`load.c:87-88`) and ends with success.
