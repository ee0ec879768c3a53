# Models and proofs of computer_technologies

The repository holds the programs of two semesters: exercises on interprocess
communication (`3_sem`) and on threads, bit arrays and sockets (`4_sem`). Each
directory is a system of its own. This directory has TLA+ modules for them, the
TLC configurations that check them, and TLAPS proofs of the main results.
`PROJECT.json` lists the runs, what each definition models, a mutant for every
property, the hazards of the code and the divergences found.

## 1. The systems

| system | state | operations | what is hard |
|---|---|---|---|
| `3_sem/Sharmem` | 7 semaphores with SEM_UNDO, one page of shared memory, key and identifiers | `write_sharmem`, `read_sharmem`: create/attach, handshake, transfer loop, end | any number of both run at once; kills; removed identifiers; who removes the set |
| `3_sem/Queue` | a System V message queue with a fixed key | parent and n children that print in turn | the queue outlives a run; two runs share it; failed `fork()` |
| `3_sem/Signal` | signal masks, pending signals, `BIT`, `IS_CHILD_DIED` | child sends a file bit by bit as SIGUSR1/2, parent answers with SIGUSR2 | signals do not queue; death of either side; stop and continue |
| `3_sem/Fifo` | a general FIFO for pids, a private FIFO for each reader | `read_fifo`, `write_fifo` | many of both; `select()` timeout; end of file against death; SIGPIPE, ENXIO |
| `3_sem/Select` | pipes and buffers of a chain of children | parent relays a file through n children with `select()` | non-blocking relay, ends of files, limits of the array |
| `3_sem/Test_task` | – | six exercises | 5: a shared counter; 6: `waitpid()` before the pipe is read |
| `4_sem/Bit_array` | words, number of bits, capacity, the block they are in | construct, destruct, resize; one-bit and region calls; find | shifts, word borders, sizes in words and bytes, failed `realloc()` |
| `4_sem/Integral` | parts of an interval, a thread for each | divide, create, join, add | spare and empty threads; what counts |
| `4_sem/Network`, connections | server threads, worker processes, sockets | `run_server`, `run_worker` | lost and late hellos, missing and crashing workers, partial failure |
| `4_sem/Network`, the worker's threads | parts, results, table of CPUs, the memory of them | `Integrate` | threads that are not joined; core ids as indices |

The systems do not interact with each other. Inside each, processes meet only
in kernel objects (semaphores, pages, queues, FIFOs, signals, sockets), which
the modules model by what the code relies on.

What makes each correct:

* Sharmem: one writer and one reader at a time are in session; the page is used
  in turn; the reader prints the writer's file and nothing else; success is not
  reported for less; nobody sleeps for a partner that died.
* Queue: the numbers come out in order, and success means all of them.
* Signal: no bit is lost; output is a prefix of the file; success means all of
  it; neither process outlives the other.
* Fifo: one writer for each reader; a reader prints a prefix of one file; who
  meets a partner comes to an end.
* Integral: the sum is one pass over the interval, whatever the number of threads. It
  is not when they are more than the CPUs (a finding).
* Bit_array: every access is to memory that it has and that has a value; calls of a
  kind agree on which bit an index names; the whole words that a growing array gains
  are zero; find answers with a bit that is there.
* Worker's threads: the result has every part once, each by the rule that the code
  has, which is not the trapezoid rule; memory is freed only when no
  thread that counts uses it; threads are spread over cores and processors.
* Select: it ends. Test_task 6: the file is printed, and success means it was.
* Network: a printed result has each part once; no worker is given a task
  unless all tasks have workers; server and workers come to an end.

## 2. Modules

| module | models | depends on |
|---|---|---|
| `FileCopy` | abstract specification: copiers print one file block by block and succeed only with all of it | – |
| `SysVIPC` | the System V calls of `sharmem_config.c`: sets, segments, `semop` with SEM_UNDO, exit and kill | – |
| `Sharmem` | `writer()` and `reader()` | `SysVIPC`, refines `FileCopy` |
| `Queue` | parent and children of one or more runs | – |
| `Signal` | parent and child | refines `FileCopy` |
| `Fifo` | `write_fifo` and `read_fifo` | – |
| `Integral` | division, threads and sum | – |
| `BitArray` | every function of `bit_array.c` but `bit_array_length`, which returns a field | – |
| `Calc` | `calc.c` and `pthread.c` of Network: a worker's task | – |
| `PipeCopy` | Test_task 6: parent, child and pipe | – |
| `Select` | the chain of children and the parent's `select()` loop | – |
| `Network` | the server's threads and the workers | – |
| `SharmemProofs`, `QueueProofs`, `SignalProofs`, `FifoProofs`, `NetworkProofs`, `BitArrayProofs`, `CalcProofs`, `PipeCopyAndIntegralProofs` | theorems | the modules named |
| `MC*` | instances for TLC: symmetry and the values of constants. `MCPipeCopyAndIntegral` runs two small programs side by side, which share nothing | the modules named |

`FileCopy` is what a reader of Sharmem and the parent of Signal promise by
different means. The reader of Fifo does not promise it: a writer that dies looks
like the end of its file, so `Fifo` states what remains true instead
(`StreamIsPrefix`, `ShortCopyMeansWriterEnded`).

### How state and actions correspond to the code

In every module `pc` (or `main`, `getter`, ..., `worker`) names the call a
process is about to make, mostly by the name the source gives it
(`wait_prev_connect`, `p_empty`, `end_wr`, ...). An action is one call that other
processes can observe, together with the private statements up to the next one.
A failing call is an action or a disjunct of its own where the code handles it;
`Faulty` says whose calls may fail (`CreateMayFail` in `Integral`).

* **Sharmem**: one action for each `semop()`, each other system call and each
  access to the page; the size and the data of a page are two accesses. `val` are
  the semaphores, `adj` the undo adjustments of each process, `semKey`/`shmKey`
  what the key finds, `semId`/`shmId` what a process holds. Identifiers are named
  after the process that created the object, which does so once. A removed set
  makes a call fail with EINVAL and wakes a sleeper with EIDRM; a removed segment
  lives on for those attached.
* **Queue**: messages have a type and no content; the model keeps how many of
  each type are in the queue. `num_proc` is each run's own, from its argv (`main.c:7`):
  child c of a run waits for type c and answers with `num_proc + 1` (`main.c:33`, `55`), so
  the answer type of a short run is a turn of a longer one on the same queue.
* **Signal**: a file is a sequence of letters, a letter a sequence of bits.
  Signals are blocked except in `sigsuspend()`; a pending signal is a flag, so a
  second one is lost, which is the property `NoSignalMerges`. A handler runs
  inside the step in which `sigsuspend()` returns.
* **Fifo**: `OpenGeneral` is the blocking `open()`: it counts as an end and wakes
  sleepers of the other side at once. Which process has which end open follows
  from `pc`. A private FIFO without a writer since it was opened is not readable
  for `select()`, and at its end for `read()`; this is why the reader needs the
  `select()`.
* **Integral**: exact arithmetic on a grid instead of `long double`; a rectangle is
  the x it starts from and a sum is a bag of rectangles. Its definitions have names of
  their own (`IntegralInit`, ...) for the sake of the modules that extend `PipeCopy` too.
* **Network**: `trouble` is chosen once, in `Init`: a run meets timeouts, errors and
  a crash, or none of them. The interval is measured in units of one thread's share,
  with exact arithmetic instead of `double`, and `Units(i)` are those of task i. A
  part is the number of the task it answers, the sum a sequence of parts. `end[w]` is
  the server's end of a worker's connection: in the backlog, open or closed. A hello
  lies in the socket of a worker or not. Under `Faulty` every call that the code checks
  may fail, `select()` and `recv()` of a handler and `socket()` and `set_keepalive()` of a
  worker among them.
* **Calc**: what a worker does between its task and its answer, which in `Network` is one
  step. Exact arithmetic on a grid; a result counts how often f was added at each point, and a
  part need not be a whole number of steps: `while (x < end)` has a turn for every step that
  begins before the end. `memory` is the one block that holds the parts of all threads, and
  `touched` the threads that used it after `free()`. `core_ids` is what `/proc/cpuinfo` lists;
  parsing it is left out.
* **BitArray**: one action for each function, with any argument; the two find calls
  are one action, as they change nothing and read the same words. A word is the set
  of the positions of its ones. `W` bits make a word, `IntBits` an `int`, `Byte`
  bits a byte, and an index has `IndexBits` bits; in the code they are 64, 32, 8 and 64.
  Numbers wrap at `2^IndexBits`, those of bytes too: `capacity * WORD_SIZE` can be 0, and
  `realloc()` of 0 bytes then frees the block to which `buff_bits` goes on pointing.
  `1 << n` on an `int` is undefined from n = 31 on: the
  model has what gcc on x86 makes of it without optimisation, a shift by n mod 32
  with the sign extended to the word. `alloc` is the block's size and `written` the
  words of it that have a value; an access outside the block, or a second `free()`, makes
  the array `"undefined"`, and nothing follows.
* **PipeCopy**: a block is its number in the file. A process that has ended has
  closed its ends of the pipe, and the parent's `waitpid()` returns when the child is
  `"done"`.
* **Select**: amounts instead of contents. `con` is `inf_con`, with the parent's
  two descriptors of a pair as booleans, `ReaderOf` and `WriterInto` tell who else
  has inherited an end of a pipe: the children forked later.

## 3. Runs

A system's run checks its safety and liveness together, in the presence
of everything the module lets go wrong; `PipeCopy` and `Integral`, two small programs that
share nothing, run side by side in one. Deadlock is not checked: the programs stop.
A violation run shows what a script, comment or README of the repository says and
the code does not do.

| run | instance | shows |
|---|---|---|
| `sharmem_writers` | 2 writers, 1 reader, 2 pages, a kill, I/O errors | a writer's success means delivery; refinement of `FileCopy`; a connected writer ends; the handshake does not hang |
| `sharmem_crash` | 2 and 2, 1 page, a kill | NUM_PROC is exact, sessions exclude each other, with removed sets and segments; until the second reader gets in the page is never shared by two critical regions and the closing `semop()` never sleeps |
| `sharmem_start_race` | 1 and 1, violation | the writer's NUM_PROC check can come before the reader's connection, and both give up |
| `queue` | 2 runs that may share the queue, 1 to 3 children each, 2 kills, `fork()` errors in one | a run alone prints in order, success means all its numbers, and undisturbed it completes; alone or not, of each type the messages taken and queued are no more than the lines printed and turns given for them |
| `signal` | 3 letters of 3 bits, 2 kills, 2 stops, errors | no merging; refinement: a prefix, and success only with all of it unless the child was stopped or failed; neither process outlives the other; delivery |
| `fifo_pairs` | 2 and 2, 2 blocks, timeouts, a kill, errors | one writer for each reader; the stream is a prefix; a short copy means a dead writer; who meets a partner ends |
| `network` | 3 workers, 2 tasks, timeouts, failures, a crash | a printed result has every unit of the interval in exactly one part; all or nothing; server and workers end; without trouble the result is printed |
| `bit_array` | words of 4 bits, indices of 5, ints of 2, 6 indices, 4 regions, failing `realloc()` | memory is safe but for four named cases; gained whole words are clear; one-bit calls agree; regions count from the top; find |
| `calc` | up to 3 threads on 9 machines of 0 to 4 processors, failing calls | every part once in the sum; memory freed only under threads that do not count; spread over cores |
| `pipe_copy_and_integral` | up to 4 blocks, a pipe of 3, 2 kills, errors; beside it up to 3 threads on up to 3 CPUs | PipeCopy: the parent reads only when all is in the pipe; success means all of it; what the pipe has room for is delivered. Integral: with no more threads than CPUs the SUM is one pass |
| `integral_sums` | up to 3 threads on up to 3 CPUs, violation | with more threads than CPUs the SUM is not one pass: the threads that the comments call empty are added |
| `select` | up to 3 children, 2 units, violation | the parent never ends |

`TypeOK` of each module but `Select` was checked with TLC on the same instances and is proved
where the module has proofs with a typing theorem; it is not listed in the runs.

What TLC showed beyond these runs, with the same modules and other constants or
formulas:

* Sharmem with one writer, two readers and a kill: SYNC_WR is posted without
  SEM_UNDO, so a reader killed after it leaves a token. The writer then works with an
  EMPTY that the next reader sets to 1 again, and `PageExclusive` would fail: a page is
  overwritten while it is printed. Hence `OneReaderIn` in the properties: they hold while any
  number of readers may be started, create the set and the segment and wait, until a second one
  gets past its ALONE_RD `semop()`. The kill leaves the code without them from there on.
* Sharmem with two pairs, nobody killed: a reader may be attached to a segment that the
  previous writer has just removed; it reads a size of 0 there and returns success, and
  a writer succeeds whose file nobody has printed. So delivery and the refinement end with
  `OneReaderIn` also without a kill; `PageExclusive` does not.
* Sharmem with two writers and one reader, nobody killed: when the first writer gives
  up on its early NUM_PROC check, the next writer resets FULL and waits at its
  handshake for a reader, while the reader waits at FULL. Hence the last disjunct of
  `ReaderEnds`.
* Queue: a run started after one whose parent was killed finds the old messages,
  takes an old answer for one of its own and can return success before its numbers
  are printed. Hence `Alone` in its properties. With different numbers of children it need
  not be an answer: a run of 2 waits for type 3, which is also the turn of the third child
  of a run of 3, and goes on with it although nobody has printed a line. `AnswersBacked`
  therefore counts turns and answers of a type together; that an answer stands for a
  line is true only of runs with one `num_proc`.
* Signal with a stop: SIGCHLD for a stopped child ends the parent with success; the
  same when the child fails to read the file. `Backed` keeps both out of the refinement.
* Fifo: a writer that opens the private FIFO just before its reader times out writes
  into it, closes it and returns 0, and nobody prints its file.
* Calc: `f2` is one step ahead of `f1` in the first turn only; from the second on
  f2 is the point at x instead of x + step. So of each part the trapezoid of the last step is
  missing, and f at the end of the first step is there twice in its place; where a part is not
  a whole number of steps, the last one counts as a whole. `Expected` says so, and
  `EveryPartOnce` claims no more than that each part is added once. A core id
  that was seen before is the index of its CPU in the table: ids with gaps write behind the table
  or count a processor to another core, and where no ids are listed `i % 0` is
  computed. Threads made to keep all processors busy are not joined, and store their
  `res` in freed memory while `Integrate()` returns.
* BitArray: an `int` is shifted in the one-bit calls, so the indices k and k + 32 of a
  word are one bit, and bit 31 sets 31 to 63; the region calls number the bits of a
  word from the top and the one-bit calls from the bottom; a region that begins and
  ends inside one word has its mask shifted the wrong way; find from the middle of a word
  may miss what is in it or answer with an earlier bit, and from the end of an array that
  fills its block it reads one word too far; an array of nearly 2^64 bits has 0 words, and
  only so does an array ever shrink; bits gained inside the last word may be ones;
  `realloc()` is asked for 8 times the bytes that are used, a product that wraps around; after
  it failed, the array's sizes are larger than its block. `UndefinedOnlyThen` names four
  cases: a failed `realloc()`, the wrap of the number of words, the wrap of the bytes, and find
  at the end of a full block.
* PipeCopy: a file longer than the pipe makes the child wait for room and the parent
  for the child, for ever (`DeliversWhatFits` excludes it); if the child fails in the
  middle, the parent succeeds with a part of the file.
* Select: the loops over the pairs leave out the last child, so with one child
  `select()` waits for nothing; with more, the parent looks at EMPTY where it means FULL
  when it writes, closes `fd_wr < 0` (descriptor 0 or 1) instead of `fd_wr`, and the loop
  that frees the buffers never counts up. Children keep their neighbours' pipe ends open.

What the properties leave out, because the code does it wrong there: Sharmem after a second
reader is in; a stopped or failed child of Signal; two indices of a word of BitArray that are
32 apart, a region inside a word, and the word of a find that begins in its middle; the spare
threads of Calc, which use freed memory, and core ids with gaps; a file of PipeCopy longer
than the pipe, and a child that fails. For these the list above, and the notes of the hazards
in `PROJECT.json`, say what happens; the properties bound it, and do not catch it. NUM_PROC
and the locks of Sharmem are about semaphores: `NumProcExact` and `SessionExclusive` do not
see two ends on different segments. `OneWriterEach` of Fifo does not see a reader that dies of
SIGPIPE, nor `WriterEnds` a file that is lost after a timeout.

### Bounds

`FileLen` of 2 has a first page, one that follows another, and the empty page that ends a
transfer; 1 is used where four processes make the state space large: a page and the empty one
are enough for both ends to want the page at once. Two of each kind is the least at which one
can disturb a pair; a third would wait at the same semaphore or FIFO as the second. One kill
reaches every point of every process; two are allowed where the second can hit what the first
left. `Capacity` 1 makes every write to a FIFO wait. In `Calc`, `Length` 12 is divisible by
every number of threads, which is a choice of the unit (that of a part), and the step 5
divides no part, so that a turn overshoots. In `Integral`, `Length` 6 is divisible by 1, 2 and
3 and the step 2 does not divide the part of 3, so a rectangle sticks out; `Step` is no longer
than a part, as the code's 10^-7 of 17 is not unless there are 170 million threads. `Network`
has a worker more than tasks, so that one is left in the backlog. `BitArray` has words of 4
bits because a mask must be wrong in the upper half of a word, `IntBits` 2, and right in the
lower, and 5 bits for an index, so that a capacity of 8 words makes its bytes wrap; its
indices are the first bits, those at the borders of words and near the largest number, and its
regions lie inside one word, fill one, cross a border and cross a whole word. `Calc` has more
processors than threads and fewer, even and uneven cores, ids out of order, with gaps and
none. `PipeCopy` has files that fit the pipe exactly, with room and not at all. Two runs of
`Queue` are enough for one to disturb the other, and three children give a first, a middle and
a last one. `MaxKills`, `MaxStops` and `MaxCrashes` count what comes from outside; nothing
else is bounded.

### Fairness

Weak fairness of each process or thread: the kernel runs what is not asleep.
Kills, stops, continues and crashes have none; an error is one outcome of a fair
call. Timeouts (`select()`, SO_RCVTIMEO) are fair, as time passes. In `Network`
each broadcast of an endless loop may be lost, but to a worker that keeps listening
one comes through; where `Slow` holds the worker may give up before. No strong
fairness is assumed. A run of `Queue` need not be started, but goes on once it is. In
`PipeCopy` parent and child are fair and errors and kills are not. `BitArray`, `Calc`
and `Integral` are checked for safety only: sequential code, and threads that do not
wait for each other but in a join.

`ConnectedWriterEnds`, `WriterEnds` and their like are leads-to properties from the
point where a partner has been met: a process that waits for a partner who never
comes waits for ever by design. `Delivers` of `Signal` and `Completes` of `Queue`
name the disturbances after which they promise nothing.

## 4. Proofs

TLAPS proves, for all values of the constants under the assumptions named in the
modules:

* `SharmemProofs!TypeCorrect`: TypeOK, which includes that no semaphore becomes
  negative. The strengthening `Attached` says that a process about to use the page
  has it attached.
* `SharmemProofs!SessionsExclude`: one writer and one reader in session for each
  set. `LockInv` is inductive: nobody knows the identifier of a set that is still to
  be created (`Fresh`); a process in session has the adjustment that gives its lock
  back (`Adjustments`); a lock that somebody holds has the value 1 and one holder
  (`LockCount`). The adjustment is what survives a kill, so the lock is counted by
  adjustments and not by program counters.
* `SharmemProofs!NumProcCounts`, for any number of writers and readers, with kills,
  errors and removed sets. `Undo`: a process that has connected and is not yet gone is
  one whose adjustment will take its 1 from NUM_PROC back; `Count`: NUM_PROC is the number
  of these processes. The step that removes a set or ends a process changes both sides.
* `SharmemProofs!PageExcludes`, `EndsNeverBlock`, `SuccessDelivers` and `CopiesFile`, of
  `Spec` as it stands: any number of writers and readers, any files, errors and kills.
  `CopiesFile` is the refinement of `FileCopy`: Init maps to Init and every step up to the
  point where a second reader is in to a step or a stutter. The invariant is
  `PairInv(rd)` for every reader rd of which `OnlyReader(rd)` holds: a step by which another
  reader gets in ends it, and one by which any other process moves leaves it alone
  (`AsideStill`). It has named parts, of which each needs those before:
  - `Handshake`: SYNC_WR is posted once and lets one writer in, and after it no second
    writer meets the reader;
  - `Segments` and `ReaderAttached`: all who are attached use the same segment until the
    writer that met the reader removes it;
  - `Token`: one token goes round between EMPTY, the writer, FULL and the reader, so the page has
    one user, and the token is in EMPTY when the reader's closing `semop()` needs it;
  - `Transfer`: what the writer has put in the page is at most one page ahead of what is printed;
  - `Copy`: what is printed is the writer's file up to there.

  That no second reader has got in is what the properties need and not what the proof
  needs: TLC violates them without it (section 3).
* `QueueProofs!TypeCorrect`; `AloneInOrder` and `AloneSuccessIsWhole`, for any number of
  runs and children, of a run beside which no other was started. The invariant says for
  such a run where the turn is: in the queue as the message to child i, with the child
  before or after it prints, in the queue as the answer, or lost with a killed child; and
  the numbers printed are those before it. Nothing is said of a run that is not alone, and
  one that is alone again later cannot be: runs do not return to their start.
* `QueueProofs!AnswersAreBacked`, for any number of runs that share a queue, each with its
  own `num_proc`, whatever killed ones leave in it. `BackedInv` is a count for each type: the
  answers that parents and the turns that children have taken, the messages queued, and those
  that children and parents are still about to send are together no more than the lines printed
  and the turns given for that type. A kill can lower the left side and nothing raises
  it but a line or a turn.
* `SignalProofs!TypeCorrect`, `SignalsDoNotMerge`, `OutputCorrect` and `Implements`: for every
  file and letter size, with kills, stops and errors. `OneSignal`: at most one signal of the
  protocol is on its way; `InStep`: the child is level with the parent or one bit ahead;
  `Agrees`: the bits taken are those of the letter sent; `ExitInv`: a child that ended by
  itself had its last letter acknowledged, and while nothing stops it SIGCHLD means its end.
* `FifoProofs`: `TypeCorrect`, `PrivateIsPrivate`, `StreamsAreWhole` and
  `ShortCopyIsExplained`, for any number of readers and writers, any file and capacity.
  `PidInv`: the pid of a reader is with it, in the general FIFO once, or with one
  writer. `WriterInv`: what its reader has printed, holds and will find in its FIFO is
  the part of the writer's file that it has read, less a block not yet written.
  `ReaderInv`: a reader at its end of file has an ended writer and an empty FIFO; a FIFO is at
  its end only when `served`, which is why the reader may trust the 0 that `read()`
  returns after its `select()`. `StreamsAreWhole` needs that there is a writer at all.
* `NetworkProofs!TasksTile`: for every number of machines and threads the tasks of
  `divide_work` cover each unit of the interval once. `Typing`, `PrintedIsWhole` and
  `NoTaskAlone`, for any number of workers, with every failure, timeout and crash:
  `Ends` and `Conns` say that a worker's connection is accepted at most once and that
  none is left open when too few came; `Given` that a worker has and answers the task
  its connection was accepted for; `Sums` that the parts added are those of the first
  tasks.

* `BitArrayProofs`: `TypeCorrect`, `AccessIsSafe`, `GainedAreClear`, `OneBitCallsDoAgree` and
  `RegionCallsCountFromTop`, for every width of word, int, byte and index. The invariant is
  that the words of an array for which no `realloc()` has failed and no size in bytes has
  wrapped around are no more than its capacity, and this no more than its block, all of which
  has a value; `MemorySafe` is not inductive without it. The two action properties rest on
  lemmas on division and remainders: two indices are in one word and at one position of an
  int, or they differ in the mask; a region is the union of its first, middle and last words'
  masks.
* `BitArrayProofs!FindsAreGood`: both find calls answer with the first bit of their
  kind, as far as the mask of the first word lets them, for every content.
* `BitArrayProofs!RoundUpGrows`: `roundup_word64_to_pow2` returns a natural number no smaller
  than its argument, for every width; the memory theorems rest on it. The argument has a
  highest bit (`TopBit`), the smearing sets every bit below it (`SmearIsInitial`), and
  the value of a set of bits is a sum whose order does not matter (`SumOfOthers`), so that
  one added to the smeared number is the power of two above. The prover cannot use
  an induction theorem; each induction is done as a descent to a least counterexample, which
  `WellFoundedInduction` gives without an operator parameter. What defines `2 ^ b` is assumed
  up to the width (`PowerAssumption`), since the prover knows no law of powers; TLC evaluates it.
* `CalcProofs!FreedIsUnused`, for every machine and number of threads. `JoinInv`: until
  main is past its joins nothing is freed, and the threads before `i_thread` have ended; so
  when it frees, and no `pthread_create()` has failed, all that count have.
* `CalcProofs!EveryPartIsAddedOnce`, for every length of a step. `SumInv`: what a thread
  stores is the sum of its own part, and main has added those that it has joined. `PartSum`
  gives what `CalcIntegral` adds at each point of a part, and `SumNext` what the first n parts
  add together; of all parts this is `Expected`, which has the slip of each part in it.
* `CalcProofs!SpreadHolds`. `TableInv`: after i lines of the list of CPUs the table of
  `get_mycpu_info` has the cores that occur in them, and with each its processors in the order
  of their lines. Where all cores have as many, a core and a turn name one processor.
* `CalcProofs!TypeCorrect`, on every machine whose table is not overrun: `SlotsInv` says that a
  slot in use names a processor that is there, `SumIsSmall` that a thread's sum has a point at
  most four times, `ThreadsInv` that parts lie in the interval.
* `PipeCopyAndIntegralProofs!IntegralSumIsWhole` and `IntegralTypeCorrect`, for every number
  of threads and CPUs; the first is about runs with no more threads than CPUs. `IntegralInv`:
  each stored sum is that of the thread's part, and main's is `SumTo(i_thread)`, that of the
  threads it has joined: a join adds the next part, or a rectangle at the origin
  (`IntegralSumNext`). Without spare threads the sum of all is a rectangle at every multiple
  of the step in every part; over a point there are then the last one of its own part, and
  perhaps the last one of the part before (`StartsOver`).
* `PipeCopyAndIntegralProofs`: of `PipeCopy`, `TypeCorrect`, `OutputCorrect`, `SuccessIsWhole`
  and `ReadsTheWhole`, for every file, pipe and disturbance. Output, the parent's buffer and
  the pipe are in this order the blocks that the child has written, and the parent takes none
  before the child has ended.

Only model-checked: liveness and ENABLED, which the prover does not handle:
`ConnectedWriterEnds` and `ReaderEnds` of `Sharmem`, `Completes` of `Queue`,
`ChildFollowsParent`, `ParentFollowsChild` and `Delivers` of `Signal`, the ends of `Fifo`
and `Network`, `DeliversWhatFits` of `PipeCopy`. Every safety and action property of the passing
runs is a theorem. The three violation runs are counterexamples and need none.

## 5. Not modelled

* `Test_task` 1 to 5 and `Zadachki`: a few calls in a row. The fifth adds to a counter
  from threads without a lock and shows that additions are lost; that is its whole
  purpose.
* The tests of `Bit_array`: a program that calls the library in a fixed order.
* Of `Select`: calls that fail, and `FD_ISSET(-1)`, which the code reaches when
  descriptors of a pair are closed and which reads memory before the set.
* Parsing of arguments, debug output, Makefiles and scripts, `/proc/cpuinfo`.
* In the modelled systems: reuse of pids, permissions, and `malloc()` failures that
  only lead to an exit before anything shared is touched.

## 6. Plan

Done: every program with a state of its own has a module, and every safety property of those
that hold is proved. The properties are kept to those that say something a test would not.
What is left:

1. `PageExclusive` of `Sharmem` with several readers. With two writers, two readers and no
   kill TLC finds it to hold (`FileLen` 1); `WriterSuccessMeansDelivered` and
   `EndNeverBlocks` do not. A theorem would have to say which readers may be left of a
   set that was removed, while another pair uses the segment.
2. Liveness, when the prover handles ENABLED: the invariants it would rest on are proved.
