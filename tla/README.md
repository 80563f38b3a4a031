# Specifications of the otus-c programs

This directory holds TLA+ specifications of the programs of this repository,
the TLC configurations that check them on small instances, and TLAPS proofs of
theorems about them for every value of their parameters. Paths are relative to
the root of the repository; line numbers are those of the sources as they are.

The repository is a set of independent C programs, one per directory. Five of
them have concurrency, failures or a history that is hard to get right: the
concurrent log parser `hw12`, the logger `hw9`, the daemon `hw10`, the network client
`hw13` and the word counter `hw3`. Five more are small sequential programs with one
hard place each: `hw1`, `hw2`, `hw4`, `hw5` and `hw11`. All ten are modelled.

## 1. Inventory

### hw12: a concurrent log parser

`logparser <num_thread> <log_dir>` parses every regular file of a directory in a
pool of threads and prints the total number of bytes served, the most frequent
referers and the URIs with the most bytes. It has four parts.

| part | source | state | operations |
|---|---|---|---|
| task ring | `circular_buffer.c` | `tasks[max]`, `head`, `tail`, `full` | create, put, get, size, free |
| thread pool | `thread_pool.c`, `main.c` | `mu`, the conditions `ready` and `full`, `stop`, the handles | create_pool, add_to_pool, thread_executor, stop_pool |
| hash table | `hashtable.c` | `buckets[cap]`, one mutex per bucket, `size` | create, put, inc, get, print_top with its `compare`, free |
| log parsing | `main.c` | the atomic `bytes`, two tables, the static state of `strtok` | process_file, parse_apache_log |

*Interactions.* main is the only submitter. It puts one task per file under
`pool->mu`, waiting on `full` while the ring is full; workers take tasks under
the same mutex, waiting on `ready` while it is empty. When all files are
submitted main polls `cir_buffer_size` **without** the mutex, once a second, and
then sets `stop`, broadcasts and joins. Workers call `hash_t_inc` on two shared
tables and add to an atomic counter. print_top and hash_t_free run after the
join.

*What is hard.* Interleavings of main and the workers at the ring; lost wakeups;
the unlocked poll, which can see `cir_buffer_get` half done; workers that were
never created (the result of `pthread_create` is ignored); increments of one key
by several threads; `t->size++`, which is protected by the mutex of one bucket
only; early returns between lock and unlock; out of memory between lock and
unlock; the state `strtok` keeps between two calls; memory that `malloc` does
not clear (the slots of the ring, the buckets of the table).

*What makes it correct.* The ring is a bounded first-in first-out queue. Every
file is handed to exactly one worker and processed. Nobody sleeps beside work he
could do, and the program ends. The table behaves like a map of counters whose
calls take effect one at a time, and `size` is the number of its nodes. The
totals that are printed are the sums over all lines of the files, and the lists
begin with the heaviest key.

### hw3: a word counter

`hashtable.c` is an open-addressing table with linear probing over a window of
`collision` buckets, which doubles when it is full; `main.c` reads a file and
does a `get` and a `put` for every word, then prints every entry.

*What is hard.* A long sequence of legal calls that leads to an illegal table:
probing with wrap-around, growth in the middle of a put, an index computed before
growth and used after it, a comparison that stops at the end of the stored key, a
count that reaches the value reserved for "not found".
*What makes it correct.* Each word has one entry, and its value is the number of
times the word was read.

### hw10: a daemon

`main.c` optionally becomes a daemon, takes a write lock on a pid file, reads its
configuration, binds a unix socket and answers every connection with the size of
a file until a SIGINT. *State:* the process (its position, its `flag`, the queue
of connections) and what outlives it: the pid file with its lock, and the socket
file. *What is hard.* Several processes started at once; a signal between the
test of the flag and `accept`; a kill at any point, and what the next process
then finds. *What makes it correct.* One server at a time; the pid file names it;
a clean shutdown leaves nothing that would stop the next one.

### hw13: a client of a telnet service

`main.c` connects to a host, receives until it has seen the prompt, sends one
command and receives until the server closes, into one buffer of fixed size, which it
prints. *State:* the buffer, the offset `len`, the socket. *What is hard.* TCP cuts
the stream into portions anywhere, and the first loop looks for the prompt at the end
of single portions; the server may close at any time; the answer may be longer than
the buffer. *What makes it correct.* It never waits for a prompt that has gone by, it
prints the whole answer in order, and it ends.

### hw9: a logger

`logger.c` keeps in the static `s_flog` the open file, its name, its size as the
logger counts it and the size at which it is renamed; beside it `is_init` and one
mutex. `init_logger` opens the file; `logger_log` rotates the file if it is full and
writes a message. Both are called by any thread. *What is hard.* `logger_log` tests
`is_init` the wrong way round, so it returns at once when the logger **is**
initialized; only calls that passed the test before the initialization, without the
mutex, ever write. `init_logger` initializes the mutex itself, which another thread
may hold. The mutex stays locked when the file cannot be opened. A rotation closes the
file first and may then fail in three ways. fprintf's -1 is added to a `size_t`.
*What makes it correct.* Nobody uses a stream that is not open; a full file is renamed
before it grows; every call returns.

### The sequential programs

| directory | what it does | state | hard place | correct if |
|---|---|---|---|---|
| hw1 | `main.c` finds a zip archive behind a JPEG by walking its central directory backwards from the end; `main2.c` is an earlier version | `offset`, a `uint32_t`; the headers left | lengths come from the file, `offset` wraps; `main2.c` loops while an unsigned number is >= 0 | no header is read twice and the walk ends |
| hw2 | 8-bit code pages to UTF-8 | the table chosen | lengths change at 0x80 and 0x800; an entry below 0x80; the loop over the names runs too far | the output decodes to the characters of the input |
| hw4 | a weather client over libcurl | the buffer of the answer | the end of the buffer is found by `strlen` before it is terminated; ranges of angles end at halves | the buffer is the answer, the arrow the nearest one |
| hw5 | a list, and a filter that copies it (C and assembly) | two lists | an allocation that fails in the recursion | the second list has the picked values, reversed |
| hw11 | CRC-32 of a file, mapped 1 GB at a time | the offset | the last chunk; a file that is cut meanwhile | every byte is fed once, in order |

### The other directories

`hw6` has notes on building curl, `hw7` a patch to a program that is elsewhere, `hw8-1`
empty sources, `lesson1` one printed line. `hw8` is a GTK window on a directory tree:
input and output of a library, and its one algorithm, the recursive walk, is behind an
inverted test of `g_dir_open` (`hw8/src/main.c:14`) and never reached.

`PROJECT.json` lists all of them under `components`, and under `hazards` what is
hard to test in the code, at its line, with the properties that cover it.

## 2. Modules

```
RingIndex            index arithmetic of the ring
 |- CircularBuffer   the ring            implements BoundedQueue
 |- ThreadPool       threads and ring    implements WorkPool
 |    |- ThreadPoolInvariant, MCThreadPool
 |- RingIndexProofs -> CircularBufferProofs, ThreadPoolProofs
HashTable            the hash table      implements CounterMap
 |- HashTableProofs
TopList              compare and print_top
WorkPool
 |- LogParser        parsing, over the promises of pool and tables
Logger               hw9                 LoggerProofs
Daemon               hw10                DaemonProofs
TelnetClient         hw13
WordTable            hw3
 |- CountingProofs   of WordTable and LogParser, both of which count
ZipWalk hw1, Converter hw2, Weather hw4, ListFilter hw5, Checksum hw11
 |- MCSequential     these five, WordTable, TopList and CircularBuffer, one in each
 |                   behaviour
 |- SequentialProofs of these five, TopList and TelnetClient
```

**RingIndex** has the two index operations of `circular_buffer.c`: the step
modulo `Max` and the size computed from three fields.

**CircularBuffer** models the ring under the pool's discipline (every call under
the mutex, a get only after a look at the size). Each function is one action.
`tasks`, `head`, `tail`, `full` are the fields of `cir_buffer_t`; `ret` is what
the last call returned and `released` the tasks that `cir_buffer_free` released.
Slots start as `Null` or `Unset`, whatever `malloc` returned; `cir_buffer_free` takes
a slot that nobody wrote for a task, and the program ends there (`FreeCrashes`).

**BoundedQueue** is what the ring promises: a sequence of at most `Max` tasks.

**ThreadPool** models the threads. Each worker has a program counter `pc`, main
has `main`. A step is as large as the other threads can tell: a stretch of code
under the mutex is one action, with two exceptions. `cir_buffer_get` is two
actions, `TakeSlot` (`full = false`, the slot is emptied) and `AdvanceTail` (the
write of `tail`, the NULL check, the signal, the unlock), because main looks at
the three fields without the mutex in between. `add_to_pool` puts and unlocks in
`AddPut` and signals in `AddSignal`. main's poll is three actions, one per read
that can give a different answer: `PollFull`, `PollCompare`, `PollSubtract`.
Waiting on a condition is a value of `pc` (`wait`) or of `main` (`waitFull`);
a signal wakes any one waiter, a broadcast all of them, and a waiter may wake
spuriously. `CreateFails` is a `pthread_create` that fails; `JoinCrashes` and
`FreeCrashes` are the join of a handle and the free of a slot that were never
written. The bound on the state is `NFiles`: `AddDone`, the end of the directory, may
come after any number of files up to it, since main scans the directory a second time
and may find other files than those it derived the number of threads from.

The poll reads plain fields without synchronisation, so the compiler and the
processor may reorder the writes of a worker and the reads of main. The model
keeps the order of the source. What is said of lost files does not depend on it:
main itself wrote `full` and `head` in its last put, so a false `full` that it reads
was written later, by a worker that took a task, and whatever it reads of `tail` can
only end the wait too early, with fewer than `Max` files in the ring.

**WorkPool** is what main may expect of the pool: files are started in order, each
at most once, and finished; at the end fewer than `Max` waiting files may be
discarded, and none if there are fewer files than slots.

**HashTable** models `hash_t_put`, `hash_t_inc` and `hash_t_get` of any number of
threads. A call is split where a second thread would see it half done if the mutex
did not protect it: lock, walk along the chain, store or insert, read and write
of `size`. Chains are sequences of nodes. An insert writes the tail of the chain
it walked, as the code does, so that without the mutex it would cut off a node
linked meanwhile. `AllocFails` is `malloc` or `strndup` returning NULL.
`GetFromEmpty` is the return of `hash_t_get` that keeps the mutex. `raced` is a
history: two threads have been between the read and the write of `size` together. `FollowWildPointer` is
a walk over a bucket that was never written; the constant `Zeroed` says whether
memory happened to be zero. `PrintTop` allocates by `size` and writes by node.

**CounterMap** is the linearizable object behind it: a call takes effect at one
instant between its begin and its return. An increment or an assignment of a key
without a node may be dropped. A get may answer with a stored key that the wanted one
begins with, because `hash_t_get` compares the length of the stored key only; it may not
answer with any other, nor miss its own. Where `Prefixes` has only the keys themselves a
get is exact.

**TopList** is what `print_top` does once the threads are gone: it copies the counters
in the order of the buckets and sorts them with `compare`, which subtracts two 64-bit
counters and returns the low 32 bits as an `int`. `IntRange` stands for 2^32. `qsort`
gives an order that `compare` accepts, and any order if `compare` contradicts itself.

**LogParser** composes the promises of the parts: it EXTENDS `WorkPool`, so that
the pool appears by its abstract steps (proved and checked of `ThreadPool`), and the
tables are functions incremented atomically, or not at all when a new node finds no
memory (checked and proved of `HashTable`). `droppedRefs` and `droppedUris` are the
histories of those increments, and `stored` says which words have a node, which a sum of
bytes does not: a line may have none.
A line is a record of its URI, its referer and its number of bytes. What is left
is `process_file` and `parse_apache_log`, with the three calls of `strtok` as
actions of their own: `last` is the pointer that `strtok` remembers, into the
request of the worker that called it last. A pointer into the frame of a call
that has returned reads as `Junk`. That two calls of `strtok` at the same time are
a data race is modelled as their interleaving.

**WordTable** models one word of `hw3` as one step: main's get, `++v`, and the whole
put. `Window` is the sequence of buckets that `find_index` and `insert` look at,
`Grown` is the table `grow_bucket_size` builds. put uses the old `size` for its
index and the new one for its wrap-around, as the code does. A put is modelled
after main's own get of the same key, which is how the program calls it. `WordCount` is
the number of words read so far. `collided` is a history: a growth has moved two entries
to the same bucket, of which the code keeps one.

**Daemon** models any number of processes that run `hw10`, one action per system
call that others can notice. The lock on the pid file goes with the process that
holds it. `Interrupt` is SIGINT with the handler installed: it sets the flag and
makes a waiting `accept` fail (there is no `SA_RESTART`). `Kill` is every death
without clean-up: SIGKILL, SIGTERM, SIGINT before the handler is there, SIGPIPE from
`send` to a client that hung up. A socket file whose process is gone is `Stale`.

**TelnetClient** models `main` of `hw13` and the stream it receives. Bytes are known by
their position in what the server sends, so that the buffer shows which of them it
holds and in which order. The server's bytes arrive one at a time and `recv` takes all
that have arrived and fit, so that every way to cut the stream occurs. `PromptEnds` is
the negated condition of the first loop; for a portion of one byte it depends on
`buff[-1]`, which is either outcome. `Greeting` ends with a dot, as the loop expects of
the service, and may contain dots and newlines before. Server and network are external.

**Logger** has one action for what a thread does between two points where another may
interfere. `LogStart` and `InitStart` are the tests of `is_init` outside the mutex;
`InitMutex` makes the mutex free whoever holds it, and may forget those who sleep on it
(`initAsleep`, `logAsleep`). `NoRotation`, `CloseFull`, `Reopen` and `ReopenFails` are
the paths of `log_rotate`: the clock, the rename and the second `fopen` each fail in
their own way. `Write` and `WriteFails` are the messages. `CrashOn` is the use of a
stream that is NULL or closed. Sizes count messages; `Cap` bounds them.

**ZipWalk** chooses what the file has at a place when the program reads it, which is
sound because no place is read twice, as the checked property says. `ReadCfh` is
`main.c`, `ReadCfhInSecond` is `main2.c`, where the offset goes back by a fixed amount.
**Converter** has one action per byte. **Weather** has the memory that libcurl's portions
are collected in, byte for byte: `WriteResponse` places a portion at the first `strlen`
and the terminator at a second one, taken after the portion was copied, so that it lies
outside of the memory (`WriteBreaksHeap`). **ListFilter** has `add_element` and one level
of `f` per action. **Checksum** lets another process `Truncate` the file between chunks:
what is fed from the last page is zero, a page beyond it kills the program.

**MCSequential** gives all these modules their constants. A behaviour runs one program,
`program`, and the others stay as they are. The ring and the top list of `hw12` are among
them: under the pool's discipline, and after the join, one thread at a time works on them.

Operators named `Mutation: ...` in their comments are plausible bugs of the
definition that follows them. Nothing uses them; replacing the definition by one
shows that a property would notice.

## 3. Runs

| run | instance | shows |
|---|---|---|
| `pool` | 3 workers, any of which may fail, 3 slots, up to 6 files | no file lost without trace or duplicated, no lost wakeup, a crash only at the end and only for a named cause, refinement of `WorkPool`, termination unless there is a file and no worker |
| `pool_loss` | 2 workers, 2 slots, 4 files | **violated**: files are lost |
| `hash` | 2 threads, 2 calls each of any kind, 3 keys in 2 buckets, one of them a prefix of another in its bucket, values modulo 4, memory not zeroed | linearizable but for the gets that find a prefix, one node per key, which mutexes leak, `size` exact unless two increments overlap, every call returns unless it meets a leaked mutex or a wild bucket |
| `logger` | 3 threads, a limit of 2 messages, sizes up to 3 | an initialized logger crashes only after a failed rotation or a second initialization; no full file grows; every call returns unless the mutex was leaked |
| `hash_size` | two buckets | **violated**: `print_top` overruns its array |
| `log_parser` | 2 workers, 3 files of 1 or 2 lines, 1 may not open, any new node may find no memory | total exact; referers exact but for dropped increments; URIs too unless `strtok` mixes requests |
| `log_uri` | the same | **violated**: bytes are credited to a wrong URI |
| `sequential` | one program per behaviour, bounds below | the properties of the eight modules it runs |
| `word_growth` | no word a prefix of another, 4 words read | **violated**: growth drops a word |
| `top_order` | up to 3 counters, an int of 8 values | **violated**: the lighter URI is listed first |
| `daemon` | 2 processes, 2 directories, queue of 2 | one server, true pid file, clean shutdown, the missed signal |
| `telnet` | a greeting of 7 bytes, an answer of 4, a buffer of 5 | no prompt missed, the answer whole and in order or the buffer full, an end once the server closes |

*Why the bounds are enough.* In `pool`, up to six files go round a ring of three slots
twice, so that head and tail wrap, the ring fills, main waits on `full`, and the
poll can meet a ring that was full; three workers allow one to be inside
`cir_buffer_get`, one to run and one to sleep, and a fourth would add no new
situation at a mutex that admits one. In `hash`, two keys share a bucket and one
is alone, so that both races of `size` and both positions of an insert occur;
two calls per thread are enough for insert against insert, insert against
store, and a call after a leaked mutex. One of the two keys that share a bucket is a
prefix of the other, so that a get meets the prefix before its own key, after it, and
without it. `Modulus = 4` makes counters wrap. In
`log_parser` the numbers of bytes are powers of two, so that a sum tells which
lines are in it. In `logger` one thread can initialize, one log and one
initialize again; a limit of two messages has a file below, at and beyond the limit.
For `sequential`: the ring has three slots, cleared or not, three tasks and no bound on
the calls, so that it goes round any number of times. The words of `WordTable` hash to 0,
2, 4, 3 and 8, so that they collide in the table of two and again in the table of four,
and the fifth distinct word makes it grow to eight; the word of hash 3 may be put, by a
growth that moves no two entries together, where no get looks for it, and gets a second
entry; with `Modulus = 4` a count reaches the reserved value; seven words are read into a
table of two. `Collision = InitialSize` is what main passes (10, 10). The converter reads
up to three bytes of four entries of each table, on both sides of 0x80 and 0x800, and
options that match one name, several or none. Zip files have up to 18 bytes, with a
record of 2 and headers of 5 plus 0, 1 or 4; `Wrap` is 64, which is more than the size
and the longest header together, as 2^32 is for files below 4 GB (`ZipAssumption`).
Files of up to 8 bytes are mapped 3 at a time, so that they end in, on and after a
chunk. The answer of the weather service has three bytes, in any portions. Angles lie
on both sides of each limit. Up to four counters are listed, with differences below, at
and beyond half of `IntRange = 8`. In `daemon`
processes start again after they end, without a bound, so that every sequence of
starts, kills and clean shutdowns of two processes is explored. In `telnet` the
greeting has a dot and a newline before the prompt, so that the first loop can stop
early, and the rest of the greeting with the answer does or does not fit the buffer.

*Deadlock* is checked except where the system really stops: `hash` after a get on an
empty bucket has left its mutex locked, `logger` after `init_logger` has, `sequential`
when a program has ended or the ring is freed, and `top_order`. `pool` too: when no
worker could be created main waits for ever, which `Termination` names as its one
exception.

*Fairness.* `pool`: the scheduler runs each thread that can run, and a mutex is
granted to a thread for which it stays free (weak fairness of each worker and of
main); spurious wakeups do not go on for ever. `sleep(1)` in main's poll gives no
guarantee and none is assumed. Weak fairness suffices although a mutex may be
taken by others again and again, because every such taking uses up a task or
ends in a wait. `hash`: each thread that can run runs; since the number of
calls is bounded, a mutex cannot be withheld for ever. `logger`: the same of the steps
inside a call; nobody has to call, and a thread that slept on a mutex when it was
initialized again is woken by luck only (`WakeForgotten` is not fair). `daemon`: a
process that can run does; clients, signals and kills are not fair, and nobody is
assumed to connect. `telnet`: the client runs when it can; the server sends its greeting
and its answer or closes, and need not close. The sequential programs are checked for
safety only.

### What the violated runs show

* `pool_loss` (`main.c:190`). A worker that takes from a full ring first
  writes `full = false` and then `tail`. In between `head == tail` and the ring looks
  empty. If main's poll falls there, it stops the pool; workers test `stop` before the
  size (`thread_pool.c:47`) and leave up to `max - 1` files unprocessed.
* `hash_size` (`hashtable.c:109`). Two inserts in different buckets lose one
  increment; `print_top` allocates `t->size` pairs and writes one per node.
* `log_uri` (`main.c:43`). `strtok(NULL)` continues whichever request was
  passed last by any worker.
* `word_growth` (`hw3/src/hashtable.c:63`). Growth does not probe, so of two
  entries that collide in the new table the first is gone.
* `top_order` (`hashtable.c:165`). `compare` returns the difference of two 64-bit
  counters as an `int`: of two URIs 2^31 bytes or more apart the lighter one is listed
  first, and the heaviest need not be among the ten that are announced (`main.c:198`).

Further behaviour of the code that the models contain and the properties work
around, each listed under `hazards`: a get on an empty ring returns what the slot
held and moves `tail` past `head` (`cir_buffer_get`, reached by no caller);
`cir_buffer_free` frees slots that were never written; `hash_t_get` on an empty
bucket keeps its mutex; `hash_t_get` takes a stored prefix of the key for the key,
which `CounterMap` allows it; `hash_t_inc` drops an increment without a word when it
finds no memory, so that the tables of the log parser are exact but for those; buckets are not cleared; after growth a word can get a second entry, and an insert can
fail in a table with room; the telnet client reads before its buffer after a portion
of one byte and writes behind a full one; a daemon that was killed leaves a socket file that no
later one can bind; the logger writes nothing after its initialization but the messages
of threads that were already past the test, and counts on from the old size after a
rotation, so that the next message rotates again; the weather client finds the end of
its buffer only if new memory is zero, and writes a terminator outside of it; `hw2` drops
0x98 of cp1251, whose entry is below 0x80, and compares an unknown name with what lies
behind the array of names. Two hazards have no property, because nothing in the
repository says what should come out: the byte 0x98, and an answer of the weather
service over memory that was not zero.

## 4. Proofs

TLAPS checks the theorems of this section for every value of the constants that
satisfies the named assumptions of the modules. Every safety property that a
passing run checks and every refinement is such a theorem; section 3's bounds matter to
them no more.

### Assumptions

| assumption | says | justified by |
|---|---|---|
| `MaxAssumption` | at least one slot | main passes 10 |
| `PointerAssumption`, `PoolAssumption`, `DaemonAssumption`, `LoggerAssumption` | special values (NULL, nobody, a stale file) are distinct from tasks, files, processes and threads | they stand for absence |
| `TableAssumption` | finitely many keys, a key is a prefix of itself, amounts are counters, a wild bucket is no chain | keys are words of finitely many files; `strncmp` over the whole of both |
| `WordAssumption` | finitely many keys, `Collision` between 1 and the initial size | main passes 10 and 10 |
| `ContentAssumption` | files have finitely many lines, numbers of bytes are natural, no word of the file is `Proto`, `Junk` or NULL | regular files; the three are pointers, not text |
| `ZipAssumption` | a header is longer than four bytes and not shorter than the last record, and the size and the longest header fit an `offset` together | 46 and 22 bytes; archives below 4 GB |
| `TelnetAssumption` | the greeting ends with a dot | what the first loop waits for |
| `ConverterAssumption` | tables map bytes from 128 on to `uint16_t` | the type of `table` |
| `TopAssumption`, `WeatherAssumption`, `ListAssumption`, `ChecksumAssumption` | types; the width of int is even; a chunk is not empty | |

### hw12: ring and pool

**RingIndexProofs** has the arithmetic: `Succ` and `At` without the modulus, and how
the distance of a slot from `tail` changes when `head` or `tail` moves.

**CircularBufferProofs** proves `TypeCorrect`, `WindowCorrect` and `Refinement`
(`Spec => IsBoundedQueue`). The inductive invariant is the type invariant and
`WindowHoldsTheTasks` together: that a get returns a task follows only from the
window. The refinement shows that put appends to, and get takes the head of, the
sequence of tasks read from `tail` on.

**ThreadPoolProofs** proves that `TypeOK`, `EveryFileInOnePlace`,
`OnlyTheLastFilesAreLost`, `NoStrandedTask`, `NoStrandedSubmitter` and
`CrashExplained` are invariants for any number of workers, files and slots and any set of
workers that may fail. None of them is inductive. `ThreadPoolInvariant` strengthens them:

* `Locks`: a thread between lock and unlock owns the mutex, so at most one worker
  is in the middle of `cir_buffer_get`;
* `Phases`: what the position of main tells of its past, in particular that
  `full` stays false once main has seen it false after the last put;
* `Hands`: a worker holds a task exactly from the get to the end of the task;
* `Slotted`: the slots in the window hold the *consecutive* files from `Taken + 1` to
  `added`, where the window of a half-done get still counts the slot just emptied;
* `Places`: the files up to `Taken` are in one worker's hands or done;
* `Unwritten`: a slot that was never written has not been reached by `head`, which has
  then not gone round;
* `Drained`, `Final`: what main can have left in the ring when it stops the pool.

That the ring holds consecutive files is what makes the rest follow: files in the
window are above `Taken`, files elsewhere at most `Taken`, so no file is in two
places; and main stops with `full` false, so the window has fewer than `Max` files,
the last ones. The proof of each step splits by action; the steps that touch neither the
ring nor the tasks share one lemma (`QuietStep`).

`CrashHasCause` follows from `Unwritten`: the program crashes only when it joins a
thread that was not created or frees a slot of a ring that never went round.

`Refinement` proves `Spec => IsWorkPool`, on which `LogParser` rests. `PendingIsRun` is
what links the two: in every state of the invariant the files that wait are exactly the
run from `Taken + 1` to `added`. Then `AddPut` is a submission, `TakeSlot` the start of
the first waiting file, the end of a task its finish, and the end of the program the
discard of what is left; all other steps change nothing the abstract pool has.

### hw12: hash table

**HashTableProofs** proves `TypeOK`, `OneNodePerKey`, `OnlyEmptyBucketsLeak`,
`SizeExactUnlessRaced` and the refinement of `CounterMap`, for any number of threads,
calls, keys and buckets, any hash function and any buckets left wild. The inductive
invariant adds four parts:

* `Shape`: every bucket is wild or a sequence of nodes;
* `MutexOwned`: a thread between lock and unlock of a bucket owns its mutex;
* `Found`: what a walk has found still holds when it is used. A thread about to store
  has the place of its key and the value it read there; a thread about to insert has
  come to the end of a chain without its key. That is what forbids a second node and a
  lost increment, and it holds because of `MutexOwned`;
* `Counted`: `size` and the threads that have linked a node but not counted it are
  together at most, and without a race exactly, the number of nodes. The count is of a
  union of chains, so the proof goes through cardinalities.

`Refinement` holds for any prefixes among the keys. That a get which comes back with
nothing has not missed its own key needs only that a key is a prefix of itself
(`TableAssumption`); that its answer is the counter of *some* prefix of the wanted key
needs that a key has one node.

### hw12: log parsing, and hw3

**CountingProofs** is about two programs that count, `LogParser` and `WordTable`. Both
speak of sums over finite sets, which the community modules define by recursion over
subsets. The library's induction theorems cannot be used for that, so that the module
first builds the theory it needs without them: the function of sums over the subsets of a
finite set exists and is unique (`SumsExist`, `SumsAgree`: otherwise there would be a
*smallest* set where it fails, `SmallestSubset`), taking out any element subtracts its
value (`SumPicks` for the element that is picked, `SumTakesAny` for all), a disjoint union
adds, and a function that is smaller everywhere, or differs at one place, has the sum one
expects. `SumIs` ties it to `MapThenSumSet`.

Of `WordTable` it proves `WordTypeOK`, `ExactUntilGrowth` and `EveryReadingCounted`, the
conjunction of `NeverOvercounts` and `NothingLost`.
`ExactUntilGrowth` needs `CapCounts`: while the table has not grown `cap` is the number
of entries, so that `cap < size` promises the free bucket which `insert` then finds,
as the probing window covers the table. The condition `Collision = size` in the
property came out of this proof: with a smaller window an insert can fail beside free
buckets. main passes 10 for both. `NeverOvercounts` and `NothingLost` speak of every set `S` of
words, since a word may be counted in the entry of a stored word it begins with and says
nothing alone. A step reads one word `k` and adds one to one entry, whose word `k` begins
with: if that word is in `S`, then `k` is one of `Continuations(S)`, and if `k` is in
`S`, then that word is one of `Beginnings(S)`. A growth only loses, and without a
collision it loses nothing: it then copies the entries one to one.

Of `LogParser` it proves `TypeOK`, `TotalsExact` and `UrisExactUnlessMixed`, for any
workers, files and lines. The inductive invariant is `ParserInv`:

* `Placed`: each worker that is parsing has a file of its own among the running ones,
  and files are started in order;
* `Counters`: `bytes` is the sum over the lines of the files that were read (`Done`),
  each worker's `current` the sum of the lines before its own, each referer the number
  of lines that went past the cut of the referer (`Referred`) and were not dropped, and
  all URIs together at most the sum of the lines credited (`Credited`);
* `OwnWords`, until two workers meet in `strtok`: a worker's pointer is to its own word,
  and each URI has the bytes of the lines credited to it and not dropped.

The three sets grow by one line, or by the lines of one file, in one action each, so
that each counter needs one lemma per action; when the program reports, all three are
the lines of the files that were opened.

### hw10, hw9

**DaemonProofs** proves `TypeOK`, `OneServerNamed` and `BindRefusedOnlyAfterKill` for any
number of processes and directories. The invariant: the lock belongs to the one process
between `validate_is_already_worked` and its end (`LockedByOwner`); that process's pid is
in the file (`PidWritten`); a socket file is that of a process that is going to unlink it
in its own directory, or some process was killed (`SocketOwned`). The last is where the
order of the clean-up matters: `unlink` comes before the lock is given up.

**LoggerProofs** proves `TypeOK`, `CrashExplained` and the action property
`NoFullFileGrows`. The first needs that a thread between lock and unlock owns the mutex
(`MutexOwned`) and that the stream of an initialized logger is open but in the middle of
a rotation (`StreamOpen`). The second needs that the size the logger counts is not below
the file's (`SizeCounted`), so that a thread which goes on to write has found room in the
file (`RoomToWrite`). A rotation whose clock fails goes on to write too, into the file
it found full; what saves the property is that the stream is closed then
(`ClosedToRotate`), so that the program may crash but no full file grows. All of this
holds only until the count falls behind or the logger is initialized again, the
exceptions the property names.

### The sequential programs and hw13

**SequentialProofs** has one inductive invariant for each:

* `Checksum`: what was fed is what lies before `offset` (`FedBeforeOffset`);
* `ZipWalk`: where `offset` points, if a header can be read there at all, lies before the
  one read last; a step back beyond the start wraps to a place outside of the file
  (`NextLiesBefore`). `EocdrSize <= CfhSize`, 22 and 46 bytes, was found missing here: it
  makes a file that is too short for the record too short for a header;
* `TopList`: of counters less than half of `IntRange` apart `compare` returns the
  difference, so that it is an order (`CompareClose`);
* `Weather`: the buffer is the body so far and one terminator, until realloc hands out
  memory that is not zero (`BufferExact`); the nearest arrow by arithmetic on the eight
  ranges (`NearestArrow`);
* `ListFilter`: the list at `ptr` has the picked values of the part seen, through a
  decreasing function from its places to those of `arr` (`ListInv`);
* `Converter`: what was written is whole characters (`Whole`) that decode to those of the
  bytes kept, through an increasing function onto the characters' first bytes.
  `CharacterAppended` shows that a further character changes the decoding of none
  before it, `EncodedIs` that two and three byte forms stand for their table entry,
  `Digits` the division by 64 and 4096 behind it;
* `TelnetClient`: what is in the buffer was received last and in one run
  (`LastReceived`), what came before it arrived before the server was asked
  (`AskedFirst`), and main stops reading only at the end or when the buffer is full
  (`ReadToTheEnd`).

`SelectsReversed` and `DecodesToTheText` are stated with such a function rather than
with the recursive operators that reverse, select or concatenate, because what these
compute for every input would need induction over data.

### Only model-checked

Liveness: `Termination`, `EveryCallReturns`, `LogReturns`, `StopsAtNextConnection` and
`NeverWaitsInVain`, which need fairness and `ENABLED`, out of reach of the prover. The
five violated properties have counterexamples and nothing to prove.

## 5. Not modelled, and why

The text of lines, messages and answers, options, and printing, which no property is
about. `cir_buffer_put`'s NULL argument, and `malloc` and `strdup` failing in it, where
it does not look. Either scan of the directory failing, after which the program ends. A
command that `send` takes only in part (`hw13`). `daemonize` beyond its place before the
lock. `read_lfh` of `hw1`, which nothing calls, and the fields that are only printed. The
fields of the weather but the wind's. The assembly of `hw5`, which does what the C program
does on registers and a stack. `hw8`, whose algorithm is not reached and whose rest is
GTK; `hw6`, `hw7`, `hw8-1` and `lesson1`, which have no program of their own to model.

## 6. Plan

Every program with state is modelled, and every safety property and refinement that a
run checks is proved. What is left:

1. The safety half of the liveness properties: for `EveryCallReturns` and `LogReturns`
   that a thread which waits for a mutex waits for one with a live owner or a leaked one,
   and for `Termination` and `NeverWaitsInVain` that in every state short of the end some
   step is possible, stated without `ENABLED`.
2. The remaining facts that the composition relies on: what `LogParser` takes from the
   pool at its end, that every file not among the last `Max - 1` was parsed.
3. `WordTable` after a growth that moves two entries together: that no more than the
   earlier entry of each such pair is lost, where `NothingLost` stops.
