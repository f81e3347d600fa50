# Verification of MyCeph

MyCeph holds two programs: `CRUSH_Research`, an experiment with Ceph's placement
algorithm CRUSH (a sequential version, a version with one thread per replica and one
on a home-made thread pool), and `gRPC_Ceph`, a client and a server that upload files
to a Ceph pool. This directory holds TLA+ models of both, the TLC configurations that
check them on small instances, and machine-checked proofs about eight of the models.

## 1. Inventory

| Component | State | Operations | Hard behaviour |
|---|---|---|---|
| Thread pool (`threadpool.c`) | ring `taskQ` with `queueSize/Front/Rear`; `liveNum`, `busyNum`, `exitNum`, `shutDown`; `threadIDs`; two mutexes, two condition variables | create, add, worker loop, manager loop, threadExit, destroy | signals lost or spent on a leaving worker, decisions on stale copies, unlocked `shutDown` and `threadIDs`, destruction beside running workers |
| `crush_choose_firstn` (`main.cpp:263-437`) | arrays `out`, `out2`, counters of attempts | choose `numrep` items of a type, recursively a device below each | retries, collisions, rejected devices, indices shared with the recursive call |
| Straw2 draw, `is_out` (`main.cpp:189-259`, `rseudo_random_number.h`, `crush_ln_table.h`, `crush_hash.c`) | none | hash, logarithm, division, comparison of straws | 32- and 64-bit widths, two tables with cut-out indices, arguments that a macro changes |
| `do_work1..3`, `pthread_crush_choose_firstn` | shared `firstn_info` (`x`, `out`, `outpos`), one mutex | one thread per replica; a caller that spins, frees `out`, reuses the structure | check and store in separate critical sections, detached threads |
| `test_pthreadPool` | as above, plus a pool | as above, through `threadPoolAdd` | the pool's scheduling below the caller's spin loop |
| Map construction (`init2`, `construct_*`) | two global counters, the bucket table | build root, racks, hosts, devices | slots chosen before nested calls and filled after them, summed weights |
| The program's run (`main`, `test`) | the map, then `out` per object | `init2`, then 256 placements | whether the hash treats racks, hosts and replicas alike |
| Messages (`file_service.pb.*`) | a oneof: case, pointer, owned object on the heap | set, clear, mutable, release, copy, merge, swap, encode, parse | pointer, case and heap change one by one; one message receives a whole stream |
| Upload server (`file_server.cpp`, `rados_client.*`) | global `count`, per call `name`, `bl`, response | start-up, `UploadFile` per call, write | concurrent calls, broken streams, failing writes, restarts |
| Upload client (`client.go`) | position in the file | open stream, read, send, close, receive | errors of reads and of `Send` that are ignored |

Interaction: the clients of the pool share `mutexPool`, `notFull` and `notEmpty` with the
workers; the caller and the replica threads share `firstn_info` and a global mutex; the
upload client and server exchange an ordered stream that may break, and the server's
calls share the counter and the pool of objects; its handler reads the stream into one
message. The placement reads the map that `init2` built. Nothing connects the two programs.

What makes each correct: the pool runs every accepted task once and in order, keeps its
size within bounds, and does not stall; a placement is a list of different, usable
devices in different failure domains, spread in proportion to the weights, and a change of
weight moves only what it has to; the parallel version neither mixes objects nor
returns early, and its primary is the sequential one's; an uploaded object is one file,
and success is reported for what was stored; a message owns what it points to, and what is
read is what was sent.

`PROJECT.json` lists every component, the hazards line by line, and the lines of code each
definition stands for.

## 2. Modules

| Module | Models | Uses, implements |
|---|---|---|
| `TaskPool` | the promise of a pool: tasks start in the order of acceptance and run once | |
| `ThreadPool` | all of `threadpool.c` | implements `TaskPool` (`TaskPoolSpec`) |
| `CrushMap` | a map, the possible draws, `is_out` | |
| `Placement` | the promise: a growing list of different usable devices | |
| `CrushFirstn` | `crush_choose_firstn` with its recursive call | implements `Placement` (`IsPlacement`) |
| `ParallelPlacement` | `do_work1..3` and their caller | |
| `PooledPlacement` | `test_pthreadPool`: the same functions as tasks of a pool | composes `ParallelPlacement` and `TaskPool` |
| `MapConstruction` | `init2` and the functions it calls | |
| `ProgramMap` | the map they arrive at, without the recursion | compared by `BuildsProgramMap` |
| `CrushLnTable`, `CrushLn` | the tables and `crush_ln` | |
| `StrawDraw` | `generate_exponential_distribution` and the comparison of straws | extends `CrushLn` |
| `Straw2` | a bucket whose items and weights change between epochs | extends `StrawDraw` |
| `CrushHash` | `crush_hash32` of one to five words | |
| `HashedPlacement` | `test`: the placement with the program's own draws | composes `CrushFirstn`, `StrawDraw`, `CrushHash` |
| `CrushProgram` | `main`: build the map, then place | composes `MapConstruction` and `HashedPlacement` |
| `UploadService` | server, RADOS client and upload client | |
| `WireFormat` | the protobuf encoding (external) | |
| `UploadMessage` | `FileInfo` and `UploadFileRequest` as functions on a memory | extends `WireFormat` |
| `MessageLife` | any legal sequence of calls on messages | extends `UploadMessage` |
| `UploadStream` | `UploadFile` on the bytes of its stream | extends `MessageLife` |
| `ThreadPoolProofs` | theorems about `ThreadPool` | |
| `PooledPlacementProofs` | theorems about the parallel placement, alone and on the pool | |
| `CrushFirstnProofs`, `MapConstructionProofs`, `UploadServiceProofs` | theorems about these modules | |
| `StrawProofs` | theorems about the division of `StrawDraw` and about `Straw2` | |
| `MessageProofs` | theorems about `MessageLife` and `UploadStream` | |
| `Induction` | induction over numbers as a fact about sets; lists of numbers do not go down for ever | used by the proof modules |
| `MC*` | instances for TLC | |

An operator whose name starts with `Bug` stands before the definition it varies. No
specification uses it: each is a plausible programming error, with which the property
named in `PROJECT.json` fails, so that the property is known to depend on that code.

### ThreadPool

A worker is its index in `threadIDs`; the entry is zero exactly when `worker[w] = "none"`.
`worker[w]`, `manager`, `producer[p]` and `owner` are program counters; `seen` holds the
manager's local copies of `queueSize`, `liveNum` and `busyNum`, `scan` its loop counters.
Tasks are numbered in the order in which they are accepted.

A step is the code between two accesses to memory that others may touch without
`mutexPool`. A stretch under the mutex is one step unless somebody may interfere in the
middle: `notEmpty` is signalled without the mutex by the manager and by
`threadPoolDestroy`, so finding the queue empty and joining the wait queue are two steps
of a worker that keeps the mutex; `notFull` is signalled under the mutex only, so the same
is one step of a producer. `shutDown` is read without a lock but only ever goes from 0
to 1, and a section that reads it twice behaves as one that reads it at its second
reading. A call of `threadPoolAdd` and its getting the mutex are two steps: the owner may
begin to destroy the pool, and free it, in between. `pthread_cond_wait` may return without
a signal, in a worker and in a producer.

Undefined behaviour: `queueSize` starts with any value of `InitialQueueSizes`, since
`threadPoolCreate` never assigns it; a task slot nobody wrote holds `Garbage`, and calling
it is a `fault`; so is any access to the pool after it was freed. After a fault nothing is
claimed (`Usable`). Left out: failures of `malloc` and `pthread_create`, and what the
destruction of a condition variable does to its sleepers.

### CrushMap, CrushFirstn, Placement

An item is an integer as in the code. What straw2 draws from a bucket for one object is a
function of bucket and `r`: `drawn` remembers the draws, and a repeated draw gives the
same item; every function that only yields items `Drawable` in their bucket is covered.
The devices that `is_out` rejects are an arbitrary set per object. `frame["top"]` and
`frame["leaf"]` hold the locals of the outer and the recursive call; the loops over
replicas, descents and attempts are the states `"rep"` and `"draw"`. A failed attempt
leads to `TryBucket`, `TryDescent` or `GiveUp` by the conditions of lines 410-424.
`MapAssumption` says that references stay within the map and lead away from the root:
the code dereferences `buckets[-1-item]` before it checks the index.

### MapConstruction

`building` is the call stack: the bucket each of `construct_root`, `construct_rack` and
`construct_host` is filling; `item_id` holds the callers' locals of that name. A step is
one iteration of a loop, a call or a return. The finished map is compared with
`ProgramMap`, slot by slot; `ProgramMap` is also what the constants of `CrushMap` stand for
in `CrushProgram`, where TLC evaluates `MapAssumption` for it.

### ParallelPlacement

The map is read only, so the descent of a thread is one step, ending at a device, at an
item beyond the map, or in an empty bucket (the root is not empty). The accesses to
`firstn_info` are the three critical sections: collision test, store, report. The caller
starts the threads, waits for `outpos`, frees `out` and reuses the structure; the locals
of a thread that has returned are forgotten with the object. `sawReported` is a history
variable. `out` starts with zeros, as `pthreadPool_crush_choose_firstn` fills in, or with
any other content, as `new int[numrep]` leaves it. The three functions differ in two
constants only, the replica's number; the mapping names the first for the details. The
loop on `outpos` reads the variable again and again, as the makefile's build without
optimisation does.

### PooledPlacement

The three functions of an object are three tasks, numbered as the pool accepts them; the
pool is `TaskPool` and nothing more, so that whatever implements it will do, and at most
`Workers` tasks run at a time. A task's function returns some time after its report, when
the caller may be at the next object already. `Destroy` is the caller's last call.

### CrushLn, StrawDraw, Straw2

TLC's integers have 32 bits. A number of up to 49 bits is a pair of an upper part and the
lower 24 bits; products and the division by the weight are computed on parts, and the sign
of a draw is that of its upper part. With that the functions are those of the code, bit for
bit. `Straw2` keeps a bucket with its `choose_arg` weight sets over the epochs of a map:
items are added, removed and reweighed, for all positions or for one, while the hash of an
object stays. A `choose_arg` has no ids of its own: for one without them
`get_choose_arg_ids` returns the items.

### CrushHash, HashedPlacement, CrushProgram

A 32-bit word is the pair of its halves. `Lines` is `crush_hashmix` line by line,
`Schedule` the calls of it in the functions for two to five words, in which the results of
one call are the arguments of the next. `HashedPlacement` replaces what `CrushFirstn`
leaves open by the code's own draw, and `NextObject` is the loop of `test` over its 256
objects. The 256 placements, and samples of the hash, of `crush_ln` and of draws, are the
same as those of the compiled program.

### WireFormat, UploadMessage, MessageLife, UploadStream

An operation of a message is a function from memory to memory, so that operations compose
as the generated functions call each other. `memory.heap` holds the objects that `new`
returned, `request[r]` a message's case and pointer, `caller` the objects that belong to
the caller. The pointer of the union is null when the case is not set (the code leaves it
alone, and looks at the case first). Names and chunks are short sequences of bytes: the
properties are about lengths, order and UTF-8, and the names are ASCII or hold the byte
255. Fields have wire types 0 and 2, the only ones of this service; sizes are below 2^31.
A wire may have fields of another version, a `FileInfo` in two pieces, a name and a
chunk at once, or end in the middle of a field: the parser has then switched the oneof, and
keeps what there is of the content, before it fails. (A string whose length itself is cut
becomes empty in the model, where the code leaves it; half an unknown field is not kept.)
The nested length that `Serialize` writes is computed there, where the code reads what
`ByteSizeLong` has cached: a cache that is out of date cannot occur in the model, nor does
any call of this code come between the two. `MessageLife` makes any call whose precondition holds; `UploadStream` is
the handler with its pointer into the message. Arenas are left out: the server's message is
a local variable.

### UploadService

A client is one run of the program, a chunk is a pair of client and number. `count += 1`
is a load and a store, and the default name comes from another load. The server's start
succeeds or fails: the result of `connect` is dropped, and whether a client that is not
connected gets through `setup_pool` is up to librados. While reads of a file fail
(`DiskChanges`; they may work again) the client sends empty chunks, since its loop tests
for `io.EOF` only; an empty chunk adds nothing to what is stored, so that only their
number on the way is kept, up to `MaxEmpty`. `Disconnect`,
`Abandon` and `Restart` break streams at any point; `Read` then returns false, possibly
before all sent messages were read, and the server goes on to write. `write_full` replaces
an object as a whole, or fails and leaves it. A default name is written as its number.

## 3. What the runs show

| Run | Instance | Question |
|---|---|---|
| `pool_safety` | 2 clients, 1-2 workers, 2 places, 4 tasks, destroyed at any time | counters, ring, exactly-once, wake-ups, refinement of `TaskPool` |
| `pool_liveness` | 2 clients, 1-2 workers, 1 place, 2 tasks, `queueSize` starting at 0 or 1 | tasks run, calls return, the pool shrinks, destroy returns |
| `pool_use_after_free` | as the program uses it | violated: a worker touches freed memory |
| `pool_empty_queue` | `queueSize` starting at 0 or 1 | violated: a task nobody added is taken |
| `firstn` | 3 hosts, 5 devices, 5 argument lists | the result is a placement |
| `parallel` | 3 replicas, 2 objects, 2 attempts, 2 devices, a pool of 3 workers | no interference, no lost task, termination |
| `parallel_replicas` | 3 replicas, 1 object, no pool | violated: two replicas on one device |
| `program` | the program's own: 5 racks, 50 hosts, 750 devices, 256 objects | the map that is built is the map that is assumed; shares follow the weights; replicas are independent |
| `straw2` | all hashes 0..65534; 128 samples of the hash; up to 3 items, 3 hashes, 3 weights, weight sets | laws of the logarithm, avalanche, minimal movement |
| `upload` | 2 clients, one name, 0 and 2 chunks, 1 restart, 1 empty chunk on its way | objects are files, success is one's own, every upload ends unless its disk or librados does not let it |
| `upload_success` | the same | violated: success without a stored object |
| `message` | streams of up to 3 messages; 2 more messages under any calls | ownership, deep copies, encoding and parsing, what the handler stores |

Bounds. *Pool:* two clients and two places let a queue be full, empty and wrapped (four
tasks over two places pass the end of the ring twice), and let a third party take a place or
a task between a signal and the wake-up it causes; two workers are enough for one to retire
while the other works. *firstn:* the map has an empty host, a weightless device and one
beyond `max_devices`, two usable hosts for two replicas, and argument lists with local and
fallback retries, so that every kind of failed attempt occurs. *parallel:* three replicas on
two devices make collisions and giving up unavoidable; the second object shows what the
reuse of the structure could spoil, and is drawn into an empty bucket as well (`Ends` is
per object); with three workers every interleaving of the three tasks occurs. *program* and
the logarithm of *straw2* have no bound at all: they are the program's own data, except that
`buckets` has 60 of its 1000 slots (`MaxSlots`; 56 are used). The last hash,
65535, is left out for the table entry named below. *straw2:* weight 0, the smallest and the
largest that an `int` holds; three items are the least with a third party to a move.
*upload:* two clients with one file name, one file empty and one of two chunks, so that mixing
would show; one restart can hit every point of a call, and one empty chunk at a time can be read at every
point of the stream, any number of times. *message:* a name of 126 characters has a length
of two bytes when its message is nested; `MaxHeld` and `MaxUnknown` bound what the caller
keeps and the unknown fields that pile up in a message. `MaxTasks`, `Objects`,
`MaxRestarts` and `MaxEmpty` only bound the runs; the theorems do not bound them.

Deadlock is not checked: all programs stop by design once their work is done, and what must
not stop is stated as liveness.

Fairness. *Pool:* every worker and the manager get strong fairness: a thread that waits for
`mutexPool` gets it eventually, because no thread holds it while it sleeps or runs a task
and the manager sleeps a second in each pass; a producer that has called or was woken likewise. The owner's steps
need only weak fairness, they wait for nothing but the end of the manager. Neither clients
nor the owner have to call anything, and nothing wakes spuriously by fairness. With a
`queueSize` of 1 at the start the pool may call a task nobody wrote; the liveness properties
end there (`Undefined`), and hold of every run that avoids it.
*firstn:* the single thread runs. *parallel:* the caller and each task of the pool run; that
the pool goes on to start tasks is what `EveryTaskRuns` shows of `ThreadPool`, and no step
waits for another thread but the caller's loop. *upload:* each client and each
call go on. Nothing else has to happen: the server need not start, and librados need not
answer a write, for which the code sets no timeout; nothing has to break or to fail, and reads that
fail need not work again. Hence the two exceptions in `EveryUploadEnds`: a client that
does not end is one whose reads fail again and again (`client.go:52-55`), or one whose call waits in
`write_full` for ever.

In `pool_liveness` the owner destroys the pool only after all tasks have run, as
`test_pthreadPool` does; a pool destroyed earlier drops its queue, by intention.

`FairShares` and `IndependentReplicas` are statistical statements about one fixed run of
the program: a share may deviate by four standard deviations of independent draws, which a
hash that prefers a bucket or ties a replica to another one exceeds by far. `Avalanche`
asks likewise of each argument of each hash function that flipping one of its bits changes
about half of the bits of the result.

### Disagreements between code and documentation

1. `threadPoolDestroy` frees the pool beside running workers (`pool_use_after_free`).
2. `queueSize` is never initialised (`pool_empty_queue`); on a fresh heap it happens to be
   zero. `InitialisedQueueSuffices` proves that initialising it is all that is needed.
3. The parallel collision test misses replicas chosen at the same time
   (`parallel_replicas`); `DiffersFromReported` states what it does guarantee, and
   `OneWorkerKeepsReplicasApart` proves that it takes two workers.
4. A failed write is answered with OK (`upload_success`): `EXIT_FAILURE` is positive.
   `StoredUnlessRefused` proves that nothing else makes a reported success untrue.

Further places where the code and a comment differ, without a run of their own:

- `liveNum` can exceed `maxNum` while the pool is destroyed: a thread that leaves clears its
  entry, and the manager, which decided on an earlier copy, fills it (`threadpool.c:279`).
- The manager sleeps one second, not three (`threadpool.c:251`), and grows at one queued
  task, not at more tasks than threads (`:266`). The last matters: `StallRepairable` makes
  a stalled pool recover because a single waiting task is enough to start a thread.
- The last entry of `__RH_LH_tbl` is `0x0000ffff00000000`, where the comment
  (`crush_ln_table.h:24`) gives 2^48: `crush_ln(65535)` is smaller than `crush_ln(65534)`.
  The entries of `__LL_tbl` from the third on lie above the values its comment gives.
- `crush.h:31` allows bucket weights of 32 bits, but a draw takes the weight as an `int`
  (`rseudo_random_number.h:43`): from 2^31 on a straw is negative times too large, and the
  heaviest item loses to the lightest.
- A host has fifteen devices, not twelve (`main.cpp:97`).
- In the unused `init`, `max_devices` is one less than the number of devices
  (`main.cpp:178`; `crush.h:369` wants one more than the largest).
- The buckets' `alg` of 6 (`main.cpp:29`) is none of the algorithms of `crush.h`.

## 4. What is proved

All theorems hold for every value of the constants within the named assumptions of the
modules (`PoolAssumption`, `SizesAssumption`, `MapAssumption`, `CallAssumption`, ...). Each
rests on an inductive invariant with one lemma per action, or per kind of effect.

### The pool (`ThreadPoolProofs`)

For every number of clients, workers and tasks, every capacity and **every** initial
`queueSize`: `TypeCorrect`, `PoolSizeCorrect`, `StallsAreRepairable`,
`FixedPoolNeverStalls` (a pool with `MinNum = MaxNum` does not stall), `BusyWorkersCounted`
(`BusyCount`) and `NoProducerForgotten` (`ProducersNotForgotten`).

`PoolInvariant` is the invariant behind the first four. `TypeInv` adds to the types that
calls in progress fit into `MaxTasks`. `PoolSize` is inductive only together with
`Destruction`, which says how far the owner and the manager have come relative to
`shutDown` and `freed`: after the manager is joined nobody creates threads, and a worker
leaves uncounted only once `shutDown` is set. `StallRepairable` needs `Mutex`, which relates
`mutexPool` to the two places that hold it across steps, a worker about to sleep and the
scanning manager: a worker that is about to sleep excludes a simultaneous `threadPoolAdd`,
so that the task's signal is not sent before it sleeps. When the last worker that was awake
retires, `PoolSize` makes `liveNum` the number of the others, which is below `maxNum`
because the retiring one is still in the table.

For a `queueSize` that starts with 0: `EveryTaskAccounted` (`TasksAccounted`),
`InitialisedQueueSuffices` (`SleepsWithoutTask`) and `PoolImplementsTaskPool`, the
refinement of `TaskPool`. The run `pool_empty_queue` shows that the assumption is needed.
Every step is classified by its effect on tasks (`Effect`): it puts one into the ring, takes
one out, runs it, ends it, or leaves tasks alone. `Ring` says that the k-th place from
`queueFront` holds the k-th of the last `queueSize` accepted tasks, `Own` that no two workers
hold the same task, and that one that has left the queue has run once or is held by a worker
and has not run; the refinement follows from the same classification.

The end of the pool, for every initial `queueSize` again: `HolderReleases` (`Held`: a locked
`mutexPool` is in the hands of a worker about to sleep or of the manager in its scan, and
both go on to release it), `ManagerIsJoined`, `ShutDownEnds` and `DestroyNeverStuck`. The
measure of `ShutDownEnds` begins with the manager's pass, because a pass that has begun may
still start workers; then come the steps left to all workers (`WorkSteps`: a worker that
wakes, by a signal or without one, finds `shutDown` and leaves), the calls in progress, those that
sleep counted twice, and the owner's signals. See "Coming to an end" below for what the two say together.

### Placement (`CrushFirstnProofs`, `MapConstructionProofs`)

`FirstnIsPlacement`: `crush_choose_firstn` with its recursive call implements `Placement`,
for every well-formed map, whatever is drawn and rejected, and all arguments;
`ChosenDomainsDiffer`, `NoDeviceOverlooked`, `FirstnTypes` come from the same invariant.
`Control` ties the position in the loops to the locals of the two frames, `InLeaf` says
what the recursive call knows of the caller's list, and `Listed` that the two arrays hold
different items and different usable devices up to `outpos`. `CallAssumption` asks that
`vary_r` leads to a defined shift. `DevicesBelowDomains` (`DevicesInDomains`) adds that each
chosen device really lies below the domain chosen with it: the recursive call is entered with the
domain as its bucket, and a path of references from a bucket to a device puts the device
into the recursive function `Devices` of that bucket. That last step is an induction over
the length of the path; `Induction` states it for a set of numbers, not for a predicate, so
that the provers can use it.

`EveryStepIsProgress`: each step lowers a list of nine numbers, four of the caller's frame (replicas
left, attempts left, depth below the bucket being searched, local attempts left), the level,
and four of the recursive call. `ADrawIsPossible`: when a bucket has items, one of them
agrees with the earlier draws, so that the search for a replica never stops halfway.

`DomainsAreDisjoint` (`FailureDomainsDisjoint`) holds of every state of the recursion for
all sizes of the three levels; so does `SlotsMatchIds`: each bucket is in the slot that its
id names, and its references lead to stored buckets with larger slots. A descent therefore
stays within the map and ends, which is what `MapAssumption` asks and what the code relies
on when it dereferences `buckets[-1-item]` before it checks the index. `Counters` says how
many slots and devices the levels have used; `Pending` that the bucket under construction
has the id of the slot its caller has set aside; `Consistent` that no item is in use twice,
in finished buckets or in those on the stack; `ForwardInv` is the order of the slots.
`LayoutInvariant` is what the recursion leaves where: for each level, the slot, the items and
the weight of the bucket number `i` as functions of `i` and the sizes, for finished buckets
and for the filled part of those on the stack. `RecursionBuildsTheMap` (`BuildsProgramMap`)
follows when the stack is empty, and `BuiltMapIsWellFormed` shows that this map satisfies
what `MapAssumption` asks of the maps of the placement's theorems.

### The draw of straws (`StrawProofs`)

`QuotientValue`: the long division by which `StrawDraw` computes a 48-bit number over a
weight, in digits that fit TLC's integers, gives quotient and remainder for every dividend below
2^52 and every positive divisor. `BucketInvariant`: the bucket of `Straw2`
stays a list of different items whose weights have the program's width. From these:

- `LeastMovement` (`MovesOnlyWithWeight`): for every bucket and every change of one weight, an
  object moves only to an item that became heavier or away from one that became lighter. A
  straw of an item that did not become lighter does not get shorter, since the quotient of
  the same logarithm by a larger weight is not larger (`StrawGrows`); if the winner
  changed between two items of which neither explains the move, each of the two straws would
  have to be at least as long as the other in both epochs, so they would be equal, and
  the loop takes the first of equal straws in an order that the change keeps.
- `LongestWins` (`LongestStrawWins`): the winner can be drawn at all, and beats every item
  before it that is as heavy and has as large a logarithm. The parameter of the draw is an
  `int`, so a weight of 2^31 or more would count as negative there, and of two negative
  weights the larger logarithm has the shorter straw: hence the hypothesis that weights are
  below 2^31. The program's sums are far below.

Both assume `LogarithmsFit`: `crush_ln` of each of the 65536 possible hashes is below 2^48.
This is a statement about two tables of constants, and TLC evaluates it for every hash
in the run `straw2`. So that the proofs can unfold it, `Quotient` is a recursive function
over the positions of the digits and not a recursive operator.

### Parallel placement (`PooledPlacementProofs`)

For any number of replicas, objects and attempts, any ends of the descents and any content
of a new array: `ThreadsStayWithObject`, `ReportedStay`, `ReplicasAreUsable`,
`ReportedDiffer` (`DiffersFromReported`) and `PrimaryIsSequential`. `Progress` makes `outpos`
the number of threads that have reported, so that the caller goes on only after the last
one; `Chosen` says what a thread past its test holds, `Different` which replicas it has been
compared with, and `PrimaryTried` that every earlier attempt of the first replica failed
because of what was drawn: it compares with nobody.

`PooledPlacementIsSafe` carries the four over to the pool: its steps are steps of
`ParallelPlacement` or leave its variables alone. `NoTaskIsLost` and `QueueHoldsOneObject`
number the tasks: those accepted are all tasks of the earlier objects and the launched ones
of this one, and a thread that has begun has its task started. At most `NumRep` tasks wait,
so that the call of `threadPoolAdd` never blocks on the queue's ten places.

`OneWorkerKeepsReplicasApart` (`ReplicasDiffer`): with one worker a task is started only when the
one before it has returned (`Held`, `InTurn`), so that each replica sees all lower ones at its
last test (`SawLower`), and `ReportedDiffer` does the rest. With two workers TLC finds
two equal replicas (`parallel_replicas`).

`EveryTaskStepIsProgress` and `PlacementNeverStuck`: the measure is the objects left, the place of
the caller, the tasks it has to add, whether the pool is there, the attempts left to all
threads, and the functions that have not returned. For the second, `Holding` says that the tasks
held are those started and not finished, and `TaskBefore` that the task just before that of
the lowest waiting replica has begun: it is the next in the queue, so that a free worker
takes it.

### Upload (`UploadServiceProofs`)

For any number of clients, chunks and restarts: `StoredObjectsAreUploads`,
`NothingUnderDefaultNames`, `SuccessIsAboutOwnFile`, `UploadTypes`.
The invariant says per call what it has read and written (`Call`: a prefix of its file, all of
it unless the stream broke), that every object is what some call wrote (`Objects`), and
bounds the racy `count` by the calls that have counted (`Counts`). `StoredUnlessRefused`
(`SuccessMeansStored`) is the case in which the cluster takes every write.

`UploadsRunOut` and `UploadNeverStuck`: each upload has a measure of its own, what its client
and its call have left, the empty chunks on their way and whether its stream still holds.
Every step of the upload lowers it, except that the sending of an empty chunk raises the
third number and leaves the first two; no step of another upload and no restart of the server
raises it. So an upload takes steps for ever only if reads of its file fail for ever. A client waits for
nothing but its own call, and a call for nothing but its client and librados' answer; on a broken stream a
client whose reads fail goes round its loop (`Spins`). No bound on the restarts is used.

### Messages (`MessageProofs`)

For any set of messages, any texts, sizes, chunks and any wires that a peer sends, well
formed or not: `ObjectsHaveOneOwner` (`OwnedOnce`), `MessagesAreApart` (`NoAliasing`),
`SentArrives` (`ArrivesAsSent`) and `ParsingIsMerging` (`ParsingMerges`). `MemoryInvariant`
is the induction: a memory is `Sound` when it has its shape and the heap is `Owned`, that
is, finite, every set pointer leads to an object of the kind its case says, no two messages
share one (`Share`), the caller has none of theirs, and nothing is left over (`Leaked`).
`Sound` also says that unknown fields are whole fields with other tags (`Plain`): otherwise
a message that is sent could be read as something else.

- The functions of `UploadMessage` are made of six changes of ownership: forget, delete,
  allocate, give, release and swap. Each has a lemma about heap, messages and caller
  (`OwnedForget`, `OwnedNew`, `OwnedGiven`, ...). That `new` returns an address that is free
  is a count: among one more number than the heap has objects one is not in it.
- `After(s, t, r)` says that a call on `r` leads from `s` to `t`: `t` is sound and the other
  messages hold what they held. It composes, so that each function follows from those it
  calls, and `InternalParse` by induction over the fields.
- A parser must come to an end on every wire before anything can be said about the result.
  The recursion over the bytes and the one over the fields are functions whose existence
  is shown by `NumberInduction`, for every sequence of bytes.
- `VarintEncodes`: the number read from the bytes of `Varint(n)` is `n`, whatever follows
  them, by induction over the quotients by 128. The first field of a wire depends on its
  bytes alone (`FieldLocal`), so that fields written one after another are read one after
  another (`FieldThen`, `FieldsStep`) and parsing them is a run over a concatenation
  (`InfoRunThen`, `RequestRunThen`).
- `InfoReadBack`, `ParsingAbsorbs` and `SentIsMerged` go up from the fields to a `FileInfo`
  and a request: what was written is absorbed by what is there. Parsing into a cleared
  message gives the content as sent (`SentIsReceived`), parsing into another one merges.
  `SizeAnnounced` is the same walk over the lengths: the cached length that is written
  before a `FileInfo` is that of the bytes after it. A name that is not UTF-8 makes the
  parser fail, whatever follows (`RequestRejected`).

For the handler, and all sequences of names and chunks of any bytes: `HandlerInvariant`,
`StreamIsHandledInOrder` (`HandledInOrder`) and `HandlerOwnsWhatItHolds`. `HandlerInv` says
what the object that receives every message and the locals hold at each place of the loop:
after a `Read` the object carries the message read and nothing of the one before
(`Carries`), `bl` the chunks before it and `name` the last name before it; after
`mutable_info` the name is a copy, so that `mutable_chunk_data` may delete the `FileInfo`.
It needs the whole theory of the wire (`MessageRead`) and that of ownership
(`ChunkTaken`). `HandledInOrder` alone is not inductive, since it speaks of the moments
between two messages only.

### Coming to an end (`Induction`)

`Lower(p, q, n)` is the lexicographic order on lists of `n` numbers, and `NoEndlessDescent` proves
that lists of natural numbers do not go down in it for ever. For four liveness properties the
part that is a matter of states and steps is proved with it, for every value of the constants:

| property | every step goes down | somebody can go on until then |
|---|---|---|
| `Returns` | `EveryStepIsProgress` | `ADrawIsPossible` |
| `DestroyReturns` | `ShutDownEnds`, once `shutDown` is set | `DestroyNeverStuck` |
| `AllTasksReturn` | `EveryTaskStepIsProgress` | `PlacementNeverStuck` |
| `EveryUploadEnds` | `UploadsRunOut`, for each upload, but for empty chunks | `UploadNeverStuck`, while reads work and librados answers |

"Can go on" is stated by the guards of the steps. That such a thread is then scheduled, and
that these parts make the liveness property, is left to TLC: it needs fairness and `ENABLED`.

## 5. What is only model-checked, and what is not modelled

Only TLC:

- all liveness: fairness and `ENABLED` are outside the proof system's reach. Of
  `EveryTaskRuns`, `EveryAddReturns` and `IdlePoolShrinks` there is no measure either: a pool
  that is not shut down works on for as long as clients come, and its manager for ever;
- `LogarithmsFit`, `LikeALogarithm`, `Avalanche`, `FairShares` and `IndependentReplicas`: they
  are about concrete bits and tables, and `CrushHash` uses `Bitwise`, about which the proof
  system proves nothing.

Not modelled:

- `init` and `do_work` (`main.cpp`): dead code, an earlier map builder and a fourth copy of
  the numbered functions;
- `UploadFileResponse`, arenas and reflection in the generated code: the response has the
  fields of a `FileInfo`, and no message is on an arena;
- the gRPC stubs and the Go messages: the stream is modelled as ordered messages that may
  break;
- CityHash, which nothing calls, and the headers of types and configuration;
- `main`'s printing and timing; failures of `malloc` and `pthread_create`, and the
  destruction of condition variables with sleepers, which are undefined behaviour
  that no component could see; what librados does with a client that is not connected, and
  the cluster behind it.

## 6. Open ends

1. A pool with one worker keeps the replicas apart, but `ParallelPlacement` is still no
   implementation of `Placement`: a replica that was given up leaves a hole in `out`, where
   `crush_choose_firstn` closes up. An abstract specification of lists with holes would serve both.
2. Failing `pthread_create` as a constant set of moments, with `PoolSize` restated for the
   threads that exist.
