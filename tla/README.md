# A formal model of cpptoolset

TLA+ modules that model the stateful parts of the library, the TLC
configurations that check them on small instances, and theorems about the
scheduler, the queue, the allocators, the logger, the directory watch, the
signals, the file system with its archive and the memory of the LISP
interpreter that TLAPS checks for every instance. Everything is translated from the code in
`base/`; a comment or a document of the repository is used only as the
statement of what a piece of code promises.

## 1. The system

cpptoolset is a library, not a program: applications (those under `tests/`
are samples) link it and call its components from their main loop and their
threads. The components meet in few places. All of them log through the
logger, which is global and says of itself that it is not thread safe. Jobs of
the scheduler may use the queue and the allocators from several threads. The
watch thread of the file system and the application's main loop share the list
of changes. The file system's facade decides for each path whether a plain
file or an archive serves it. Signals interrupt everything.

| Component | Source | State | Operations | What is hard | What makes it correct |
|---|---|---|---|---|---|
| Job scheduler | `base/scheduler.hpp` | busy flag, run flag and mailbox per worker; counter of free workers | `schedule`, `trySchedule`, worker loop, `notify`/`wait`, `shutdown` | callers and workers interleave between any two atomic operations; notification before the wait; shutdown at any time | a worker is claimed once; a job is not started twice; the counter accounts for the flags; callers never wait; shutdown ends with all workers gone |
| Bounded queue | `base/queue.hpp` | ring of cells with sequence numbers, two positions | `push_ts`, `pop_ts` | lock-free; lost compare-exchanges, laps | no two threads in a cell; first in, first out; full and empty are real; calls return |
| Free-list allocators | `base/freelist.hpp` | linked free nodes, pages, a bin for other threads | `add`, `remove`, `remove_ts`, `clear` | pages added in the middle; freeing by other threads | no node lost or handed out twice |
| Logger | `base/log.cpp` | circular buffer, four counters, file, signal handlers | `init`, `log`, `process`, `getBuffer`, `shutdown`, signal handler | the handler re-enters `log` and `process` between any two updates | file plus pending is what was logged; a signal loses nothing |
| VFS archive | `base/fs.cpp` | index in memory, remove queue, index offset; header, data and index on disk | create, open, add, remove, read, defragment, flush, close | long sequences of stores and removals; defragmentation; index overwritten while open | what was stored is read back, also by the next program |
| Directory watch | `base/fs.cpp` | changes, availability flag, run flag, kernel queue | `addWatch`, `pollWatch`, `removeWatch`, watch thread | two threads share a list without a lock around it; stopping a thread in a system call | no change lost, repeated or reordered; removal returns |
| File system facade | `base/fs.cpp` | directories, preference, archives by path | `load`, `store`, `remove`, `exists`, listings | plain file and archived file of one name; preference changed in between | a load sees the last store |
| Hotkeys | `system/hotkey.cpp` | binds, X11 grabs | `add`, `remove`, `process`, `shutdown` | partial failure of eight grabs | the grabs are those of the binds |
| Signals and slots | `base/sigslot.hpp` | list of slots | `connect`, `disconnect`, `fire` | slots that change the list while it is iterated | a call of `fire` calls what was connected when it began and still is, once |
| LISP interpreter | `base/glisp.cpp` | flat cell vectors, variable stack, call stack, detached lists | `parse`, `eval`, stack helpers | cells moved while addresses are held; lists left open by quotes | names have the values they were bound to; the stack is tiled by variables; what is printed is read back |
| Tokenizer | `base/tokenizer.cpp` | rules, position | `begin`, `next` | skipping, end conditions, escapes | the tokens are those the rules promise |
| Streams | `base/stream.inc.hpp` | bytes, position | `read`, `write`, `setPos...` | writes in the middle, short reads, positions beyond the end | reads return what was written |
| Strings, random, math, images, timers, profiler, hwinfo, framework | `base/`, `system/` | little or none | pure functions, wrappers | floating point, third-party codecs | not for a model checker |

`ext/` is third-party code and is left aside.

## 2. Modules

| Module | What it is |
|---|---|
| `Scheduler` | the scheduler, one action per atomic operation or critical section |
| `BoundedFifo` | what a bounded queue promises (abstract) |
| `QueueMPMC` | the lock-free queue, shown to implement `BoundedFifo` |
| `FreeList` | the paged and the fixed-size allocator on one thread |
| `FreeListMpsc` | the same with `remove_ts` and the bin, extending `FreeList` |
| `Log` | the logger and its signal handler |
| `Archive` | one `.gfs` archive: its file and its index |
| `FileSystem` | the facade over plain files and one archive, extending `Archive` |
| `DirWatch` | the directory watch on Linux |
| `Slots` | a signal, its slots and the calls of `fire` that walk them |
| `GlispCells` | the interpreter's cells and the operations on lists laid out as cells |
| `LispEnv` | what the interpreter promises: names bound to values in scopes (abstract) |
| `Glisp` | the interpreter's memory, shown to implement `LispEnv` |
| `Tokenizer` | the tokenizer, for any rules |
| `LispReader` | the interpreter's reader: `Tokenizer` with its rules, and the cells it makes of the tokens |
| `Stream` | the memory stream, and the interpreter's cells written to it |
| `..._proofs` | inductive invariant and theorems of `Scheduler`, `QueueMPMC`, `FreeList`, `Log`, `DirWatch`, `Slots`, `Glisp`, and of `FileSystem` with `Archive` |
| `MC...` | instances for TLC |

Operators defined just before the definition they resemble and marked
`Mutant:` are deliberately wrong forms of it. Each property is known to fail
when one of them takes the place of the original.

### Scheduler

`pc[t]` is the step thread `t` takes next; callers and workers share the steps
of `schedule()` because a job may schedule jobs. `ReadCount`, `Claim` /
`SkipWorker` / `ScanFailed`, `Decrement`, `NotifyJob` and `RunInline` are
`trySchedule` and the fast path; `compare_exchange_weak` may fail for no
reason, which `SkipWorker` allows. `CheckRun`, `EnterWait`, `SleepAgain`,
`SpuriousWakeUp`, `TakeMessage`, `JobDone`, `Increment`, `ClearRunning` are
the worker's loop, `StopWorker`, `NotifyEmpty`, `Join`, `DeleteWorkers` are
`shutdown`. The mailbox is read and written only under its mutex, so a
critical section is one step. A job is a name and the jobs it schedules.

### Queue

Each load, store and compare-exchange is an action; the release store and
acquire load of a cell's sequence order the accesses to its data, so the steps
can be interleaved. A push takes effect in `BoundedFifo` when it claims its
position, a pop when it claims its own; the item a consumer has claimed and
not yet copied is still in the cell, which is the refinement mapping's
`LastTaken`. The history variable `pushed` holds the items in claim order.

### Allocators

A node is a union: constructing an object destroys the link, which becomes
`Garbage`. `Take` is the second half of `add`, shared by the branch that adds
a page and, in `FreeListMpsc`, by the branch that takes the bin over. The
variable `growable`, which no action changes, tells the paged allocator from
the fixed-size one, which starts with its only page and has `Clear`. `Partition`
says what the list is without walking it: it never leads to a node in use, no
set of free nodes is closed off from the head, and some node ends it.

### Logger

One action per global that `log` and `process` update, because the signal
handler may strike between any two. The handler runs to its end (a second
signal returns at once), so it is one action. Messages are numbered, the text
and the level do not matter. A real buffer has 64 slots.

Nothing keeps a program from logging before `init` or after `shutdown`, and
`LogStore` and `Process` do not ask for an open file. `process` then counts the
messages down without writing them. `init` clears the position and the size,
but not `v_processCount`, so a session may begin with messages pending; the
history variable `carried` remembers that it did. In such a session `process`
divides by a `v_size` of zero or writes what another session left, against the
comment at `log.cpp:107`; the model goes there, and `FileAndPending` and
`SignalKeepsCompleted` speak of the sessions that began with nothing pending.
`BufferShowsLatest` needs no such hypothesis: it holds between any two calls,
in a session or outside.

### Archive

`vfs` is the struct of the source with its file: `units` are the file's
contents behind the header, counted in units that name the store that wrote
them, so that a misplaced read is seen. The operators `vfs_add`, `vfs_remove`,
`vfs_read`, `vfs_close` and `defragment` are the functions of the same names,
and an action is a whole call of the file system's `store`, `remove`, `flush`,
`close` or `initArchive`.

The contents are what a read through the open archive gives. Calls end with
what they wrote in the file, since the `fseek` or `fclose` that follows empties
the buffer of stdio, but for `createArchive`: it writes header and index
(`fs.cpp:302`) and leaves them in the buffer, and the archive is not dirty.
`inBuffer` is TRUE from there to the next call that writes or closes; a program
that dies meanwhile leaves an empty file.

`_vfs_write_index` asserts that `fwrite` has written two pieces
(`fs.cpp:282`). For an archive whose last file was removed the second piece has
no bytes, `fwrite` returns 0 for it (`writeCount`), and the assertion fails. A
build without `GE_DEBUG` logs an error and goes on: `vfs_close`. A debug build
stops in it: `trap`, which leaves the data cut to nothing and the header
pointing behind the end of the file. Both are in the model.

### File system facade

`FileSystem` puts the plain files of a directory and the archive in it side by
side. A path below the archive's prefix may name a file in either, or in both;
`resolveLocation` is `_resolveLocation` for such a path and decides from the
preference and from what is open and exists. A whole call of the facade is an
action, which leads to the archive's action or changes a plain file. The
archive's own file is a plain file too: `RemoveArchive` removes it with its
index, as `remove()` of its path does.

`StoreIsSeen` is what the program relies on. Of a store it says, for the path,
the length and the choice of compression of that very call, that a load of the
path gives what was stored, wherever the preference sends the two, and that no
other path reads differently. Only what an archive cannot take, nothing
uncompressed, is lost, together with the file it was to replace. Of all other
calls (the preference changed, archives flushed, closed and opened, files
removed) it says that they keep `LatestIsSeen`: a path that nobody has removed
reads as it was last stored, as soon as `_resolveLocation` leads back to where
that was. `CleanIsDurable` is about a program that ends between two calls
without `flush` or `close`: as long as the archive is not dirty, the file can
be opened again with everything in it, or it is one just created, whose bytes
are still in the buffer, and nothing has been stored. A dirty archive cannot be
opened again, because new data overwrites the index at once.

### Signals and slots

`m_slots` is the list, and `walks` are the calls of `fire()` under way, each
inside a slot called by the one below. A slot may do to the signal what any
code may: connect, disconnect, fire. Erasing a slot that some walk is calling
leaves that walk with a dangling iterator; `intact` becomes FALSE and the model
stops, as it does at the disconnection of a slot that is not in the list.
`WalkVisitsStart` says what is left to rely on.

### Directory watch

The kernel (`Event`), the watch thread and the main loop. `select` may return
at any time: it has a time limit of half a second. The flag `watchAvailable`
is read and set outside the mutex by the source, and each access is a step.
History variables hold what the kernel queued and what the polls returned.
A call of `addWatch` that fails leaves its entry (`watch = "leftover"`), and the
next one goes on with it (`MakeEntry`); a debug build stops there, at the
assertion that there is no such entry.

### Interpreter

`state` is `lispState`: `stack`, `variables`, `lists`, `listsPool`, `callStack`.
The operators `detachVariable`, `listOp`, `popCallStackLeaveData`,
`sweepStack` take and return it as the functions do. An action is one
statement of a program, with the cells it leaves behind on the stack
(`garbage`); outside every frame `EndStatement` sweeps, as `lisp::eval` does.
`Enter` and `Leave` are the beginning and the end of `progn`, `let` and calls,
whose bindings are made as by `defvar`. The values are literals, nested lists
whose atoms are told apart by a number.

`LispEnv` knows nothing of cells: its values are nested sequences, its scopes a
list of bindings. The refinement mapping reads each variable at the address
`getVariableAddress` yields and decodes the cells (`Nested`), so the layout
arithmetic of `GlispCells` is checked along with the memory. The memory can be
broken by legal programs, in five ways:

- `sweepStack` moves a detached variable and its container is not found again
  (`glisp_sweep`), or another key's container is;
- a container in the pool is used again under its key, stays in the pool, and
  is then handed to another variable;
- more than `MaxPooled` containers in the pool: all are freed, and their keys
  stay, so that the next detach dereferences `end()`;
- `unbound` of a detached variable marks the head of its container, and the
  variable stays bound to it;
- `pop` on an empty list erases the list's head.

The history variable `intact` becomes FALSE there, and the model follows the
program no further: what comes after is undefined behaviour or a variable that
reads `nil`. `ImplementsEnv` says that there is nothing else.

### Tokenizer, reader and streams

These are functions of their input, so the modules are operators. The run of
the interpreter has one sample of a set of inputs read (`ReadSample`) instead
of a program run, and its invariants say what must come of it.

`Tokenizer!next` scans from a position as the loop of `next()` does; `Tokens`
is `begin()` and `next()` to the end. `TokensAsLexed` compares it with a lexer
that looks at one character at a time and never goes back. `LispReader!parse` is a fold over the tokens with the stack of open
lists; `ReadsBack` prints programs, with spaces, line ends or comments between
the forms, and demands that `parse` lays out the cells of what was printed.
Two hypotheses say where the code does not:

- a text that begins with an empty comment, string or vector (`BeginsEmpty`):
  the end of a token is not looked for in the second position of the input
  (`_i - 1 != _begin`), so the token goes on;
- a form quoted twice, `''a` (`QuotesAQuote`): the inner quote is closed by its
  second element, the outer one only before the next opening of a list or
  after the next atom, which it takes in.

`Stream` is the memory and the position. A number is written as `WordSize`
units that name it, a character as one, so a read that starts in the wrong
place finds something that is no number. `StreamReadsBack` writes vectors of
cells, goes back to overwrite one of them in place, and reads them all.

## 3. Runs

Runs that pass:

| Run | Bounds | What it shows |
|---|---|---|
| `scheduler` | 2 workers, 2 callers, 4 jobs, one of which schedules another; shutdown at any point after the callers are done | no job is started twice, claims are exclusive, the counter is accounted for, no use of deleted flags; callers finish; a sleeping worker runs its job |
| `queue` | 2 cells, 2 producers, 2 consumers, 2 calls each: two laps | cells are exclusive; the queue implements `BoundedFifo`; full and empty are real; calls return |
| `freelist` | paged: 2 pages of 3 nodes; fixed: 3 nodes | nodes are held or free, never both, never lost |
| `log` | 4 slots, 12 messages, 2 sessions and messages outside them, a signal anywhere: wraps three times | file and buffer contents; a signal keeps completed messages while there is room |
| `archive` | `FileSystem`: 3 paths, 4 stores of 0, 1 or 2 units, compressed or not; defragmentation above 3 units; header of 6 units before its upper half would be needed | what a load sees, right after a store and after any calls that follow it; restart, with and without closing; tiling |
| `slots` | 5 slots, 3 calls of `fire`, up to 3 inside one another | walks over a list that changes |
| `dirwatch` | 3 events of 4 kinds, kernel queue and buffer of 2, 2 watches | no race on the list, no change lost; every change arrives; removal returns |
| `glisp` | 2 names, 2 variables, an atom and a list as literals, values of 3 cells, one nested frame, stack of 5 cells inside it, `MaxPooled` 1 (5 in the source); texts of up to 5 of 8 characters; programs of two forms nested up to three deep, 3 separators; vectors of up to 2 cells of every type | while the memory is intact the interpreter is `LispEnv`; every value is well formed, where it lies or in its container; sweeping leaves no unused cell; no container is lost to both variables and pool; texts, programs and vectors of cells are read as they were written |

Runs that exhibit a disagreement between the code and what its comments,
documents, assertions or tests say:

| Run | What it shows |
|---|---|
| `scheduler_shutdown` | a notification that comes before the worker is in `wait()` is erased by it: `shutdown()` may never return, with all jobs done (a job handed over that way is never run, for the same reason) |
| `freelist_mpsc` | the loop of `remove_ts` repeats while it succeeds; a node is handed out while it is in use |
| `archive_holes` | defragmenting two separate holes destroys data |
| `glisp_sweep` | unbinding or shrinking a variable loses the value of a detached variable above it |

More things the models show, or that were seen while writing them, which no
run is spent on. A signal in the
middle of the `log()` call that fills the buffer overwrites the oldest message
not yet written, which is why `SignalKeepsCompleted` asks for room; one
between the updates of `v_pos` and `v_processCount` leaves its own message out
of the file. An archive that is past 4 GiB when it is closed does
not open again, because closing rewrites only 32 of the header's 64 bits
(`HeaderBase` stands for 2^32). `archive` goes past it, but `SurvivesClose` and
`CleanIsDurable` say in their hypotheses that the contents end below it: they
cover an archive that shrinks back, and not one that stays large. Closing or
flushing an archive whose last file was removed fails the code's own assertion
(`fs.cpp:282`): see `trap`, above. A file that was just created as an archive
stays empty until something is written or it is closed, and an empty file does
not open as an archive (`fs.cpp:337`). Replacing a file reads its
create time through an iterator to the entry just erased, which is then its
neighbour's (`fs.cpp:560`; times are not modelled). With archives preferred, an
open archive hides every plain file below its prefix, also those it does not
hold (`fs.cpp:633`). `store()` to a global path that names a file resolves it
and then writes to the path joined with the directory of its type
(`fs.cpp:924`), where `load()` does not look. `addWatch` makes its entry before
inotify can fail and leaves it behind, against its own assertion that there is
no entry under the next id (`fs.cpp:1243`); if it is `inotify_add_watch` that
fails, the descriptor stays open, too. `init()` does not clear `v_processCount`: a message logged
while the logger is closed makes `process()` of the next session divide by a
`v_size` of zero, against its comment that a positive count implies a size
(`log.cpp:107`): see `carried`, above.

Why the bounds are enough. In the scheduler a claim, a lost claim, a full pool
and nesting all occur with two workers and two callers. Two cells are the
smallest queue the constructor accepts, two threads on a side the smallest
number that can lose a race, and four pushes take it through two laps; the
proofs do away with all three bounds. Four slots leave room for both a signal
and messages that are pending. In the dirwatch, three events overflow a queue
of two. In `glisp` two variables are enough for one to move under the other,
two names for a container to change hands or a name to be shadowed, three cells
for a nested list, and one frame over the global scope for a pooled container
to be reused, stolen and freed. In the archive the three sizes give empty files, merged
holes and a hole on either side of live data. `archive` does not look beyond a
defragmentation of two separate holes, because `archive_holes` shows that the
archive is spoilt there; its properties say so in their hypothesis
(`~spoilt`), and the constraint `NotSpoilt` spares TLC the states beyond.
`DefragLimit` and `HeaderBase` stand for 100 MB and 2^32. Five slots and three
walks let a slot of the innermost walk change the list in front of, between and
behind the places of two others. Five characters hold an escaped delimiter
inside a string, and a comment between two tokens; of the forms, every kind
occurs inside every other.

Deadlock is not checked: the programs these modules describe come to an end
(all jobs done, all calls made, the signal handler has exited, the bound on
stores or slots is reached, the memory of an interpreter or of a walk is
broken).

Fairness. Threads are scheduled by the operating system, so every thread that
can take a step takes one eventually (weak fairness of each thread's step). A
weak compare-exchange does not fail for ever without a reason (strong fairness
of the claims of the queue). Nothing is assumed of spurious wake-ups, of
signals, or of a thread's decision to call an operation, except that a main
loop which watches a directory keeps polling, as `tests/file_watch` does.

## 4. Proofs

`Scheduler_proofs` proves, for every number of workers, any finite set of
callers, any jobs:

- `TypeCorrect`: `Spec => []TypeOK`.
- `ClaimCorrect`: `Spec => []ClaimIsExclusive`. `TypeOK` says where a thread
  may be but not that a mailbox which is about to be overwritten belongs to
  nobody else; the invariant therefore adds that a worker which is still
  running (its `run` flag set) has at most one of: a claimant, a pending
  message, a job in hand, and that any of these implies its busy flag. One lemma per conjunct and group
  of actions, and the temporal step by PTL.
- `CountCorrect`: `Spec => []CountAccounting`. Each step moves a worker or a
  thread into or out of one of three finite sets (unclaimed workers, threads
  about to decrement, workers about to clear their flag), and the counter
  follows their cardinalities. It is inductive over the invariant above.
- `ShutdownCorrect`: `Spec => []NoUseAfterDelete`. `StopOK`: only the owner is
  ever in `shutdown()`, and the workers with an index below its own have
  exited.
- `ExecutionCorrect`: `Spec => []AtMostOnce`. Every place a job can be in is
  named (the rest of a caller's program, a thread's hand, a mailbox, the rest
  of what a job spawns), and `Once` says that no job is in two places and none
  that was started is in any. It needs `OnceAssumption`: that the programs and
  the spawning jobs name each job once between them.

`QueueMPMC_proofs` proves, for every size of at least two, any finite or
infinite sets of threads and any number of calls:

- `TypeCorrect` and `CellsExclusive`.
- `QueueIsFifo`: `Spec => ImplementsFifo`, initial state and step by step: a
  push claim is a `Put`, a pop claim is a `Take`, every other step stutters.

  The inductive invariant `IInv` relates the positions (`PosOK`), the place of
  each thread (`ClaimOK`, `OwnOK`), the sequence number of each cell to the
  lap it is in (`WindowOK`), and the data of a published cell to the item
  pushed at its position (`DataOK`, `ValOK`). `ExclusiveCell` is not inductive
  alone: that two claimed positions never fall on one cell needs to know that
  a cell's sequence moves from lap to lap only after its owner has released it.
- `FullOnlyWhenFull` (`FullIsReal`) and `EmptyOnlyWhenEmpty` (`EmptyIsReal`):
  a call gives up only for a reason. `push_ts` decides on a position it loaded
  earlier, so the invariant has to speak of all positions: a position consumed
  is behind its cell's sequence, one less than a lap ahead of the consumers is
  free or still held by the consumer of the lap before (`LapOK`), and one that
  is claimed is filled or its producer is at work (`FillOK`).

`FreeList_proofs` proves, for pages of any size, any number of them, growing
or not:

- `TypeCorrect` and `PartitionCorrect`. `Partition` is not inductive: after the
  head is taken, another node might still lead to it. The invariant adds that
  the list is linked one to one (`IsList`). That a fresh page is a list rests
  on a set of numbers having a least one, which is proved from the library's
  theorem on well-founded orders without its induction rule.

`Log_proofs` proves, for a buffer of any size, any number of messages and
sessions, with a signal anywhere:

- `TypeCorrect`, `FileCorrect` (`FileAndPending`) and `BufferCorrect`
  (`BufferShowsLatest`). A position in the ring says nothing of the message in
  it, so the invariant counts back from the top: the slot `d` behind it holds
  the `d`-th latest message (`Ring`, in a session or outside), and in a session
  that began with nothing pending the next message to write is as far behind it
  as there are messages pending (`WrittenOK`). A case for each
  update in `log()` and `process()`, since `pc` says which globals are ahead of
  the others, and a few lemmas on going round the ring.
- `SignalLosesNothing` (`SignalKeepsCompleted`). The messages of a session are
  numbered upwards (`Increasing`), so those not in the file are exactly as many
  as there are pending, and the room the hypothesis asks for is room in the
  ring.

`DirWatch_proofs` proves, for any sets of events, any limits and any number of
watches:

- `TypeCorrect`, `ExclusiveCorrect` (`ChangesExclusive`) and `DiscardCorrect`
  (`ReadsAfterDiscard`). The flag alone has to say whose turn it is
  (`Turns`); the rest of the invariant is which thread, descriptor and call of
  `removeWatch` there are at the same time (`Lives`), where there are changes
  (`Emptied`), and what the kernel may put past its limit (`Marked`).
- `DeliveryCorrect` (`DeliveredInOrder`): what was delivered, `changes`, the
  thread's buffer and the kernel's queue are, one after the other, what
  happened. Each step moves a change across one of the joints; what it takes is
  that the flattening of a sequence with one more batch is the flattening
  followed by the batch (`FlattenAppend`).

`Slots_proofs` proves, for any number of slots and of calls of `fire` inside
one another:

- `TypeCorrect` and `WalksCorrect` (`WalkVisitsStart`). What a walk has still
  to call is read off the list as it is now, and that list has been changed at
  will by the slots called so far. The invariant rests on `connect` putting a
  slot at the front: every list is in the descending order of the slots'
  numbers, so what is connected under a walk lies behind it (`WalkOK`).

`FileSystem_proofs` proves, for any number of paths, of stores, of lengths and
any `DefragLimit` and `HeaderBase`, as long as no defragmentation has met two
holes that are not adjacent (`~spoilt`; what `archive_holes` shows cannot be
done without):

- `TypeCorrect` (`~spoilt => TypeOK`), `LoadsCorrect` (`LoadsStored`),
  `TilingHolds` (`RegionTiled`), `CloseKeeps` (`SurvivesClose`) and
  `CleanIsComplete` (`CleanIsDurable`). None of these is inductive, because
  each looks at the archive through `vfs_read` or from one side. The invariant
  says that files and holes tile the data region (`Tiled`), that the units at
  each file's position are what was stored under its name, and that no unit
  there can be taken for an index (`Kept`); that the header differs from the
  place of the index only in the part that closing rewrites (`OpenOK`); that
  an archive that is closed, or not dirty, has its index there (`Complete`);
  and that nothing is stored while header and index are in the buffer. For each function of the archive a lemma says that it keeps
  this. The one for `defragment` is the long one: that sorting and joining a
  queue of any length into one hole leaves the hole that the queue covered
  (`MergedToOne`), and that moving the data behind it, and the files with it,
  keeps every file's data under it.
- `StoresAreSeen` (`StoreIsSeen`): the same invariant before and after a call
  gives what every path shows, as a function of what was stored, of the plain
  files and of the preference alone (`View`). What a store does to it is
  `StoreShows`, for the path, the length and the compression of the call; that
  the latest store shows wherever it is looked for is `LatestShows`.

`Glisp_proofs` proves, for any names, any well-formed literals, any number of
variables, cells and frames:

- `TypeCorrect`, with the well-formedness of every value (`HasValue`),
  `StackIsTiled` (`StackTiled`) and `ContainersAreOwned` (`ContainersOwned`). Where a
  variable ends is known only from the counts in its cells, so nothing about
  the layout can be said before it is known what a well-formed value is. It is
  what `nextCell` makes it: `delim` stays ahead of the cells counted until the
  last of them (`Ends`, `IsValue`). `Forest` says the same of `m` values one
  behind the other, which is arithmetic on `delim` and needs no recursion over
  nested lists: forests are joined, put under a head and taken apart, `nthCell`
  finds the places where to take them apart, and each operation on lists is
  such a step or two (`PushedValue`, `AppendedValue`, `RemovedValue`,
  `CarOfValue`, `CdrOfValue`).
- The invariant `IInv` says of the stack that every variable lies there as a
  value, or as a cell that says it has none, and ends before the next begins
  (`LaidOut`); outside every frame, with nothing in between (`Tiled`) and none
  unbound; and while the memory is intact that every detached variable has a
  container with a value (`Stocked`), and all other containers are in the pool
  (`Owned`). `sweepStack` is a recursion over the variables; the invariant of
  that recursion says which variable each kept one was (`SweptBy`) and that it
  never moves up. That a sweep after which no detached variable lacks its
  container has given none the key of another is a matter of counting: it makes
  at most as many detached variables as there were (`SweptDetached`).

Assumptions: those of the modules. A positive number of workers, disjoint sets
of threads, two cells or more, as the constructors assert them; finitely many
callers; `OnceAssumption`, above; a buffer, a page and limits of at least one;
literals of the interpreter that are well formed, as `parse` lays them out
(`ReadsBack` checks it on programs).

The library's induction rules take an operator as a parameter, which the
provers cannot instantiate, so `Induction`, in each module that needs it, is
stated about a set of numbers, and proved from the well-founded order on them;
from it come that a fold over a sequence has the values its recursion says
(`FoldExists`), that the recursive functions of the interpreter's operators
exist (`DelimExists`, `NthsExists`, `SweptSteps`), and what `FlattenSeq` does to
a longer sequence.

Model-checked only: liveness (fairness and ENABLED are outside the prover's
reach); that the interpreter implements `LispEnv`; and everything about the
reader and the streams. `ImplementsEnv` compares the values that the cells stand
for (`Nested`), which is a recursion over values and not over numbers, and the
theorems above say that the values are well formed, not which values they are.
`LispReader` declares RECURSIVE operators, which the provers do not accept. Of
the archive, what happens beyond a spoilt defragmentation is neither proved nor
explored.

## 5. What is not modelled

- The Windows implementations; memory exhaustion; the wrap of 64-bit positions
  in the queue; concurrent calls of the logger, which its source rules out.
- Of the allocators, `clear` of the mpsc ones, and `add` on an exhausted
  fixed-size one: it dereferences a null head, and not asking for more than
  `SIZE` objects is a precondition of the model as it is of the code.
- Of the file system, global paths, several archives, listings, the times of a
  file, and failing calls of the operating system; crashes inside a call,
  between two of its writes or with some of them still in the buffer of stdio,
  which the code does not claim to survive (a crash between two calls is
  modelled, the buffer included); the reuse of a closed
  descriptor by another part of the program.
- The contents of messages, files and jobs.
- Of the interpreter, arithmetic, the loops over lists (`dolist`, `mapcar`),
  user procedures, values computed in a frame (copied down by
  `popCallStackLeaveData`), statements whose value and target are the same
  variable, and the reallocation of a stack that outgrows its reserve; of its
  reader, which number an atom is, and parentheses that do not match, where
  `parse` pops an empty stack.
- Of the tokenizer, removing rules and `clear`; of the streams, the other ways
  to move the position, resizing, copying, and positions beyond the end, where
  the length that remains wraps around.
- `delegate<>`, which is one function without a list.
- Hotkeys: whether a grab succeeds is up to the X server and to other programs,
  and what a failure does is one loop over eight grabs.
- Strings, random numbers and noise, mathematics, images, timers, profiler and
  hardware information: pure functions, floating point or wrappers.

## 6. Plan

What is left, in order of what it would add:

1. Failing calls of the operating system in `Archive` and `DirWatch`: a write
   that fails half way, an archive that cannot be reopened after a flush.
2. More of the interpreter on `Glisp`: values computed in frames, `dolist`,
   `mapcar` and user procedures.
3. `clear` of the mpsc allocators.
4. The refinement of `LispEnv` by `Glisp` as a theorem: what each operation of
   `GlispCells` does to the nested value, on top of what it does to the cells.
