# MiniDB in TLA+

Models, model-checking runs and machine-checked proofs for MiniDB, the
relational engine under `src/`. The modules are translated from the C++ sources;
`PROJECT.json` maps every definition to the lines it stands for, lists the runs,
the hazards and the theorems.

## The system

| Component | State | Operations | Hard behaviour |
|---|---|---|---|
| `DiskManager` | open files, page counts, the bytes on disk | create, open, close, read, write, allocate | ids used after a close; a file opened twice |
| `BufferPool` | frames, page table, LRU list, free list | `fetchPage`, `unpinPage`, `flushPage`, `flushAllPages` | callers write through raw pointers without the mutex; calls that throw half-way |
| `PageManager` | slotted pages | `insertTuple`, `readTuple`, `deleteTuple`, `scanTable` | slot reuse, full pages, two limits (bytes and slots) |
| `LogManager` | the WAL file, its stream buffer, `nextLSN_` | `open`, `appendLog`, `flushLog`, `readAllRecords` | a crash in the middle of a record |
| `RecoveryManager` | none of its own | `recover`, `checkpoint` | redo and undo over pages of unknown age |
| `LockManager` | lock table, wait-for graph, condition variable | `lockShared`, `lockExclusive`, `unlock`, `unlockAll` | waiting, wake-ups, upgrades, deadlock detection |
| `TransactionManager` | transaction states, next id | `begin`, `commit`, `abort` | finishing while others wait |
| `BPlusTree` | an array of nodes | `search`, `insert`, `remove`, `rangeScan` | splits and merges, references into a growing vector |
| `Catalog`, executors, `MiniDB` | tables, row counts, indexes | one per SQL statement | heap, index, log and statistics updated one after the other; an exception nobody catches |
| Lexer, parser | none between statements | `handleInput`, `parse` | mistyped lines: what is ignored, what is taken for something else |
| Optimizer | none of its own | `optimize` | statistics that count twice; an index it is never told of; a plan nobody executes |

Calls go down the list of layers: `MiniDB` -> executors -> `PageManager` ->
`BufferPool` -> `DiskManager`; the engine also calls the index, the log and the
transaction manager, and the latter calls `LockManager::unlockAll`. Every class
below the executors has its own mutex, held for a whole call; a lock call gives
its mutex up while it waits.

What makes the parts correct: the pool is invisible to its clients (a page has
one value, whatever is evicted or flushed); conflicting locks are never granted
together, no sleeping call misses its wake-up, and deadlocks are found; a heap
file is a map from RIDs to tuples; a committed transaction is in the log after
a crash; the index is a map from keys to RIDs; recovery leaves the table with what
committed, and the pages do not run ahead of the log; and a statement does to a
table, as a bag of rows, what its words say. Where the code does not keep one of
these, a run shows it as an expected violation, or the section on the runs says so.

## Modules

### `DiskManager`, `BufferPool`, `PageStore`

A page is a pair of file id and page number; its bytes are a member of `Data`.
`DiskManager` has the open ids, the page counts and the bytes. `BufferPool`
extends it with the frames: `frameKey`, `data`, `isDirty`, `pinCount` are the
fields of `PageFrame`; `pageTable`, `lruList` and `freeList` are the members of
those names (`lruMap_` is the inverse of `lruList_`). Every public call is one
step, because it holds `mutex_` throughout; `fetchPage` is split by its
outcome into `fetchHit`, `fetchLoad`, `fetchAllPinned` (no victim) and
`fetchThrows` (`readPage` or `writePage` throws after the victim has left its
list and the table).

Clients behave as the callers in `PageManager.cpp`: one page pinned at a time,
writes only to a page fetched for writing and inside the file, and `unpinPage`
with `dirty` after a write. Writes are not under the pool's mutex, so they are
steps of their own (`clientWrite`), and a flush that copies a page while a
client writes it may copy anything (`Copies`).

`PageStore` is what the pool promises: one value per page, changed only by a
client that has the page pinned; only pages of files that are not open may lose
writes. `ImplementsPageStore` says that `BufferPool` implements it under the
mapping `store` (the frame's bytes if the page is resident, the disk's
otherwise).

### `LockManager`, `TransactionManager`, `DeadlockDetector`

`lockTable` has the requests of a resource as a set: the vector's order shows
only in `unlock`, which erases the first granted request (`FirstGranted`).
A lock call is one step when it returns at once (`lockNow`, `lockRefuse`);
when it waits it is one step up to `cv_.wait` (`lockWait`) and one for every
time the thread wakes with the mutex (`wake`), which tests the predicate and
either takes the lock or sleeps on. `notified` is the set of threads that
`notify_all` has woken and that have not run yet; `spuriousWakeup` is what the
C++ standard allows. `TransactionManager` adds `begin`, `commit` and `abort`
(each under its own mutex, with `unlockAll` inside) and threads that run one
transaction each and, as `LockManager.cpp` asks, abort after a refused request.
Threads may also call `unlock` before the end; `strict` records whether one has, for the
properties that speak of two-phase locking.

`LockManager!hasDeadlock` is a definition: some set contains the caller and
every member has an edge into the set. `DeadlockDetector` is the search that
computes it, one loop iteration per step with an explicit stack, for every graph
and every order of neighbours.

### `PageManager`, `TupleStore`

One heap file. A page has the fields of `SlottedPageHeader` and its bytes; a
tuple is a sequence of bytes, so that an overlap shows. The calls come from one
thread over a pool that is a page store, so each call is one step. `insertTuple`
has two cases: a slot of the first page with enough bytes (`insertHere`), or a
new page because that page has no slot (`insertNewPage`). `TupleStore` is the
promise: a map from RIDs to tuples in which an insertion uses a free RID and
nothing changes but the tuple named.

### `LogManager`

The file is a sequence of cells, one for the size that `appendLog` writes and one
or two for the body. `readAllRecords` is the loop as a recursive function on
positions: it takes as many cells as the size says, whatever they are, stops at
the end of the file, and gives `Garbage` for cells that are not one record's.
When a body cell stands where a size is read, nothing further is known.
`logCommit` is two steps because it takes the mutex twice. A `crash` leaves any
part of the stream's buffer in the file, which covers a buffer that was handed
over when it was full and a `write` cut short; machine crashes are not modelled
(the code never calls `fsync`).

### `BPlusTree`

The nodes with the fields of `BPlusNode` (`size` is the length of `keys`),
`rootIdx` and `entryCount`. `contents` is what a caller expects of a map and has no
counterpart in the code. A removal is one step; an insertion that splits is
one step for the leaf and one for each `insertIntoParent`, with the arguments of
the pending call in `call`. `splitLeafAndInsert` and `splitInternal` use a
reference into `nodes_` after `allocateNode`; when the vector moves
(`Reallocates`), the reference leads to an emptied node and the call throws
`std::length_error` (`splitLeafThrows`, `splitInternalThrows`), which the build
of the `Makefile` does, or the process dies (`undefined`). A leaf without
sibling that underflows is `undefined` too. Nothing follows `undefined`, and
nothing is claimed about it.

### `Recovery`

Extends `PageManager` with the file (`diskPages`), the log (records and how many of
them are flushed), transactions that insert, delete, commit and abort, and the life of
a process: `up`, `down`, and inside `recover` `redo` or `undo`. `writeBack` is
an eviction or a flush and may happen at any step; nothing ties it to the log, as
nothing in the code does. `crash` keeps what is in the file and any prefix of the
records that is at least the flushed part. `recover` is one step for each record
of each phase, so that a process can die between two of them. A page that
`allocateNewPage` zeroed and whose header never reached the disk is `rawPage`:
`findFreePage` takes it for an empty page and `insertTuple` writes over its
header, after which nothing is known (`spoilt`).

No code of the repository calls `recover`, `logInsert` or `logDelete`; the
transactions use them as their declarations say: a tuple is inserted and logged with
the RID it got, a deletion logged with the old tuple. `restart` opens the
file once, and the process goes on with that id. The record's `session` and the
variable `fresh` are there for the properties only.

### `Values`, `Lexer`, `Parser`, `Executors`, `Optimizer`, `MiniDB`, `SqlTables`

The path of a line. A text is a sequence of characters, because the properties are
about what slips of the user do to it; keywords are spelt by a constant, so that
lines stay short. `handleInput` and `parse` are functions on positions, as
the loops are; a throwing `parse` is `ParseError`. `std::stoi` is modelled by
what it does (leading spaces, a sign, digits, ignored rest, range). Spaces are those of
`isspace` that a line can have, but for the vertical tab, which TLA+ has no notation for.

A stored tuple is a sequence of cells: type markers, ints, lengths, characters.
`deserializeTuple` reads it by offsets, so a wrong length shows. The scan and the join
are functions from tables to a schema and rows, after the one `init` that an operator is
given; `InsertExecutor` and
`DeleteExecutor` are functions from a table (schema, row count, heap, index) to the
next. A heap is a map from RIDs to tuples and an index a map from keys to RIDs, which
is what `ImplementsTupleStore` and `SearchRight` show of the real ones; an insertion
takes any free RID; a scan visits RIDs in ascending order (`ascending`). A split in the index may throw (`mayThrow`, from
`BPlusTree!splitLeafThrows`), and the exception ends the process. In a tree that was never
emptied the first split always throws; in one that was emptied and filled again the
vector of nodes has grown and may have room, so that the model allows both. `MaxCells`
bounds the tuples that are inserted: `insertTuple` tests no length, and what a tuple longer
than a page overwrites is outside the model.

`MiniDB` has one action for each function of `main.cpp`. `typo` is the user:
a character too many or one missing. `SqlTables` is what the engine promises while one
process runs: tables are bags of typed rows; nothing else of the above appears in it.
`ImplementsSqlTables` is said of every step of a running process. A process that ends, by
itself or not, answers nothing more, and nothing is promised of what the next one finds: that a
process may die inside a statement and that the next one knows no table are not part of the
promise but an expected violation (`RowsOutliveCrash`). A row of no columns
is lost there as here: what is stored of it is an empty slot.

## Runs

| Run | Instance | Question | Result |
|---|---|---|---|
| `pool` | 1 file of 3 pages, 2 frames, 2 clients | Do interleaved fetches, writes, unpins and flushes lose a write or take a frame from a caller? | no; the pool implements the page store |
| `locks` | 3 transactions, 2 resources, with `unlock` | exclusion, wake-ups, references across the wait, the graph; is a refusal a deadlock, and does every waiting call end? | hold; refusals while nobody has called `unlock`, and ends where two transactions are begun |
| `locks_deadlock` | 3 transactions, 2 resources | are deadlocks always detected? | violated: no edge to a lock granted past a waiter |
| `detector` | every graph of 3 transactions | does the search answer what the lock table's model assumes? | yes, and it ends |
| `heap` | 2 pages of 2 slots and 5 bytes, tuples of 1 to 3 bytes | Does reuse of slots and pages ever touch another tuple? | no; a heap file is a map |
| `wal` | 3 LSNs, 6 cells, crashes without limit | Do LSNs increase, records stay and commits survive? | yes, for a log that was whole when opened |
| `wal_torn` | the same | Does every commit that returned survive? | violated: a torn record swallows later ones |
| `tree` | order 3, 5 keys, insertions start with at most 7 nodes | Do `search` and `rangeScan` answer like a map? | yes, also after calls that threw |
| `recovery` | 1 page of 3 tuples, 2 transactions a process, 5 log records, 3 processes | Is the heap well formed whatever reached the disk, and when is `recover` exact? | well formed unless a raw page is written over; exact where no tuple had reached the disk |
| `recovery_rows` | the same | Is every committed tuple there as often as it was inserted? | violated: redo inserts it again |
| `engine` | 1 table, 3 RIDs, an index of 2 entries a leaf, 4 changes, 10 lines with one slip | Do the tokens spell the line, does the statement stand in it, do heap, index and statistics agree, and does every statement that is answered do to a bag of rows what its words say? | yes; each process, while it runs, implements `SqlTables` |
| `engine_crash` | the same | Does an `INSERT` into a full leaf leave the process and its rows alive? | violated: the split throws, and the next process knows no table |

The four violations are findings in `PROJECT.json`, each with the line of the
repository that says otherwise. Their properties say what a doc or a comment claims:
deadlocks are detected; a commit that returned survives; recovery restores what
committed; a leaf splits on overflow, and what was committed is there after a crash (two
findings, shown by one behaviour). The properties of the passing runs do not depend on
any of these: where they need a case left out they say so (`CleanCommitDurable`,
`RecoverExact`, `EveryWaitEnds`, and `mode # "gone"` in `ImplementsSqlTables`).

Five more disagreements with the documents are in the models and are not checked by a run.
`LogManager.h`, line 36: "All modifications are logged
before being applied to data pages"; the pool writes pages without a look at the log.
`Recovery.h`, line 20: a checkpoint is to "flush all dirty pages"; `checkpoint` flushes the log only.
`docs/design.md`, line 49: "merge/redistribute on underflow"; an internal node may be left with
one child, whose leaf has no sibling. `docs/design.md`, line 91: "The optimizer automatically
selects index scan"; the catalog is never told of the index. `README.md`, line 137: "Used as
primary key index for tables"; the entries of negative keys are never removed.

What `engine` says of slips: the statement executed always stands at the start of
the line (`ParseSound`), but what follows it is ignored, so that a `DELETE` whose
`WHERE` is lost deletes everything; the parser was written so, and no property
says otherwise.

Bounds. Three pages over two frames make every fetch choose between hit, free
frame and eviction, with a second client pinning meanwhile. Two files over two
frames are beyond five minutes; the refinement theorem covers them. Two clients suffice for the
pool because what a client can see of the others is the pin count and the bytes.
Three transactions are the fewest for which a lock can be granted past a waiter
and close a cycle; two resources are the fewest for a deadlock without upgrades.
Symmetry is used over clients, bytes and, in the run without liveness, resources.
Six cells hold a torn record and two commits behind it, so that a torn record
both swallows its successor exactly and leaves the reader in the middle of one.
Seven nodes at the start of an insertion are enough for splits of internal nodes,
three levels, and both kinds of throwing split; with order 3 five keys fill them.
Three processes are the fewest in which `recover` can die and be run again; five
records hold a transaction that commits and one that does not, or an insertion, a
deletion and both ends of two transactions. One page of three tuples lets a redone tuple
take another's place. In `engine` two keys fill a leaf, a third makes it split;
`0` and `-1` are the keys at the edge of `pk >= 0`; three RIDs let one be used again
between two others; one row more than `IndexRows` makes the optimizer look for an
index. A table of no columns has a row that is not kept. A slip is made while at most one change is logged: what a mistyped line
parses to does not depend on the tables.

Fairness. `locks` assumes that a woken thread gets `mutex_` in the end
(`WF` on `wake`) and that a transaction that is not waiting commits or aborts in
the end. Nothing is assumed about lock requests or spurious wake-ups.
`detector` assumes that the loop goes on. `CHECK_DEADLOCK FALSE` is set where the
system may stop: all transactions over, the search
finished, an index call undefined, a log or a table at its bound, or a process gone.

## Proofs

`BufferPoolProofs` (with `ListLemmas`, facts about the list operations) proves,
for any number of files, pages, frames and clients:
`PoolInvariant`, `PoolTypes`, `PinSafety`, `PinCounts`, `LruList`, `CleanFrames`,
`PoolRefinement` and `FlushAllIsDurable`. The inductive invariant `IndInv` needs, beside the checked
properties, that the table leads to frames that hold the page (`TableExact`),
that free frames are unpinned and distinct (`FreeFrames`), that a client has a
pointer exactly while it holds a page (`ClientsConsistent`), and that pages beyond
the end of a file are zero (`BeyondEndZero`: `allocateNewPage` zeroes the disk
behind the pool's back, which is invisible only because nobody wrote there).

`TransactionProofs` proves for any number of transactions and resources:
`TxnInvariant`, `TxnTypes`, `LocksExclude`, `NoWakeupIsLost`, `RequestsStayPending`,
`GraphStaysAcyclic` and, as long as transactions have released locks at their end only,
`RefusalsAreJustified`. Its `IndInv` adds that ids are fresh, that only active
transactions have requests, that only waiting ones have edges, and that an
edge leads to a transaction that is over or really blocks (`EdgesTruthful`; false
after an early `unlock`). That the graph stays acyclic when the edges of a
new waiter are added is the lemma `NoCycleAdded`: a cycle would contain the
waiter, and `hasDeadlock` would have said so.

`HeapProofs` proves for any page layout and any tuples that fit into an
empty page: `HeapTypes`, `HeapTuplesDisjoint` and `HeapRefinement`. Beside the
checked properties `IndInv` needs that slots beyond `numSlots` and emptied slots
are zero, that unallocated pages are fresh, and that the free space starts behind
the header. The invariant is a statement about single pages (`PagewiseInvariant`), so an
insertion or a deletion is argued for the one page it changes.

It also proves of `Recovery`, for any page layout, length of the log and number of
processes: `RecoveryInvariant`, `RecoveryTypes`, `RecoveryHeapSound` and `RecoverExactCounts`. The
invariant `RInv` says of every page, in memory and in the file alike, that it is good
(the page-wise invariant) or was never initialised; that
records of insertions and deletions carry a tuple, so that redo and undo insert
tuples that fit; and that the positions of both loops stay inside the log. It has to
speak of the file as well, because a crash makes the file's pages the ones that
`insertTuple` works on, and of pages that were never initialised, because the pages of a
crashed process are among them. The steps of `PageManager` are argued once, for a
heap some of whose pages may be raw.

`RecoverExactCounts` compares two runs. The invariant `ExactInv` says that there is a
history, which the program does not keep: a heap for every length of the log, each the
result of the record on the heap before it. The first process is at the end of its
history. `insertTuple` and `deleteTuple` are functions of the heap, so a redo that starts
with an empty heap goes through the same heaps and finds the same RIDs, up to the
first record that did not commit, and stays there; undo finds nothing to delete. It
needs that an initialised empty page is told from a raw one (`PagesTell`), and that a
transaction's first record is its `BEGIN` (`BeginsFirst`: ids are new within a process).
The counts follow by induction along the history: an insertion adds one place with its
tuple, a deletion takes one.

`DetectorProofs` proves, for every graph, start and order of neighbours:
`SearchTypeCorrect`, `StackIsPathHolds` and `AnswerRightHolds`. The invariant `SearchInv`
says that no endless walk of the graph meets a finished transaction (`FinishedEnds`: a set
whose members all have an edge into it has none), that the stack is a path, and where
each activation of the recursion stands. A transaction is finished when the search has
been through its neighbours and none was on the stack, so that each of them is finished;
and one that is met on the stack closes an endless walk.

`LogProofs` proves for any number of threads, records, crashes and restarts: `LogCorrect`,
`LogTypeCorrect`, `LSNsIncreaseHolds`, `CleanCommitDurableHolds` and `ReadableKeptHolds`.
What `readAllRecords` returns is a recursive function of the file; the lemmas say what
it returns of a file to which cells were appended, by induction from the end of the file
to its start. `LogInv` is about the stream (the file with the buffer behind it), because
a crash may keep any part of the buffer: records that can be read of a stream can be
read of every longer one (`ReadableKept`), the LSNs in it increase and are below
`nextLSN_`, and a log that was whole when opened is whole with the buffer.

`EngineProofs` proves for every line that can be typed, every slip, any number of tables,
and RIDs: `LexerType`, `ParserType`, `TupleRoundTrip`, `EngineCorrect`,
`EngineTypeCorrect`, `IndexSoundHolds` and `RowCountCoversHolds`. The
argument follows a statement: what is typed becomes tokens, the tokens a statement with typed
columns and texts, the texts values of the table's types; `TupleRoundTrip` then says that
what is stored is read back, by induction on the columns with the offset that the loop of
`deserializeTuple` has reached. `EngineInv` says of each table that every stored tuple is a
row of its schema and not empty (an empty one would have no key to take out of the index),
that the index leads to tuples with its keys, and that the row count covers the rows.

`EngineRefinement` proves `ImplementsSqlTables`: the steps of each process while it runs,
`restart` being the one step that is not. The engine counts RIDs and `SqlTables` counts
copies of rows, told apart by numbers; both are bags (`BagOf`), and two bags are equal when
their members can be paired one to one with equal values (`PairedBags`). The RIDs of a
scan are paired with the positions of its rows by their order, and with the copies by their rank
among the RIDs with an equal row (`CopiesPaired`). One more RID is one more copy
(`BagMore`), and the RIDs that a predicate chooses are a part of the bag, because the predicate
looks at the row alone (`ChosenRows`). The invariant beyond `EngineInv` is `StmtFits`: no
`INSERT` has a `WHERE` clause and nothing but a `SELECT` names columns, so that the one
guard of `SqlTables` is what each execute function tests. `JoinCorrect` pairs, in the same way,
the positions of the joined rows with places (a row of the left side, one of its partners) and
these with the pairs of RIDs that agree.

`LexerFaithful` goes from the end of the line to its start: what the lexer reads from
a position on spells the rest of the line. One turn of its loop skips a space, or takes a
token whose text and whose part of the line differ in quotes only (`TokenSpan`).

`ParserSound` reads a statement as the parser does. `SoFar` says which words have been said
when the parser stands at a token, and each `expect` adds one; the lists of columns and values
are of any length, and what they say is shown by induction from their end (`ListSays`), with
the commas, which are no words, wherever they are or are missing. Each of the four forms is put together
from these (`CreateSays`, `InsertSays`, `SelectSays`, `DeleteSays`).

`TreeProofs` proves for every order above 2, all keys and RIDs and any number of nodes:
`TreeCorrect`, `TreeTypeCorrect`, `SearchCorrect`, `FillCorrect` and `ScanCorrect`. The
invariant `TreeOK` says that there are functions, which the program does not have, giving
each node in use its height, so that all leaves are equally deep, and its two bounds; a bound
is a set of numbers closed downwards, so that an absent one is the empty set or all numbers.
Children have their parent's bounds cut at the separators, the keys of a leaf lie between
its bounds, the next leaf begins where a leaf ends, the leaves hold exactly `contents`,
and each but the root has the minimum of keys. It is stated with bounds and not with the keys
below a node, because an operation changes the bounds of two neighbours and of
nothing else, where the keys below all their ancestors change. Between a split and
`insertIntoParent` the tree is `Halfway`: the two halves share the place of one child.
Each operation is argued in three layers: what it does to the vectors, what that does to the
tree, and that the model's action does this. Searches end because a node's height is less
than the number of nodes. A scan reads each leaf once, hence ends, and its result is
ascending and complete because the leaves read so far hold the keys from the first leaf's
lower bound to the current leaf's, and none else.

Induction and recursion: `SetInduction` (`ListLemmas`) is induction over the natural numbers
for a set, proved from the well-foundedness of `<`; a recursive function is unfolded
by showing, with it, that a function with that equation exists. What these two do not
reach is in the list below.

Assumptions on the constants: `DiskAssumption`, `PoolAssumption` (finitely many
clients, `NoPage` is not a page), `LockAssumption`,
`DetectorAssumption`, `TreeAssumption` (the order is above 2), `PageAssumption` (tuples are not empty and fit into an empty page),
`RecoveryAssumption`, `LogAssumption` (garbage is no record), `LexerAssumption` (a letter is
no digit, symbol, space or quote; keywords are spelt differently), `EngineAssumption` and
`MiniDBAssumption` (a line is a sequence of characters; a tuple has fewer than 2^16 cells, which
the size of a page ensures: no page holds more).

Only model-checked: liveness (`EveryWaitEnds`, `SearchEnds`), and `ParseComplete`, which
goes from a statement to its characters and back.

## Plan and what is left

Done: pool and disk, locks and transactions, the deadlock search, heap files, the log,
recovery, the index, and the engine with lexer, parser, executors and optimizer (modelled,
checked, proved).

Left: a proof of `ParseComplete`.

Not modelled: printing and the wording of errors; `flushFile`, `dropTable`,
`updateRowCount`, `setIndex`, `getTableNames`, `IndexScanExecutor`, `FilterExecutor`,
`ProjectionExecutor`, `row.h` and the statistics of the pool,
which nothing calls or which nothing depends on; a file opened twice in one process
(`openFile` has `recover` as its only caller); tables whose file is missing
when `recover` runs; the end of the standard input, where the loop of `main` spins;
machine crashes (the code calls no `fsync`); and the programs under `benchmarks/`.

Weaknesses seen in the code that no run is about, because no caller reaches them or no
bound of TLC does: a frame whose `readPage` or `writePage` throws is given back by
nobody (`fetchThrows`; needs a file closed while in use); a stream of shared locks
starves an exclusive request; `commit` from another thread erases a sleeping call's
request; two threads in `insertTuple` may be given the same space; once the first page
with room has no slot, each insertion that fits there allocates a page; a size read
behind a torn record has no meaning, and `deserializeRecord` does not check it; a text of
65536 characters loses its length; a crash that tears the four bytes of a record's size (the
model tears between a size and its body); and what is read of a page whose header a tuple was written over
(`spoilt`).

