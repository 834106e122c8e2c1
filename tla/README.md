# A verification project for low-latency-orderbook

TLA+ models of the matching engine under `src/include/lob/`, the TLC runs that
check them on small instances, and the theorems TLAPS proves about them for
every value of the constants. `PROJECT.json` lists the runs, the mutants, the
source lines each definition models, the hazards and the findings.

## 1. The system

A price-time-priority limit order book in C++20, header-only, and a pipeline of
three threads around it:

    producer --Command--> [SPSC ring] --> engine thread --LogRecord--> [SPSC ring] --> logger thread --> stream
                                          MatchingEngine
                                            OrderBook = OrderPool + PriceLadder (bids) + PriceLadder (asks)

    lob_replay generate --> [replay file] --> lob_replay run    (engine, one thread)
                                          --> lob_e2e_bench     (the pipeline above)

The engine is single-writer: one thread calls the book, so everything in the
book is sequential code, hard because of what it keeps consistent by hand. The
concurrency is in the rings, in how the threads stop, and in the replay file,
which separate processes write and read.

| component | state | operations | what makes it correct |
|---|---|---|---|
| `OrderPool` | slots, free-list head, live count | `alloc`, `free`, `find`, `operator[]` | the free list is exactly the free slots although `next_idx` also links resting orders; the live count is exact; a stale id is not found |
| `PriceLadder` (a side) | band of levels, overflow map, best cursor, band counter | `push_order`, `remove_order`, `empty`, `best_price`, `find_level`, `level_at` | every level is a sound list with true aggregates; the cursor is the true best |
| `OrderBook` | the pool and two ladders | `add` (validate, accept, sweep, rest or drop), `add_limit`, `cancel`, queries | price-time priority, never crossed, no order leaked, events that say what happened, every sweep ends |
| `NaiveBook` | a map of lists per side, an index | the same, ids from the caller | it is the executable specification: the optimized book must produce the same events |
| `SPSCQueue` | slots, two atomic indices, a cached copy of each, high-water mark | `try_push`, `try_pop`, `try_pop_batch` | no data race, FIFO, nothing lost, caches that only under-report |
| `MatchingEngine`, `EngineStats` | the book, ten counters | `process`, `run`, `submit`, `cancel`, `reset_stats` | nothing is lost at stop; the counters' identities |
| `AsyncLogger` | a ring, stop flag, written and dropped counts | `log`, `try_log`, `stop`, the consumer loop | written + dropped = logged; drained and flushed before `stop` returns |
| `LatencyRecorder`, `TscCalibration` | 65 buckets, count, extremes; a rate | `record`, `percentile_ticks`, `merge`, `reset`, `measure`, `to_nanos` | percentiles within the observed range, the right bucket; exact nanoseconds |
| `WorkloadGenerator` | a random generator, a shadow engine, live ids and positions | `next` | the live ids are those open in the shadow engine |
| replay format | the file | `write_replay`, `read_replay` | what is accepted is what one writer wrote, whole; memory follows the bytes |
| replay tool | none of its own | `generate`, `run`, argument parsing, `validate_engine_config` | what it writes can be run; what it starts is what the engine takes for granted |
| `e2e_bench` pipeline | threads, recorders | `run_e2e` | every command processed once, in order, then everything stopped in order |

How they interact: the book calls the pool and the ladders directly and reports
through a callback (`sink`) in the middle of `add`; threads share only the two
rings and the stop flags. What is hard here: one `next_idx` with two owners; a
cached best price; generation-tagged ids; a slot that is live while it is in no
level; a hand-debited aggregate next to one that debits itself; and, between
threads, plain memory published by one release store per batch, cached peer
indices, and stop flags that race with a last push. The one
thing that outlives a process is the replay file: a writer that fails or is killed leaves a
part of it. No call has a timeout.

## 2. The modules

| module | models | notes |
|---|---|---|
| `LobTypes` | `types.h`, the id encoding | an id is the pair (generation, index) of the packed word |
| `OrderPool` | `order_pool.h` | one operator per operation, on the slots it is given, so that the book reuses them |
| `StaleIds` | a client of the pool | keeps any one id for ever; counts how often its slot is minted again |
| `PriceLadder` | `price_ladder.h` | both sides; operators from slots and ladder to slots and ladder; also what `check_invariants` walks |
| `OrderBook` | `order_book.h` | the actions; one turn of `Match`'s loop is one step |
| `NaiveBook` | `naive_book.h` | the oracle; its own steps match the book's one for one |
| `BookRefinesNaive` | `differential_matching_test.cc`, in full | the refinement mapping and the properties over it |
| `SPSCQueue` | `spsc_queue.h` | release/acquire, stale loads included |
| `BoundedFifo`, `SPSCImplementsFifo` | `spsc_queue.h` again | the ring as one record with atomic operations; `SPSCQueue` implements it |
| `MatchingEngine` | `matching_engine.h` (`submit`, `cancel`), `stats.h` | the book's actions, each with the counting of its events |
| `EngineLoop` | `matching_engine.h` (`run`), the two threads of `e2e_bench_lib.h` that use the command ring | a command is its number; the book is reduced to how many events it emits |
| `AsyncLogger` | `async_logger.h` | a record is the number of its event |
| `Pipeline` | `run_e2e` | composes the two modules above with the thread that joins them |
| `WorkloadGenerator` | `workload_gen.h` | over `MatchingEngine`, the shadow engine |
| `LatencyRecorder` | `latency.h` | operators, and the recorders `run_e2e` keeps |
| `ReplayFormat` | `replay_format.h` | one file, `read_replay` as steps on it, what damage may do to it |
| `ReplayTool` | `lob_replay_lib.h`, the options and checks of `e2e_bench_lib.h` | the processes around the file |
| `MCOrderBook`, `MCNaiveBook`, `MCBookRefinesNaive`, `MCMatchingEngine`, `MCWorkloadGenerator`, `MCLatencyRecorder`, `MCReplayTool` | the commands, percentiles, readings, arguments and views of the runs | |
| `BookStorageProofs` | | the pool's invariant and what an id finds; lemmas of the levels, the cursor and the overflow map |
| `OrderBookProofs` | | the book's and the engine's theorems |
| `NaiveBookProofs` | | the oracle's two views of its orders |
| `BookClientsProofs` | | the book implements the oracle; the generator over its shadow engine |
| `SPSCQueueProofs`, `PipelineProofs`, `ReplayToolProofs` | | the ring and its refinement; the threads of `run_e2e`, then its recorders; the replay file |
| `DataLemmas` | | induction, quotients, and the sums, lists and folds of the community modules, in a form the provers can use |

**Pool.** `slots`, `free_head` and `live_count` are the class's three fields. A
slot is the `Order` record without its padding and without `type` and `flags`,
which nothing reads. `Relink` stands for all that the book may write into the
links of a live order through `operator[]`; with it the pool is checked and
proved against every book, not against this one.

**Ladder.** `ladder[side]` holds `levels_`, `overflow_`, `best_offset_` and
`band_orders_`. `AdvancedBest` is the result of the cursor's scan. The scan and
the O(1) transition are kept apart as in the code.

**Book.** A command is validated and accepted in one step (`Accept`), each
maker it meets is one `Fill`, and `RestTaker` or `DropTaker` ends it. `taker` is
what `add` keeps in its locals, `out` the events of the last step. `cancel` and
`add_limit` are one step each. Nothing else runs while a sweep is under way
(`Idle`): the code has one caller, and a sink that calls back into the book is
outside its contract. The steps are there because each is a point where the
sink has just been called, and because every invariant is then also asked in
the middle of a sweep.

**Ring.** Each `try_push` is three steps (decide, write the slot, publish) and
each pop at least three (decide, read each slot, publish), so the threads
interleave between any two memory accesses. An atomic index is the set of its
stores the other thread may still read; a load returns any of these and the
thread then never reads an older one. A store carries a view, the number of slot
accesses its thread had made; reading a release store with acquire adds that
view to what happens before the reader. A plain access is race-free exactly when
the other thread's last access to the slot is in the view. This is the C++
release/acquire model for one writer per location, so weak behaviour (a stale
`head_`, a `tail_` long out of date) is explored, not only interleavings.

**Bounded FIFO.** For its clients a ring is its items and two lags: `hidden`,
how many of the newest items the consumer has not seen yet, and `unseen`, how many
free places the producer has not seen yet. A push finds the ring full by its own
view only, so `FullPushes` and `Pushes` may both be possible; likewise for pops. A
lag shrinks when a thread reloads the other's index (`PushViews`, `PopViews`), and
`Synchronized` ends the consumer's when the consumer has acquired a flag its producer raised
after its last push. `SPSCImplementsFifo` maps `SPSCQueue` to it: the items
are the values between the published indices, the lags what the caches and the loads that
may still be stale leave out.

**Engine.** `submit` begins with `Submit`, goes on with `ContinueSubmit` for each step
of the sweep, and every step hands its events (`out'`) to `OnEvents`. `reset_stats` may
come between any two commands. `base` and `filled` are history. The counters that `on_event` increments once per
event are the cardinalities of the sets of events they count.

**Pipeline.** The engine thread is at one of `pop`, `process`, `check` (its load of `stop`) or
`exited`; the logger thread likewise. A load of a flag may return `FALSE` after the
store, and whatever it returns is the local `stopping` until the next load. Each
call of the sink is a step of its own (`Sink`), which drops its record exactly when the log ring looks
full. `policy` is what the thread that logs does then: `run_e2e` calls `log`, which drops (`Dropped`);
the lossless producers of `async_logger_test.cc` call `try_log` (`Refused`) until it takes the record,
which holds the engine up in the middle of a command. The log's stream may fail at any
`write` or `flush` (`stream_good`); the thread never asks, so `records_written_` goes on while
the stream does not. `join` is a guard on the joined thread's having exited.

**Generator.** `next` begins with the step that walks the mid price, draws the
command and gives it to the shadow engine, and ends with the engine's sweep. A
draw may have any value in its range, so the run covers every seed. `live` holds `live_ids_` and
`live_pos_`; positions start at 1.

**Recorders.** Words are `Width` bits wide. The bucket of a rank is the one whose
cumulative count reaches it first, as in the loop of `percentile_ticks`. A calibration is a
pair of counter readings and the time between them, degenerate ones included; every product of the conversion is
taken modulo the word.

**Replay.** A file is what its bytes say (`header`, `body`) and how many are there (`size`), in
abstract bytes: two for the header, two for a command, so that a file ends within either as well as
between. `generate` parses, builds its stream, opens (and truncates) and writes, in portions of any
size; it may fail or be killed at each. `read_replay` is one step for each of its reads, on the file as it then
is. `program` is the process that reads it, `run` or the end-to-end benchmark, and goes through the checks in the
code's order. Arguments are flag and value pairs, the values words that the casts narrow (`Narrowed`,
`Signed`). A generated command is its config and its place in the stream, `Corrupt` one whose kind is
neither of the two. The environment cuts, extends or alters the file while no writer has it open. `file_origin`,
`sealed` and `reader_view` are history: which writer's the bytes are, whether it reported success
and nothing has touched the file since, and both for the file the reader opened.

## 3. The runs

| run | question | size |
|---|---|---|
| `stale_ids` | is the pool exact, and is a kept id found exactly while its order lives? | 15 755 states |
| `book` | structure, uncrossed, priority and quantity through every sweep, which ends; is every step one of the oracle's, event for event, and do the queries agree? | 24 492 states |
| `rest_only` | do crossed books built by `add_limit`, over a whole band and an overflow price, keep their structure and agree with the oracle? | 7 066 states |
| `naive_book` | do the oracle's two views of its orders agree? | 131 158 states |
| `qty_at_width` | and when a level's quantity passes the width of `Qty`? violated, see the findings | |
| `spsc` | data races, FIFO, caches, high-water mark, every push is popped, and every step is one of the bounded FIFO with lagging ends | 62 048 states |
| `engine` | do the counters keep their identities and explain the open orders? do events tell the truth about the ids they name? | 203 527 states |
| `pipeline` | is every command processed once and in order, every record accounted for, all flushed, and does it end, dropping or retrying, with a stream that fails or not? | 198 680 states |
| `workload` | are the tracked ids those of the shadow engine, and is every generated cancel valid? | 302 102 states |
| `latency` | are percentiles in the right bucket and observed, for one recorder and for two merged? is the report ordered and exact in nanoseconds? | 7 056 states |
| `replay` | is what loads what one writer wrote? does memory follow the bytes? is what starts sound, what was written accepted, and does every process end? | 315 580 states |
| `corrupt_commands` | is every submitted command of a known kind? violated, see the findings | |

Bounds, and why they are enough:

- *Capacity* 3 in the book gives a FIFO with a middle, two levels on a side, and
  a full pool; a sweep can fill two makers and then find the side empty.
- *AnchorPrice* 3 with *BandRadius* 1 is the band 2, 3, 4; *GoodPrices* are its two
  ends, so that the cursor scans past an empty level between them, and 5, in the overflow map,
  better than the band for bids and worse for asks, so the cursor and the map compete both ways.
  `rest_only` uses the whole band and 5: with three levels on a side, the scan must stop at the nearest.
- *MaxQty* 2 lets a fill be total or partial for either order.
- *MaxGeneration* stands for 2^32 - 1. In `book` it is 1: each slot
  mints the same id again at once, which leaves the id-independent properties
  alone and is the harshest case for the others. `engine`, `workload` and `stale_ids` use 2
  with the skip of 0 on wrap; there the wrap is reached.
- *BookView* drops from a state only what nothing reads again: the events already
  emitted and the book fields of a slot where no order rests; `EngineView` and
  `GenView` likewise. Liveness (`SweepEnds`) reads `taker` only, which is in the view. Action properties of a run under the view are evaluated on every transition TLC
  takes from the states it keeps; what they read of the current state is in the
  view, and the fields they read of the next state (`out'` among them) are set by
  the step itself.
- *QtyModulus* stands for 2^32: 16 is beyond any sum in `book`, 4 is below
  in `qty_at_width`.
- The ring has four slots and seven pushes (*MaxPushes*), so the indices go
  almost twice round; batches of 1 (`try_pop`) and 3 cross the end of the slab.
- `pipeline` uses rings of two, batches of two and three commands of at most two
  events, so that both rings fill, records are dropped, batches are partial, and the warm-up
  boundary falls inside a batch.
- *MaxCommands* is four commands between resets in `engine`, whose counters would grow for ever
  otherwise, with two slots. It is four in `workload` with three slots: three adds and a cancel reach
  every case of the swap-remove, and four adds the full pool. There it is the length of
  the stream, so the run has `CHECK_DEADLOCK FALSE`.
- `latency` measures six tick counts of four bits, among them 0, the ends of buckets and the
  largest word, up to three per class, six when merged: a bucket with four samples has a remainder
  to share and is followed by another. A second is three nanoseconds there, and the rates one to five ticks
  a second: slower and faster than a tick a nanosecond, with products that pass the word.
- `replay` has chunks of two commands and files of none, two and three, so that a body is empty, exactly a chunk, or
  more than one. *MaxChanges* is three runs of `generate` and damages together: a failed write that is extended
  twice, a file rewritten while it is read, a cut and an alteration. Values have four bits and are narrowed to three: 9 and 15
  become negative anchors and bands and pools of 1 and 7. One program reads, started at any moment; once it has ended
  nothing more is started (*Watched*).
- The commands (`MCNewOrders`) include each order type and one of each reject; the
  ids a cancel may name (`CancelIds`) are every id the pool can mint, one index past
  the slab and the invalid id.

Every action fires in some run. Deadlock is checked in all of them but
`pipeline`, `workload` and `replay`, whose systems stop: the pipeline when all is joined
(`PipelineEnds` says that it gets there and nowhere else), the generator at the
end of its stream, the tools when their processes have ended (`InvocationsEnd`). Each
property has a mutant: a definition of the code changed as a plausible bug
would change it (the operators marked "A plausible bug" in the modules), under
which TLC finds the property violated.

**Fairness.** `BookSpec` assumes weak fairness of `Sweep` only: `Match` is a
loop that waits for nothing. `add`, `cancel` need no fairness: no client has to call. The
ring assumes that a producer which has written a slot publishes it (no blocking
call in between), that the consumer keeps popping, as both consumers of the
program do in their loops, and that a store becomes visible to its reader in
finite time, which C++ asks of implementations. A producer that pushes nothing
more is allowed. `Pipeline` assumes weak fairness of each of its four threads (each
polls, works or sleeps for a bounded time, and none blocks on a lock) and strong
fairness of the six steps in which a polling thread sees what the other has stored: a
free place (for a command or a record), an item, or a raised flag. A thread that polls for ever sees a store
in finite time; weak fairness does not say so, since the stale outcome of the same poll is a step too. `ToolSpec`
assumes that a process which has started goes on; it waits for nobody. Nobody has to start one.

### Findings

- `qty_at_width`: `price_ladder.h:32-34` says `total_qty` is "the same quantity
  NaiveBook::qty_at reports" and is 64-bit because sums pass 32 bits;
  `NaiveBook::LevelQty` sums in 32 bits and wraps. The differential tests do not
  reach such sums.
- `corrupt_commands`: `matching_engine.h:58-59` says of a command of an unknown kind that "the Day-5
  replay/wire readers validate before submitting". `read_replay` validates the format only, the
  end-to-end benchmark validates kinds with `validate_commands`, and `lob_replay run` submits what it read.

Met while modelling, and no disagreement with a document that speaks of it:

- DESIGN.md:60-61 says stale ids "are rejected deterministically"; the bound is in `order_pool.h:26-27`:
  after 2^32 - 1 reuses of one slot its ids repeat. `HeldIdFindsOnlyItsOrder` is stated with the bound.
- A file that is rewritten while it is being read may load as a mixture, when the sizes agree.
- `--band` and `--pool` past 2^32 are taken modulo 2^32 without a word; what is written is a valid file all the
  same (`WrittenFilesReplay`). A huge `--ops` makes `reserve` throw, which nothing catches.
- After a failed write of its stream the logger counts records that the stream does not hold.
- An anchor near 2^63 passes `validate_engine_config` and overflows in `walk_hi_` and in `in_band`.

## 4. The proofs

Proved from the modules' named assumptions only: positive capacities, generation widths, radii, batches and sizes; an
anchor above 0; commands whose prices are within the type's range; words of positive width; finitely
many classes of commands, percentiles that are fractions, calibrations whose product fits its word (as `latency.h` asserts and
says); arguments that are flags with integer values, and no generated command of an unknown kind (`CorruptAssumption`). `TLC`
evaluates each on the runs. No theorem bounds a
capacity, a queue, a file, the number of commands or of threads' steps.

Every theorem follows one pattern: an inductive invariant, a lemma per action that the action preserves it, and the
checked property as a consequence. The invariants of `PipelineProofs` and `ReplayToolProofs` were also checked by TLC on the
runs' instances before they were proved.

**The pool** (`BookStorageProofs`). `PoolIsExact` gives the type invariant, the exact free
list, the exact live count and that a live slot carries its own id.
`FreeListIsExact` is existential: some injective enumeration of the free slots
follows the links. It is inductive with the other three: `alloc` needs it to know that the
head is free, and drops the first element of the witness; `free` puts the
freed slot in front; `Relink` writes only into live slots, which no free link visits.
`IdsDoNotRepeatEarly` is about every kept id: `HeldIdFindsOnlyItsOrder` is not
inductive, as it says nothing of how far the slot's generation has moved. The
strengthening relates the slot's generation to the held one and to the number of
reuses, through the wrap that skips 0.

**The book** (`BookStorageProofs`, `OrderBookProofs`). `StructureIsSound` is what `check_invariants` walks, by following
links. It is not inductive as it stands: which orders a level holds is the result of a walk, which a changed link
anywhere could redirect. `Structure` says it the other way round, from the orders: for each side and price, the resting orders
of that price (`Group`) are listed by some injective sequence `w`, the links of the slots and the level's head, tail,
count and sum follow `w` (`IsList`), and that level is where `find_level` looks for it. Append, removal at any place and a partial fill each have a lemma that gives the new
witness; one more lemma says that a walk returns the witness, so the invariant implies what the
code walks. The scan of the cursor (`AdvanceFinds`) ends on the best level of the band, and the counter that decides whether it runs
is the sum of the band's counts (`DataLemmas`).
`BookInv` adds the pool's invariant and what is true in the middle of `add`: the taker owns a live slot that no list
reaches. The rest follows from it.

- `BookStaysUncrossed`: `Uncrossed` is stated of the orders at rest. Steps that remove keep it; the step that rests a
  remainder does so only when the sweep has stopped, because the best opposite price no longer crosses.
- `BookKeepsTimePriority`, `BookFollowsPriority`: each action leaves the witnesses in order (`KeepsPlaces`), and the head
  of the best level has nothing before it.
- `BookEventsBalance`, `BookEventsReportOpenQty`: the sum of the open quantities at rest changes by one order (`Stays`,
  `Leaves`, `Shrinks`, `Joins`), by what the events say. The second holds under the engine, too.
- `EngineCountersAgree`, `EngineExplainsOpenOrders`: each event of a step is in one class, and the classes explain
  the change of the live count. `OpenOrdersAreExplained` is about the time between commands and is not inductive; within
  a sweep a taker may be filled and not yet released (`Done`).

**The oracle** (`NaiveBookProofs`). `IndexMatchesLevels` speaks of the maps as they are stored. The invariant `Agree` says the
same of a function from ids to places: an id is in the index exactly when its entry's list holds it, each list holds an id
once, no list is empty, and the order about to rest is in none. The four edits of one list (append, remove at a place, drop the head,
shrink the head) keep it each by one lemma, and every action is one of them.

**The refinement** (`BookClientsProofs`). The mapping of `BookRefinesNaive` reads the oracle's maps off the walks of the book.
`Structure` has witnesses for those walks, so the lists of the mapped state are the witnesses (`ShowsLists`), and the
mapped index is what the live slots say (`ShowsIndex`). A list is determined by its orders and their order
(`SameOrderSameList`), so what the invariant of the book already says of a step (`KeepsPlaces`) decides the
lists after it. Each step of the book leaves the oracle's state as it is, takes one order out of it, shrinks the head
of a list or appends to one (`OracleStays`, `OracleLoses`, `OracleShrinks`, `OracleGains`), and the events are
the oracle's own. The best price of the book is the maximum or minimum of the domain of the mapped map, which needs that prices stay within the type's
range (`PricesSubmitted`). `BookImplementsNaive` and `RestOnlyImplementsNaive` follow. `BookQueriesAgree` compares
every query: best prices, `qty_at`, `orders_at`, `open_orders` and `contains`; it has the condition `QtyFits`, the sums at a price below the oracle's word, since without it
the two do disagree (the finding `qty_at_width`).

**The generator** (`BookClientsProofs`). `GenInv` is the engine's invariant together with `ListsOpen`: `live` lists exactly the open orders, those
at rest and the taker in the middle of its sweep, each once, and `pos` is the inverse of the list. The swap-remove of one id and the append
of one id keep it (`RemoveTracks`, `AddTracks`), and the events of a step are folded in one by one, each of them
about an order that is on the list when it comes. Between commands it is `TrackingIsExact`. `StreamIsValid` follows: what
`next` draws has a positive quantity and price, and the id it cancels is found.

**The ring** (`SPSCQueueProofs`). The inductive invariant has five parts: types; how the six indices
are ordered (`IndexInv`); that a store's view covers every access below its value
(`StoresInv`); that a slot holds the value pushed at its index as long as it may
be read (`ContentInv`); and that the mark bounds what the producer sees
(`MarkInv`). `RingIsRaceFree`, `RingIsFifo`, `RingCachesAreSafe` and
`RingHighWater` follow for every capacity, batch size and number of pushes.
The step that matters is that a slot's reuse needs `tail - Capacity < head_cache`,
that the cache came from a store, and that this store's view covers the read.
`RingImplementsFifo` goes through the actions: publishing is the push or the pop of `BoundedFifo`, reloading an index is
a change of its lag, and every other access is a stutter. It is what allows `Pipeline` to use `BoundedFifo`
for both of its rings.

**The pipeline** (`PipelineProofs`). The commands in the engine's batch and in the ring are the consecutive numbers after those processed
(`CommandsInv`), which with `EngineInv` gives the order. What makes the exit safe is `StopIsSynchronized`: a thread
whose local copy of the flag is set has acquired the producer's last push with it, so nothing in the ring is hidden from it,
and an empty pop after that proves the ring empty. `LogStopIsSynchronized` is the same for the logger, with
`main` in between: it raises the flag only after it has joined the engine. `WindowInv` says where the reset falls,
`RecordsInv` adds up the counters and orders the stream, `LoggerInv` says what is flushed. `PipelineLosesNoCommand`,
`PipelineWindowIsExact`, `PipelineIdleMeansFlushed`, `PipelineAccountsForRecords` and `PipelineLeavesNothingBehind` follow.

**The recorders** (`PipelineProofs`). `RecordersInv` says that each recorder sums up the samples of its class (`Summarises`): a bucket's
count is the sum of the samples of its width, and the extremes are those observed, or the identities if there are none. Recording,
resetting and merging keep it (`RecordedSummarises`, `MergeSummarises`), hence the fold that gives `all`. The rest is about one
summarised recorder. The bucket of a rank exists and is the bucket of the least sample that reaches the rank
(`TruthIsInBucket`); interpolation stays between the ends of its bucket and ascends with the rank (`InterpolateStays`); clamping leaves
neither the bucket nor the order, since the bucket holds an observation. A higher percentile has a higher rank (`CeilingAscends`). The split conversion is the floor
of the exact quotient, without wrapping at either product when the result fits (`NanosAreExact`). Quotients are reduced to products by their
defining inequalities (`QuotientBounds`), powers of two to their recursion.
The products that rank and interpolate samples are integers without a width, as in the model: the code relies on there being few enough samples.

**The replay file** (`ReplayToolProofs`). The invariant follows the bytes. `OriginInv`: a file with an origin has that
writer's header and commands, however short it is cut, or those and two more that are not all there, once it was extended.
`ViewInv`: a view that is still intact is of the file as it stands. `ReadSoFar`: what `read_replay` has by then is the
front of what the origin wrote. `LoadsStayWhole`, `MemoryStaysBounded`, `StartsAreSound` and `WrittenFilesAlwaysReplay` follow for
every size of header, command and chunk and all argument lists. That a cut is noticed rests on `(n * c) \div c = n`, that an
extension is, on two commands being longer than the extra bytes.

**Only model-checked.** Liveness (`SweepEnds`, `EveryPushIsPopped`, `PipelineEnds`, `InvocationsEnd`): TLAPS does not reason about fairness
or ENABLED. Every other property of a passing run is stated by a theorem; `QueriesAgree` with the condition above.

The library's induction rules take an operator and cannot be instantiated by the installed provers. `DataLemmas` proves them
again with a set in the operator's place (`NatSetInduction`, `SubsetInduction`), from `NatLessThanWellFounded` and `WFMin`; all sums
over sets are proved from these.

## 5. Plan

Done, in this order, most important first: `OrderPool` and `StaleIds` with their
proofs; `PriceLadder` and `OrderBook`; `NaiveBook` and the refinement; `SPSCQueue` with
its proofs; `BoundedFifo`, `MatchingEngine`, `EngineLoop`, `AsyncLogger` and `Pipeline`;
`WorkloadGenerator`; `LatencyRecorder` with the conversion to nanoseconds; `ReplayFormat` and `ReplayTool`;
the logger under both policies with a failing stream. Then the proofs of the book and the engine, of the ring's
refinement, of the pipeline and of the replay file, of the oracle, of the refinement of the oracle,
of the generator and of the recorders.

To extend the models: the whole system in one, `EngineLoop` over the book instead of over event counts, fed by
`ReplayTool`.

## 6. Not modelled

Left out for good: thread affinity and the clocks (operating system and hardware), the wording of reports, plots,
scripts and micro-benchmarks (single-threaded clients of the operations modelled here, and counters nobody reads), padding and layout
assertions, `Order::type` and `Order::flags`, ring indices reaching 2^64, counters reaching 2^64, and allocation
failure in the overflow map (the code terminates by design).
