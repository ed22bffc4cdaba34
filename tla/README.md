# Verification of `cpp_practice`

TLA+ models of the three programs of this repository, the TLC runs that check
them on small instances, and TLAPS proofs for every value of the parameters.
Paths are relative to `src/projects/`.

## 1. Inventory

| Component | State | Operations | Interacts with | What makes it correct |
|---|---|---|---|---|
| Matching engine, `orderbook_implementation/include/limit_order_book.hpp` | per side and price level: head, tail, total quantity, occupancy bit; cached best bid and ask; a pool of order nodes linked by `next_`/`prev_`; free list; id-to-node map | `reset`, `process_order`, `cancel`, queries | called by the wrapper, returns executions through a vector | FIFOs hold exactly the live orders; pool not leaked; caches agree with the orders; price-time priority; never crossed; the matching loop ends |
| Account wrapper, `src/OrderBook.cpp` | users (balances, locked funds), live orders, id counter, scratch vector | `makeUser`, `addBalance`, limit / IOC / market submissions, `cancelBid`, `cancelAsk` | owns an engine, settles its executions | locks are what active orders need; wrapper and engine agree; settlement conserves assets; failed submissions change nothing; IOC leaves nothing |
| Trade log, `src/OrderBook.cpp` | ring of 4096 trades, next write position, size, switch | `push_trade`, `setTradeLogEnabled`, `clearTradeLog`, `getRecentTrades` | written by settlement | holds the newest trades, newest first; nothing cleared or unlogged comes back |
| Statistics, `src/OrderBook.cpp` | five counters | counting in submissions, settlement and cancels; `getStats`, `resetStats` | written by every call | they account for every order and trade |
| Quote and depth queries, `src/OrderBook.cpp` | none | `getQuote`, `getDepth` | read the engine | they show what rests, best first |
| Interactive session, `src/main.cpp` | current user, whether anybody signed up | a menu of ten choices, prompts for numbers and names | calls the wrapper | acts for its own users; leaves the accounts right whatever is typed; ends with its input |
| SPSC ring, `spsc_ringbuffer/include/spsc_ringbuffer.hpp` | two atomic indices, plain slots | `push`, `pop`, `empty`, `full` | two threads, no lock | no data race on a slot; FIFO; nothing lost or doubled |
| Work-stealing pool, `workstealing_pool/include/work_stealing_thread_pool.hpp` | a deque and mutex per worker, `pending_`, `rr_`, `stop_`, two condition variables | constructor, `worker_loop`, `pop_local`, `steal`, `submit`, `wait_idle`, destructor | worker threads and calling threads | a task runs once; every task runs; `wait_idle` and the destructor return, and not too early |
| Harnesses, demo and benchmarks (`*/src/main.cpp`) | options, timings | argument parsing, random load | drive the above | the checks they abort on |

What is hard: the two lock-free or condition-variable protocols
(interleavings, stale reads, lost wakeups, liveness), and in the order book
long sequences of calls over linked structures with three redundant
representations of the same facts, and the accounting of locked funds around a
submission of many steps; on top, a session whose numbers are cut to 32 bits
unchecked and whose input may end anywhere. Nothing is persisted and no message is sent, so
there are no crash-recovery or delivery hazards. `PROJECT.json` lists the
hazards line by line.

## 2. Modules

```
PriceTimeBook  <--implemented by--  LimitOrderBook  <--INSTANCE--  OrderBook  <--EXTENDS--  Session
                                     MarketData (EXTENDS)           MCOrderBook              MCSession
                                     MCLimitOrderBook                   ^
                                                                        | EXTENDS
RecentTrades   <--implemented by--  TradeLog        <--INSTANCE--  Diagnostics
                                                                    MCDiagnostics
BoundedFifo    <--implemented by--  SpscRingBuffer
                                     SpscRingBufferProofs
TaskPool       <--implemented by--  WorkStealingThreadPool
                                     WorkStealingThreadPoolProofs

proofs:  LimitOrderBookProofs  <--INSTANCE--  OrderBookProofs  <--EXTENDS--  OrderBookFundsProofs
         (EXTENDS MarketData)                 ^ EXTENDS                       ^ EXTENDS
                                              DiagnosticsProofs               SessionProofs
ArithmeticLemmas (remainders, sums over finite sets): used by the proofs of the engine, the wrapper and the pool
```

**LimitOrderBook** keeps every array of the class as a function, with the
names of the source where TLA+ allows it (`head`, `levelQty`, `freeHead`,
`idToIdx`, ...). The bitset `occ` is an array of words, each the set of its bits;
`FindBest` scans it as `find_best_bid` and `find_best_ask` do, word by word from
either end, and `WordBits` is 64 in the code. `process_order` is `ProcessOrder` (checks and locals),
one `MatchStep` per loop iteration and `RestRemainder`; the buy and the sell
half of the function, which mirror each other, are one definition with a side.
`UnlinkOrder` subtracts in one step what the loop subtracts just before it
calls `unlink_order`. Quantities are taken modulo `QtyMod`, the `2^w` of
`QtyT`. `call` holds the locals of the running call; there is only one, as the
class is single-threaded.

**PriceTimeBook** is the promise: a queue of orders per side and price, best
price first, oldest first. It has no pool, links, bits or cached best.

**MarketData** adds the queries: `GetQuote` and `GetDepth` compute from the cached
best price and the level totals, walking the prices as the code does; `TrueDepth`
ranks the levels on which orders rest by how many of them are better.

**OrderBook** models the wrapper around `Engine == INSTANCE LimitOrderBook`.
A submission is several steps (`AddOrder` or `AddMarketOrder`, `EngineStep`s,
then `Settle` per execution and `Finish`, or `Rollback`), so that invariants
look between them; no other call can begin meanwhile. `mul_money` is exact:
64 bits hold any product of a 32-bit price and quantity. Quote sums do not
reach 2^63 in any run and are integers; base is unsigned and modulo `QtyMod`. `SeedUsers` and `SeedOrders`
are the constructor's market makers, submitted as it does. A call that fails
its own checks only counts in the statistics, and is not an action here.

**Diagnostics** takes each action of `OrderBook` together with what its code
counts and logs, and adds the calls that only count: submissions and cancels
refused by their own checks. `Log == INSTANCE TradeLog` is the ring of recent
trades; **RecentTrades** is its promise, a sequence cut to the newest trades.
`carried` is a history variable (orders active at the last `resetStats`).

**Session** is `run_ui` over the wrapper. `ui` holds the choice being served and
the numbers typed for it so far; each read is a step, at any of which the input
may end (`EndInput`) or be no number. A failed read of a choice leaves, of a
number asks again, of a name gives the empty name. `AsU32` and `AsPrice` are the
conversions the code makes: `operator>>` into an unsigned variable takes a
negative number modulo 2^64, and the casts cut to 32 bits (here modulo `QtyMod`).

**SpscRingBuffer** models `push` and `pop` access by access under the C++
memory model: an atomic index is the history of its stores; the other thread
may read any entry not older than the one it read last, and acquires with it
what was done before that store. `RaceFree` then says directly that no two
accesses to a slot race. `CheckFull` and `CheckEmpty` are the observers, asked by
the thread that may act on the answer. The threads are those of
`run_correctness` and of the cases of `run_benchmark`, which differ in the capacity.
**BoundedFifo** is its promise.

**WorkStealingThreadPool** has a program counter per worker and caller. A
critical section under a deque's mutex is one step; the only trace of the
mutex is that `try_lock` may fail (`SkipVictim` is possible although the victim
has work). Waiting on `cv_` is two steps, evaluate and block, since its
notifiers do not hold `cv_m_`; waiting on `idle_cv_` is one, since its notifier
holds `idle_m_`. Spurious wakeups are actions. While the constructor runs, a
worker may read any size that `workers_` has had since that worker was started; once
the pool is built it reads the final one (a smaller one would only make it skip
victims, which `SkipVictim` lets it do anyway). `Main` owns the pool and destroys it once every other caller has
left; the other callers are an environment that the class allows (its members
are all synchronised) and the harness does not use. **TaskPool** is the promise.

Definitions named `X_Fault` next to `X` are seeded faults: what a plausible bug
in that code would be. Each property is shown to catch one (`PROJECT.json`,
"mutants"); no specification uses them.

## 3. Runs

Passing runs (bounds are the constants of the `.cfg`):

| Run | Bounds | What it shows |
|---|---|---|
| `engine` | 3 levels in words of 2 bits, 3 nodes, quantities 0-2, a price below the range and an id above it | lists, free list, totals, bits and cached best; never crossed; loop progress; quote and depth; refinement of PriceTimeBook |
| `wallet` | 3 prices and a negative one, 5 ids (three are the seed orders), 3 users, quantity 2 against seed orders of 1, deposits capped by `QuoteCap`, `BaseCap` | locks, agreement with the engine, conservation of base, cover, IOC, no lost trades on refusal |
| `diagnostics` | 2 prices (one is refused by the engine), quantities 1-2, 4 ids, a log of 2 trades, one refused call between resets (`CallCap`) | the log keeps its promise over wraps, clears and switches; a submission's trades are its newest entries; the counters account for every order |
| `session` | 3 prices, numbers -1, 3 and 17 against `QtyMod` 16, 2 names of which one is a market maker's, 2 calls of options 2, 4, 5, 6 (`CallCap`) and any number of the others | locks add up although balances and sums of locks wrap; only its own users are acted for; the session ends with its input |
| `spsc` | 4 slots, 12 values: the indices wrap three times | no race, order, answers of `full()` and `empty()` that last, FIFO refinement, completion |
| `pool` | 3 workers, 1 caller, 1 task | a task runs whichever worker is awake, also if a thief started on a shorter `workers_`; `wait_idle` returns, and not early |
| `pool_callers` | 2 workers, 2 callers, 2 tasks | what `pending_` counts; tasks run once; refinement of TaskPool |

Why the bounds suffice: three nodes give every case of list surgery (first,
middle, last, only) and a full pool; three levels give a best price found by
search behind a vacated one, with a gap between, and two words, the last of
them partly used; quantities 1 and 2
give partial and exact fills of either side. In `wallet` three seed orders of 1, a bid
and asks on two levels, leave two ids for callers, of which the engine accepts one
(`IdCap = MaxOrders`): an order of 2 sweeps both asks, takes one and leaves a
remainder, or rests, and the next one is refused. Queues of several makers on one level
are those of `engine` and `diagnostics`. A log of two trades wraps within one submission
that sweeps two makers and the next one. Two calls let a session deposit and
trade, or place an order and cancel it, and -1 and 17 leave the range of the
unsigned type on either side: a user who deposits 15 shares on one that is locked
sells 15 more, so its locks pass `QtyMod` and come back when one is released. In the ring the interesting cases (empty, full,
one lap stale) occur with four slots. Three workers give a thief two victims
and a constructor that has got only so far; two tasks and two callers give
popping against stealing and the wrapped counter, `CountMod = 8` being far from
what two tasks can reach in either direction.

`engine` satisfies `QtyFits`: no level total can wrap. This is an assumption
about use (`engine_wrap` shows what happens without it), not
about the code. `VIEW LiveState` identifies states that differ only in fields
which no operation reads before it writes them: fields of dead nodes, free
links of live nodes, the executions of a call that has returned, inactive
entries of the order table (whose only use, the test of `active`, is kept). The
checked properties do not read those fields either, except the two `TypeOK`:
the engine's is proved for every state, the wrapper's is checked on one state
of each class.

Deadlock is checked in every run but `session`, which stops for good
when the program leaves its menu; `Gone` (pool) and `Finished` (ring) are the states where
those models stand still on purpose.

**Fairness.** `spsc`: each thread runs, and a thread that keeps loading an index
sees the newest store at some point (finite visibility of stores). `pool`, and the
counterexamples `pool_wakeup` and `pool_destroy`: each
thread that can go on does (weak fairness of `CallerStep`, `WorkerStep`,
construction and destruction); strong fairness of `StealTask`, since a
`try_lock` tried for ever on a mutex that is held only for a few instructions
succeeds at some point, and of `EvaluateWait`, since a contended mutex is
granted. Nobody is obliged to submit, to wait or to destroy; spurious wakeups
are allowed and not required. `session`: the program runs, and at the end of the
input a read returns at once (weak fairness of `Proceed`); nobody is obliged to
type anything, or to end the input. The other runs check safety only.

## 4. Disagreements between code and documentation

Each of these has a run in which TLC exhibits it.

| Run | Property | What happens |
|---|---|---|
| `refund` | `TradesConserveQuote` | a bid that trades below its limit is credited the difference although it was debited only the trade price: quote is created (`OrderBook.cpp:375-389`) |
| `engine_wrap` | `OccupiedIffOrders` | the "bitset of non-empty levels" is driven by a wrapping sum: orders stay on a level marked empty (`limit_order_book.hpp:227`) |
| `pool_wakeup` | `TasksRun` | with one worker, `submit` between the worker's predicate and its sleep strands the task. With two or more workers the same lost wakeup is harmless (`pool`): only one worker can be between predicate and sleep, since it holds `cv_m_`, and the others are awake or are notified |
| `pool_idle_early` | `WaitIdleMeansDone` | a task counted off before `submit` counts it cancels another caller's task, whose `wait_idle` returns early |
| `pool_destroy` | `DestructorReturns` | `stop_` is set and notified without `cv_m_`: a worker sleeps through it, `join` hangs |

Others were met while modelling and have no run of their own (the README quoted is the one
of `orderbook_implementation`). Where a property of a passing run stays
clear of one, that is said here.

- "User balances with locked funds" (`README.md:7`): a withdrawal is compared with the whole
  quote balance and not with what is free of it (`OrderBook.cpp:91`), so what an open
  bid has locked can be taken out. `LocksStayCovered` makes this one exception.
- "Ask rejected (insufficient shares ...)" (`main.cpp:406`): what is free of a base
  balance is an unsigned difference (`OrderBook.cpp:156`). Once a deposit has wrapped the
  balance below its lock, an ask is accepted without the shares. `LocksAddUp` holds
  all the same; `LocksAreSums` and `LocksStayCovered` are checked and proved where
  no balance wraps.
- "Add base (shares, non-negative)" (`main.cpp:359`, `README.md:72`): a typed -1 is read into
  64 unsigned bits and cut to 32 (`main.cpp:299`), and adds 2^32-1 shares.
- `WaitIdleMeansDone` and `WaitIdleReturns` hold with one caller (`pool`), who cannot be inside
  `submit` and inside `wait_idle` at once. With two, the first fails (`pool_idle_early`), and so
  does the second: in the same window between push and count, the increment of
  `submit` can be what brings the wrapped counter to zero; only a worker
  notifies `idle_cv_`, and the other caller sleeps for ever although every task has run.
- The constructor starts worker `i` before it appends worker `i+1`, and `steal()` reads
  `workers_.size()` with nothing ordering the two, a data race; while the pool is being
  built the model gives the read every size the vector has had meanwhile.
- A prompt for a number asks for ever at the end of the input (`main.cpp:283`). No text
  promises otherwise; `EndsWithInput` is stated for every other state.

## 5. Proofs

`LimitOrderBookProofs` (any price range, pool size, quantity width, arguments):

- `TypeCorrect`: `Spec => []TypeOK`, inductive as it stands.
- `BestCached`: `Spec => []BestIsBest`. The cached best is the best level whose
  bit is set. `FindBestMarked` says that the word-by-word scan finds it, for
  every word size; `SetOccupiedMarks` and `ClearOccupiedUnmarks` say what the
  bit operations do to the set of marked levels, and carry each case.
- `Uncrossed`: `Spec => []BookUncrossed`. The invariant speaks only about
  states between calls, so it is strengthened to `Separated`: `BestMarked` (a
  cached best level is an occupied one, and no occupied level is better)
  and `BidsBelowAsks` (every occupied bid level is below every occupied ask
  level, also during a call). `RestRemainder` preserves it because the loop has
  ended: no occupied level of the other side is reached by the limit. No
  assumption on quantities is needed; a wrapped total clears a bit, which
  cannot cross the book.
- `ListsCorrect`: `Spec => []ListsWellFormed`, and `FreeListCorrect`:
  `Spec => []FreeListIsComplement`, from the inductive invariant `ListInv` (TLC
  checked it on the instance of `engine` first). Both properties read a list by
  following its links (`Chain`). The proofs describe a list by its sequence of
  nodes instead: `Reads(q, n, S, first, link)` says that q runs through the n
  nodes of S, each once, along `link`, and `Threads` adds the way back. Each
  operation is a lemma about that sequence: `ThreadsAppended` (rest),
  `ThreadsSpliced` (fill, cancel: first, middle, last or only node),
  `ReadsPopped` and `ReadsPushed` (the free list). `ChainReads` says that following the links finds the
  sequence, so no induction over a list is needed; it works because `Hops`, the
  walk that `Chain` is cut from, is unique (`LeastNatural`).
- `ListInv` has four parts that need each other: `IdsMatch` (an id maps to a node that
  carries it), `RestingPlaced` (side and price of a mapped node are real), `Linked` (each level's list
  is of exactly its orders) and `FreeLinked` (the free list is of exactly
  the other nodes). `alloc_order` takes a node from the last that the second
  and third say is in no level's list.

- `Progress`: `Spec => MatchProgress`, from `QtyInv`: no order rests or is matched
  with nothing (`Positive`), and a level's total is the sum of its orders modulo
  2^w (`TotalsModulo`). No assumption on quantities, so it covers the run
  `engine_wrap` too, where a level is vacated with orders still on it.
- `LevelsTrack`: `QtyFits => (Spec => []LevelsTrackOrders)`, from `TrackInv`: every
  quantity is small enough that a pool full of them fits (`Bounded`), and a level is marked
  exactly if orders rest on it (TLC checked `QtyInv` and `TrackInv` on the instance of `engine` first). Under `Bounded` the modulus in
  `TotalsModulo` has no effect (`TotalsExact`, by `SumBounds`). `QtyFits` says that the largest
  quantity times the pool size is below 2^w; `engine_wrap` violates it, and then
  the theorem's conclusion fails, which is the disagreement listed above.
- `PriceTimePriority`: `QtyFits => (Spec => ImplementsPriceTime)`. The orders along
  the list of a level are the abstract queue of its price (`BookNow`,
  `BookNext`). Leaving, shrinking and joining a list is removing from,
  replacing the head of and appending to that queue (`OrdersWithout`, `OrdersShrunk`,
  `OrdersAppended`), and no other queue changes (`BookPut`). `CrossingIs`: the loop condition on the cached best price is the
  abstract condition on all queues, and the cached best is the
  abstract best; `AllocFailsWhenFull`: `alloc_order` fails exactly if the id
  rests or `MaxOrders` orders do, by counting ids and nodes; `PlacesFacts`: an
  id is found in the queues exactly if it maps to a node. `MatchStep` maps to
  `Trade`, `RestRemainder` to `Rest`, `ProcessOrder` to `Submit`, `RefuseOrder` to
  `Refuse`, `Reset` to `Clear`, `Cancel` to `Cancel`.
  `NextMaker` can find no maker on a marked level only when totals wrap;
  under `QtyFits` `MarkedHasMaker` excludes it.
- `DepthCorrect`: `QtyFits => (Spec => []DepthShowsOrders)`. By `LevelsTrack` a level total is
  zero exactly if nothing rests there, so each step of the walk goes to the next
  level that holds orders. Of the levels in a finite set, the next one behind the k-th
  has exactly one better level more than it (`TrueDepth` counts those); that the walk's k-th price is the
  level of rank k for every k is shown by the least k for which it is not,
  as `Walk` is a recursive function on `1..kLevels`.

`WorkStealingThreadPoolProofs` (any number of workers, callers and tasks; a
counter of any width that can hold the number of tasks, as `PoolAssumption` says):

- `TypeCorrect` and `CounterCounts`: `Spec => []TypeOK` and `Spec => []PendingCounts`.
  The inductive invariant `IInv` (checked by TLC on the instance of
  `pool_callers`) adds who may be in which phase (`Phases`), that each
  submitted task is at exactly one of four stages: with a submitter, in one
  deque, in one worker's hands, done (`OneStage`), that there are no more tasks
  and counts under way than tasks (`Bounded`), and that nothing is left once the
  destructor stops the workers (`NothingLeft`). A step moves one task by one
  stage; the lemmas `...Moves` say which, and the counts follow from those
  sets' cardinalities.
- `WaitIdleSound`: `wait_idle` returns only when the caller's own tasks are
  done, unless some `submit` is between its push and its count. This is
  exactly the window that `pool_idle_early` shows; `WaitIdleSingleCaller`: with
  one caller there is no window, and `WaitIdleMeansDone` holds.
- `Refinement`: `Spec => ImplementsTaskPool`. A popped or stolen task starts, a run task finishes, and
  the destructor returns with none waiting; every other step is a stutter.

`OrderBookProofs` (any price range, pool size, quantity width, users, seed orders and
arguments, as `OrderBookAssumption` says; none on what balances amount to):

- The invariants are proved of `AnySpec`, the wrapper whose callers pass every argument that the
  types allow, the empty name included. `SpecIsAny` carries them to `Spec`, `RecordedRuns` to the
  wrapper that counts and logs, and `SessionRuns` to the session.
- The engine underneath is `E == INSTANCE LimitOrderBookProofs`, with every argument its
  types allow. `EngineRuns`: a behaviour of the wrapper is a behaviour of that engine (`AnySpec => E!Spec`),
  so the engine's theorems hold inside it. What an operation means for the
  orders by their ids is stated once, in `LimitOrderBookProofs`: `Left(id)` is what
  rests of an order, and `MatchStepLedger`, `RestRemainderLedger` and
  `CancelLedger` say what each step does to it.
- `TypeCorrect` and `RefusalsTradeNothing` from `BaseInv`: the tables are typed, every resting order is known with
  its side and limit (`Known`), the engine's call is the submission's (`RunsCall`), and
  each execution that is not settled yet is a trade of the taker with another
  order, at that order's limit (`PendingFair`). A refused
  submission has traded nothing because a taker always finds a node: ids are
  never handed out twice and id 0 never, so one node is always free (`RoomToRest`).
- `BooksAgree`: `Spec => []EngineInSync`, and `DiscardsWhole`: `Spec => DiscardLeavesNothing`, from `Synced`:
  at every step, what the wrapper has left of an order is what the engine has
  left of it, plus what executions that are not settled yet take from it, plus
  what the engine has still to match (`Agrees`). So a trade that is settled
  finds its maker active and with enough left (`SettleFinds`): the skip of an
  inactive maker in `apply_executions` is never taken, and no remaining quantity
  wraps (`FilledExact`). Quantities are unrestricted: wrapped level totals do
  not disturb it.

`OrderBookFundsProofs` (the same parameters):

- `BaseConserved`: `Spec => TradesConserveBase`. Settlement gives the buyer what it
  takes from the seller, also when they are the same user and also modulo 2^w
  (`ExchangeBases`).
- `LocksAlwaysAddUp`: `Spec => []LocksAddUp`, from the invariant `Funds` alone: what an
  order locks is what the rest of it needs at its limit, and what a user has locked is the
  sum over its orders, of base modulo 2^w. No assumption on balances: what
  is locked and released is added and subtracted modulo 2^w alike.
- `LocksAreExact`: `BaseFits => (Spec => []LocksAreSums)`, and `LocksCovered`:
  `BaseFits /\ PriceMin >= 0 => (Spec => LocksStayCovered)`, from `Funds` and two more.
  `Backed`: the base of all users together fits its type, and each user owns the
  base that its orders sell, so neither sum wraps. `Priced`: every execution
  that is not settled yet is inside the engine's price range.
- `BaseFits` says that the base in the system, the seeds' and what is deposited
  up to `BaseCap`, is below 2^w. It is an assumption about use: a deposit adds without
  a check (`OrderBook.cpp:92`), so with more than that a balance can wrap below
  what its orders sell, a later trade then takes it through zero, and the sums
  are no longer exact. `PriceMin >= 0` is there because a trade at a
  negative price takes quote from the seller, whose cover in quote an ask does not check.
- `QuoteTrade`: a trade leaves the unlocked quote of either party at least as it was. A
  bid that trades below its limit has the difference credited on top of
  what it saved; the same step is why `TradesConserveQuote` is violated (section 4) and
  has no theorem.

TLC checked `BaseInv`, `Synced`, `Funds`, `Backed` and `Priced` on a small instance of the wrapper first.

`SessionProofs` (any numbers typed, any users, names and seed orders; no assumption on
what balances amount to):

- `SessionRuns`: `SpecSession => AnySpec`. What the session passes has been converted to the
  parameter's type, whatever was typed, so the wrapper's invariants hold in it.
- `SessionLocksAddUp`: `SpecSession => []LocksAddUp`, from `Funds` by `SessionRuns`.
- `OwnUsersOnly`: `SpecSession => ActsForSignedUp`, from `UiTyped`: a choice that needs
  a user is being served only when somebody has signed up, and then the current user is
  one of those. A step between two calls is the call of the current user, which touches
  nobody else's balances and no order but its own, or a sign-up, whose user is
  then one of those that signed up.

`ArithmeticLemmas`: remainders by a modulus that is a parameter, and sums over
finite sets (`SumTake`, `SumAdd`, `SumChange`, `SumBounds`). The library's sum is a fold, so that its
recursive equation is proved here from well-founded recursion on finite subsets.

`SpscRingBufferProofs` (any capacity of at least 2, any number of values):

- `TypeCorrect`, `NoDataRace`, `Correctness`, `ObserversTrusted` from one
  inductive invariant.
  `RaceFree` and `InOrder` are not inductive: they need to know that entry k
  of an index history is k-1 modulo the capacity (`IndexHistory`), that
  what was acquired is what was read (`Acquired`), that pushes are never more than
  capacity-1 ahead of the pops the producer knows and pops never ahead of
  the pushes the consumer knows (`Bracket`), which push a slot holds
  (`SlotsHold`) and who read it last (`ReadHistory`), and what was delivered
  (`Delivered`). The lemmas `Wrap...` give the modular arithmetic: two indices
  less than a capacity apart are equal modulo it only if they are equal. That
  needs only a remainder; that the capacity is a power of two is what makes
  the code's mask one.

- `ObserversTrusted`: `Spec => []AnswersLast`. What `full()` denied stays denied
  because the head can only come further and the producer's own tail stays.
- `Refinement`: `Spec => ImplementsFifo`. `StoreTail` maps to `Put` and
  `StoreHead` to `Take`; every other step leaves the waiting values alone,
  `WriteSlot` because the slot it writes lies outside the window of those values.

`DiagnosticsProofs` (any size of the log, any arguments of the calls):

- `LogRefines`: `SpecRecorded => LogKeepsPromise`, from the invariant that size
  and write position stay inside the ring and are equal until the ring is full. The proof is about `PushTrade`: after
  it, position i of the reader holds what position i-1 held before.
- `CountersCorrect`: `SpecRecorded => []CountersAddUp`. The property speaks about
  states between calls. During a submission it needs to know how many orders the trades
  that are still to be settled will fill (`FillInv`): every one
  of them empties its maker, except perhaps the last, and then nothing of the taker
  rests (`TradesFill`, by price-time priority of the matching loop: it leaves a maker only
  when it is empty or the taker is). `CountersInv` then counts
  orders known, active, filled, cancelled and rejected at every step; `RecordedRuns`
  takes the invariants of `OrderBookProofs` over. TLC checked the parts of `FillInv`
  and `CountersInv` on the instance of `diagnostics` first.
- `SubmissionTold`: `SpecRecorded => LogTellsSubmission`, from `Told` (checked by TLC on the same instance): during
  settlement the newest entries of the log are the trades settled so far, as many
  as the log holds. It needs `SettleFinds` (no trade is skipped, so none is
  missing from the log), `NextBounded` (settlement starts with the first trade and ends
  with the last) and that a settled trade leaves the orders' sides alone, since the log's entry
  is read off the orders.

Assumptions are those of the ASSUME statements of the modules, which the code
asserts (`static_assert`) or its types give, and `QtyFits`, `BaseFits` or `PriceMin >= 0` where a theorem says so.
Of TLAPS's library the proofs use the facts about finite sets, functions and
sequences. Every theorem about a property of a run is stated for that property
as the run checks it.

Only model-checked: liveness under fairness (`TasksRun`, `WaitIdleReturns`, `AllDelivered`,
`EndsWithInput`), which is out of the prover's reach. Every invariant, action property
and refinement that a passing run checks is a theorem.

## 6. Not modelled, and what is left

Not modelled, since no state of the modelled components depends on it: argument
parsing, timing, the generator of the random load, console formatting, the
fixed call sequences of `run_test` and `run_demo` (their calls are among those
of `engine` and `wallet`), the sum that the ring's harness computes, and the build
files. The pool's harness submits from one thread and waits for futures; the
callers of the model do at least as much, and `TasksRun` is what it waits for. The
observers of the ring are modelled as asked by the producer (`full`) and the
consumer (`empty`); a third thread that asks learns nothing it could act on.
