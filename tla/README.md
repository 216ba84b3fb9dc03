# Run-ahead prefetch simulator: TLA+ specifications and proofs

`runahead-prefetch` simulates the front end of a processor, cycle by cycle, over
an instruction trace: a branch predictor runs ahead of fetch and prefetches the
lines it will need into the L1 instruction cache. The program is single-threaded
and deterministic given its trace. What makes it hard to get right is not
concurrency between threads but between pipeline stages: each keeps queues and
counters that the others read in the same cycle, requests are answered cycles
later, and everything depends on the order in which a step does its parts.

Paths and line numbers are those of the repository.

## 1. The system

| component | source | state | operations |
|---|---|---|---|
| Simulation loop | `Simulate.cpp`, `Mem_Hierarchy.cpp` | `steps`, the drivers | `run`: step of the cache, step of the CPU, until the CPU fails |
| Run-ahead CPU | `Cpu_Prefetch_InsOnly.cpp` | fetch buffer, fetch block, instruction queue, count of unanswered fetches, last lines requested, misprediction flag, stall counters | `step`: decode, take responses, fetch, predict and prefetch |
| L1 instruction cache | `Cache_L1i_Standalone.cpp` | tag store, misses by due cycle, misses by line, request queues, response queue, L2 bandwidth window | `step`, `L2_accept`, `sub_send_request`, `sub_get_response` |
| Tag store | `Cache.cpp` | per set an LRU list and a map of ways | `fill`, `read`, `can_read` (`write`, `can_write`, `invalidate` are never called) |
| Trace reader | `Trace.cpp` | one line read ahead | `next_ins`, `parse_ins` |
| Branch predictor | `Br_Predictor.cpp` | target buffer, call stack, statistics, EXACT counter | `predict` |
| Two-level predictor | `2level.cpp` | history registers, pattern tables | `pred`, `update` |
| Pools | `Ins.cpp`, `Request.cpp`, `Response.cpp` | free lists | `New...`, `Free...` |
| General cache | `Cache.cpp` (`step`), `Mem_Interface.cpp` | tag store, queue of requests, requests sent on, answers by due cycle | `step`, `sub_send_request`, `sub_get_response` |
| Memory | `Memory.cpp` | queue of requests, answers by due cycle, last use of the bus | the same three |
| MMU | `Mmu.cpp` | the client's address by request | `send_request`, `get_response` |
| In-order CPU | `Cpu.cpp` | pipe of blocks, fetch block, retired instructions | `step`: retire, take an answer, read a block, ask for its line |
| Configuration, entry point, logging | `Config.cpp`, `main.cpp`, `debug.cpp` | parameters, files | parsing and output |

**Interaction.** Once per cycle `Simulate::run` calls the cache's `step` and then
the CPU's. The CPU calls the cache (`sub_send_request` with `"f"` or `"pf"`,
`sub_get_response("f")`), the trace (`next_ins`) and the predictor (`predict`);
nothing calls back. Instructions move from the trace through `prefetch_block`,
`fetch_buffer` and `fetch_block` to `iq_buffer`, while the CPU's step runs the
stages from the last to the first. Prefetches get no response, so the loop at
`Cpu_Prefetch_InsOnly.cpp:167-172` never has anything to remove.

With `l1i_standalone = false` the same loop steps a cache and then memory, and
after them the in-order CPU, which asks an MMU for lines. A request goes from
MMU to cache to memory as a pointer, by which each level knows it again, and
its answer comes back through a table kept by the cycle it is due in. Each
level asks the one below and is asked by the one above; the cache fetches its
answers from memory at the start of its step.

**What is hard**, in the order of importance given to it here (`PROJECT.json`,
`hazards`, lists each with its line):

1. *Outstanding misses.* Two tables describe them, updated in three places; the
   fill loop erases from the map that bounds it; fetches merge with prefetches
   on their way. Correct means: the tables agree, nothing due stays, and a
   response is due exactly when its line is.
2. *The CPU's bookkeeping.* It counts responses without looking at them and
   resets the count whenever a block moves on. Correct means: the count is what
   the cache still owes, and only for the block at hand.
3. *Order and loss in the pipeline.* Blocks are cut by width, by branches, by
   mispredictions and by the end of the trace, and emptied blocks linger.
   Correct means: the instructions in the pipeline are a contiguous part of the
   trace, in order; none enters after a misprediction until the pipeline is dry.
4. *Progress.* Full queues, L2 back-pressure and draining must not stop the run.
5. *The tag store.* Index and tag must split the address; refilling a resident
   line must not corrupt the LRU list.
6. *The predictor.* Tables trained with the right index, a target buffer that is
   never stale, a call stack that overflows and starts with what memory held,
   statistics counted in helpers.
7. *Limits.* L2 bandwidth, buffer depths, stall counters, fetch width.
8. *The hierarchy's tables.* A table kept by due cycle holds one answer a cycle:
   two with one key, and the first is overwritten. Correct means: each level
   answers what it accepts once, in time, and forgets nothing, whatever the
   level below refuses.
9. *One fetch, asked once.* The in-order CPU sends its request once and drops an
   answer for another address. Correct means: the request it waits for is always
   out, and is the one it compares with.
10. *The report.* Each number is counted by another part, some before a test and
    some after. Correct means: what the parts report of one run agrees.

## 2. The modules

| module | what it is |
|---|---|
| `TagStore` | the tag store, as operators on a value |
| `TraceReader` | the trace as the CPUs read it: instructions, any of which may come next |
| `FetchChannel` | abstract: what the cache promises for fetches, a FIFO channel |
| `L1iStandalone` | the L1 instruction cache under any client; EXTENDS `TagStore` |
| `MCL1iStandalone` | its bounds for TLC |
| `RequestPool` | the request objects behind the cache's queues, who holds and who frees them; EXTENDS `L1iStandalone` |
| `MCRequestPool` | its bounds for TLC |
| `FrontEnd` | abstract: what a front end promises, one queue in trace order that drains after a misprediction |
| `RunaheadSim` | the simulator: loop, CPU and trace composed with the cache; EXTENDS `L1iStandalone` and `TraceReader` and is model-checked directly |
| `TwoLevel` | the direction predictor, as operators on a value |
| `BranchHistory` | abstract: what a two-level predictor is |
| `BrPredictor` | the branch predictor; EXTENDS `TwoLevel` |
| `MCBrPredictor` | the code it is exercised with, and its bound |
| `SimReport` | the simulator composed with its predictor, and all that it reports; EXTENDS `RunaheadSim`, instantiates `BrPredictor` |
| `MemLevel` | abstract: what a level of a memory hierarchy promises the level above |
| `CacheHierarchy` | MMU, general cache and memory under any client; EXTENDS `TagStore` |
| `MCCacheHierarchy` | its bounds for TLC |
| `InOrderCpu` | the simulator with the in-order CPU; EXTENDS `CacheHierarchy` and `TraceReader` |
| `MCInOrderCpu` | its bound for TLC |
| `DataLemmas` | what the proofs share: induction over numbers, sequences, the tag store's operators, quotients, powers of two and bits |
| `L1iStandaloneProofs`, `RequestPoolProofs`, `RunaheadSimProofs`, `SimReportProofs`, `BrPredictorProofs`, `CacheHierarchyProofs`, `InOrderCpuProofs` | theorems and proofs, each of the module it is named for |

Operators whose comment begins with "Mutant" are faulty variants of the operator
that follows. They are used by no specification; substituting one for its
original must break the property that `PROJECT.json` pairs it with, which shows
that the property depends on that piece of code.

### 2.1 The cache (`L1iStandalone`)

Variables keep the names of the members. `pc` is the loop that `step` is in
(`"fill"`, `"f"`, `"pf"`), or `"cpu"` between two steps; `i` is the loop counter.
An action is one iteration: `FillLine` (lines 76-94), `FetchHit`, `FetchMerge`,
`FetchMiss` (100-132), `PrefetchMerge`, `PrefetchHit`, `PrefetchMiss` (135-166)
and the ends of the three loops. `ClientSend`, `ClientReceive` and `NextCycle`
are what a client may do between two steps. `L1iSpec` puts no restriction on the
client, so what is shown of it holds for the CPU.

Abstractions:

- An address is its line number (`addr / cl_size`), so shifts and masks become
  quotients and remainders. Both `sets` and `cl_size` are powers of two in any
  configuration for which the code's masks mean anything.
- A request is its line; the object that carries it is in `RequestPool`, the
  request and miss statistics in `SimReport`.
- `front()` of an empty `std::list` is undefined; lines 101 and 136 rely on
  libstdc++ giving the list's size there, which is 0 and so reads as `NULL`.
  The model takes it as "the queue is empty". `Cpu_Prefetch_InsOnly.cpp:227` is
  the same, and only logs.
- `NoLimit` is the code's -1 for an unlimited bandwidth.

### 2.2 The request pool (`RequestPool`)

The cache moves pointers to `Request` objects. `RequestPool` adds to each action
of `L1iStandalone` what it does to pointers: `heap` holds the objects by address,
`miss_requests`, `queued` and `answered` are the queues as the code has them, with
an address in the place of a line, and `free_request_list` is the pool.
`SendRequest` is `NewRequest` and `sub_send_request`, as the CPU calls them;
`ReceiveResponse` is the CPU's `delete` of a response, whose destructor frees the
request. Because `L1iStandalone` notes a line once, when the request is queued,
while the code reads `request->da` when it needs it, `RequestsIntact` is also what
justifies that module's abstraction. A fetch miss is pointed to from the miss
buffer and from its response at once, and is recycled with the response.
`dropped` is a history variable: prefetches that are ignored or overflow are let go
and never return to the pool, which is harmless but for memory; `OnlyDroppedLost`
shows that nothing else is. `Response` objects have one owner each, and no
response that exists is ever passed to `FreeResponse`, so they are not modelled.

### 2.3 The simulator (`RunaheadSim`)

`stage` names the next part of the CPU's step, in the order of the code:
`decode` (78-83), `response` (86-104), `fetch` and `fetching` (107-164),
`predict`, `predicting` and `control` (175-234), `end` (238-242). An action is one
iteration of a loop or one block. Of the cache the CPU changes the queues only.

- The trace is chosen while it is read: after a line there may be any other, at
  any of `Addresses`, or the end; as in the code, nothing asks that an
  instruction follow the one before it in memory, and a block may go backwards.
  `TraceLen` bounds its length. `temp_ins` is `Trace`'s line of look-ahead;
  `next_ins` returns nothing for the last line, as in the code. The first two
  lines, which the constructor skips, are not modelled.
- Of an instruction the CPU tells apart only "no branch", "branch not taken" and
  "any other control instruction"; `Kinds` has these three.
- The predictor's answer is any one that `Fallible` allows. `BrPredictor` shows
  which: `PERFECT` never fails, `EXACT` may fail on any control instruction,
  the others on taken ones only. The runs allow all (`EXACT` is the default), so
  that what they show holds for any predictor; `SimReport` has the real ones.
- `last_misp` and `total_decoded_ins` are not initialised by the constructor:
  `last_misp` starts with either value, `total_decoded_ins` with any of
  `UninitValues`.
- `prefetched` is a history variable.
- `FrontEnd` abstracts from the buffers: `Window` puts `iq_buffer`, `fetch_block`,
  `fetch_buffer` and `prefetch_block` one behind the other, `temp_ins` is the next
  instruction to enter, `total_decoded_ins` counts what has left, `last_misp` says
  that the queue drains. Moving a block is a stutter. `InOrderCpu` implements the
  same specification with its pipe, and never drains.

### 2.4 The predictor (`TwoLevel`, `BrPredictor`)

An action of `BrPredictor` is one call of `predict`, by configuration and kind of
instruction. `br_pred_type` is chosen once, at the start. The direction tables
are a value, `branch_predictor`; a history register is an unsigned number of
`IntBits` bits, the two's complement of the `int` of the code, whose shift drops
the top bit. `PHT` counters start within 0..3. `references`, `failures` and
`last_taken` are history variables.

- `BtbTagMask`, the set of the mask's bits, is tied to `BtbSetBits` as the
  constructor's arithmetic ties them (`MaskOfDouble`); `sets` is a power of two,
  as its use in a mask asks. `TagBits` is 0 for one and for two sets, 1 for four,
  26 for 32. With 64 sets it is 57, more than a `double` holds: 2^57 - 1 is rounded
  to 2^57, and the mask is bit 57 alone. From 128 sets on, the default of 2048
  included, the conversion to `uint64_t` is undefined, and any mask is allowed.
- `call_stack` is not initialised: it starts with any of `UninitCallStack`.
- With `NONE`, and with any other number that `br_pred_type` is set to, `predict`
  ends without a `return`, which is undefined. The model has the outcomes of the
  builds that were tried: with the optimisation of the Makefile the compiler takes
  the last test, for EXACT, for true, so that `NONE` counts references as EXACT
  does; without it the caller reads SUCCESS. Both are allowed, call by call.

### 2.5 The general hierarchy (`CacheHierarchy`)

Variables keep the names of the members, with a prefix where two classes have a
member of one name: `mem_request_buffer` and `mem_response_buffer` are `Memory`'s
`super_in_request_buffer` and `super_in_response_buffer`. `pc` is the part of the
cycle that runs next: `"fill"` (`Cache.cpp:90-110`) and `"lookup"` (112-159) are
the cache's step, `"memory"` is memory's, and at `"client"` the MMU may be called
until `EndCycle`. Each part handles at most one request per cycle, as the code
does, and a request that memory refuses stays at the head of the queue.

- A request is the address of its object, since that is what the tables are
  keyed by; `Requests` bounds how many there are at a time.
- The tables of answers are functions from cycles, with `std::map`'s overwriting:
  `CompletionsDistinct` is what makes it harmless.
- `Memory::step` makes a `Response` without setting `response_res`. Its value is
  any one of `UninitRes`; the cache drops an answer that reads as `FAIL` (101-109)
  and leaves the request in its table. `lost` is the history of these.
- Only the `INSTRUCTION` MMU is built, so every request is a `FETCH`; the branches
  for other types add nothing to what is modelled. `front()` of an empty list
  reads as `NULL`, as in 2.1.
- `asked` is a history variable: the cycle in which the MMU sent each request.

### 2.6 The in-order CPU (`InOrderCpu`)

`stage` names the next part of `Cpu::step`: `"retire"` (58-65), `"fetch"` (69-71,
86-94), `"reading"` (72-77, 95-101, an action per instruction), `"send"` (78-84,
102-108), `"end"`. The branches that the code repeats for `steps == 0` and later
are one action each. `back_end` is false, the configuration for which the code
retires anything. A refused request (`CacheFull`) and an answer for another
address are in the model as the code has them; `FetchOutstanding` shows that
neither happens, and that an answer of memory that reads as `FAIL` (2.5) is the
only way in which the one request is lost, whereupon the CPU waits for ever.
`TraceEnd` is where the program stops: the log message at lines 73 and 97 reads
`ins->ia` before the test for `NULL` that follows it.

### 2.7 The simulator and its report (`SimReport`)

Each action is one of `RunaheadSim` with what that leaves out: `Control` calls
`predict` of an instance of `BrPredictor`, whose result decides between
`Mispredicted` and the other two, and the cache's actions count
(`total_requests`, `total_misses`). `RunaheadSim` knows of a control instruction
only whether it is taken; its type is chosen when the predictor looks at it, and
nothing else looks at it. `fetches_sent` is a history variable: the requests that
the fetch stage has made, for which the program has no counter of its own.

## 3. What is checked

Every property has a comment in its module that states it and the code it is
about. Each run finishes within about two minutes.

| run | module | shows |
|---|---|---|
| `L1iCapacity` | `MCL1iStandalone` | `TypeOK`, `MshrCoherent`, `NoOverdueMiss`, `FetchBackedByMiss`, `SetCoherent`, `WaysNotShared`; refinement of `FetchChannel` (`FetchesInOrder`) |
| `Requests` | `MCRequestPool` | `RequestsIntact`, `FreedOnce`, `OnlyDroppedLost` |
| `SimRunahead` | `RunaheadSim` | `SimTypeOK`, `FetchAccounting`, `CountsAgree`, `BuffersWithinLimits`, `StallsNest`, `BlocksWithinWidth`, `PrefetchLeadsFetch`, `BandwidthRespected`, `Termination`; refinement of `FrontEnd` (`FrontEndInOrder`) |
| `Report` | `SimReport` | `FetchRequestsCounted`, `MissesCostStalls`, `FlushesCostCycles` |
| `Predictor` | `MCBrPredictor` | `PredictorTypeOK`, `MispredictionsAddUp`, `ReturnsBacked`, `ExactSpacing`, `BtbHoldsLast`, `LearnsSteadyBranch`; refinement of `BranchHistory` (`ImplementsHistory`) |
| `Hierarchy` | `MCCacheHierarchy` | `HierTypeOK`, `CompletionsDistinct`; cache and memory each refine `MemLevel` (`CacheAnswers`, `MemoryAnswers`) |
| `InOrder` | `MCInOrderCpu` | `FetchOutstanding`, `FetchPaced`, `LinesListedOnce`, `TraceConsumed`; refinement of `FrontEnd` (`InOrderPipe`) |

Where the repository says one thing of itself and its code does another, a run
shows the difference: it checks the statement as a property, and TLC finds the
behaviour that violates it.

| run | statement | what the code does |
|---|---|---|
| `L1iAliasing` | unique tags (README:90) | `set_mask` uses `cl_size`, so lines alias if `sets > cl_size` (`Cache.cpp:24`) |
| `L1iBackPressure` | a full queue back-pressures (README:91) | it drops its oldest prefetch (`Cache_L1i_Standalone.cpp:219`) |
| `SimShortQueue` | entries of up to pd_pipe_width (README:80) | a block longer than `iq_buffer_size` never moves (`Cpu_Prefetch_InsOnly.cpp:107`) |
| `SimStarved` | Total Stalls counts stalled and starved cycles (README:63) | a cycle in which fetch finds its buffer empty is not counted (`Cpu_Prefetch_InsOnly.cpp:162`) |
| `PredictorBtbTags` | unique tags (README:111) | the tag mask is computed from the number of sets (`Br_Predictor.cpp:25`) |

More differences were met while modelling and are only described here.

- *Stalls.* Decode Stalls (README:61) are counted only while fetch waits for the
  cache (101-104), not whenever decode starves. The three counters are therefore
  not what README:61-63 say; `StallsNest` and `MissesCostStalls` are about what
  the code counts.
- *Requests.* A prefetch that is ignored because its line is outstanding, or
  pushed out of a full queue, is not in "pf Requests" (README:65). The general
  cache, unlike the standalone one, counts a request again each time that memory
  refuses it (`Cache.cpp:136`, `147`).
- *Branches not taken.* One that is predicted taken increments
  `total_branch_mispredictions` and returns SUCCESS (`Br_Predictor.cpp:79`), so the
  CPU runs on along a path the predictor did not choose, where README:98 says "the
  path determined by the branch predictor". The models do as the code does, and
  `MispredictionsAddUp` allows for it: it bounds the FAILs by the mispredictions.
- *Initial values.* `total_decoded_ins` is never initialised, so "Total Decoded
  Instructions" may start at anything (`CountsAgree` shows that the count is
  exact from there on). `call_stack` is not either (`Br_Predictor.hpp:25`): a return
  may be predicted with no call behind it, and the stack may seem deeper than the
  size of README:112. `ReturnsBacked` says what is left: no more such returns than
  the value it began with, and no call makes the stack deeper than its size.
  Nor is a `Response`'s `response_res` in `Memory.cpp:29` (2.5).
- *The configuration NONE* of the predictor (2.4) has no defined meaning.
- *Widths.* The width test of fetch looks at the instruction already added, with
  `>`, so a block may exceed `fe_pipe_width` by its last instruction
  (`BlocksWithinWidth` holds the others to it). `BandwidthRespected` needs a
  `miss_byte_bw` that divides `cl_size` (`BandwidthKept` assumes it): otherwise the
  quotient in `L2_accept` is rounded down, and lines come sooner than they can be
  transferred; above `cl_size` it is 0 and every miss is accepted.
- *Prefetch types.* N1L and N2L only switch off the prefetch of branch targets: the
  line requested is the instruction's own, never the next.
- *In-order CPU.* It crashes at the end of the trace (2.6). A request that the
  cache refuses is not sent again (`Cpu.cpp:82`, `106`); this needs
  `in_request_buffer_size = 0` to happen.

### 3.1 Bounds, and why they are enough

- *Cache.* Three lines, all in one set of two ways, so that every third fill
  evicts; one port per cycle makes false misses; a prefetch queue of one entry
  overflows. In `L1iCapacity` L2 has no limit and `MissLatency` is 2: several
  lines come in one cycle, and two cycles of misses are outstanding while the
  fill loop runs. Ten cycles (`MaxSteps`) cover several rounds of
  a miss, its return, an eviction and the miss after it. At most two fetches are
  unanswered (`MaxFetches`); the prefetch queue needs no bound.
- *Requests.* Two lines in a set of one way, up to four requests at a time
  (`MaxRequests`, which also bounds the fetch queue), seven cycles: requests are
  recycled several times over, prefetches overflow, are ignored, merge, hit and
  miss, and several lines come in one cycle. Since dropped prefetches are lost for
  good, the heap fills up; `AtBound` marks where exploration ends.
- *Simulator.* Traces of up to five instructions at two addresses, 4 and 8, in any
  order: they stay, go forwards and go backwards. Their lines collide in a cache
  of one way per set, with a line every two cycles from L2 (`ClSize` 2,
  `MissByteBw` 1), so that L2 refuses requests of both kinds. 4 bytes are just
  within the width of fetch and beyond that of prediction; the prefetch queue has
  one entry, and some traces reach the retire limit and some do not. Runs end, so
  cycles and counters need no bound. `UninitValues` is one value other than 0.
- *Predictor.* Seven predictions in any order over nine instructions
  (`MixedCode`), of which the five that are put into the target buffer share a
  set of it, under two tags;
  a call stack of two, which starts empty or deeper than its size; as predictor
  two registers of two bits of history, in an integer of three bits that overflows
  at the third shift, with pattern tables in two sets (`I` 1, `J` 2, `K` 2, `S` 1).
- *Report.* The bounds of *Simulator* with a fetch buffer of two blocks, each
  control instruction of any type that fits it, and all five settings of the
  predictor: EXACT with every second reference, a target buffer of
  two sets whose tags have no bits, so that branches share entries, a call stack of
  one, empty or with two entries, and one bit
  of history. Five instructions are enough for two mispredictions with a flush
  each, for a fetch merged with a prefetch, and for a miss that L2 refuses.
- *Hierarchy.* Up to four requests at once (symmetric: they are only compared)
  for two lines of one set of one way, so that they evict each other; a bus that
  is busy for two cycles; a queue and a memory of two. `MemLatency` 6 exceeds
  `HitLatency` 2, so hits overtake misses under way. Eleven cycles (`MaxSteps`)
  take a request from a refusal through a miss to its answer, and more than once.
- *In-order CPU.* Traces of up to five instructions at four addresses in three
  lines of one set of two ways, so that the third line evicts one that the trace
  may come back to; blocks of one or two. `HitLatency` 3 exceeds
  `MemLatency` 2, so that an answer from memory waits for its cycle, and the bus
  refuses the first look-up of a run. `MaxSteps` 26 cuts off only the endless
  wait after a lost answer: every other run has reached the end of its trace.

### 3.2 Fairness

`SimSpec` has weak fairness of `Work`, the disjunction of every step of the
program. There is one thread, no step waits for anything outside the program,
and every action is a bounded piece of code, so as long as some step can be
taken the program takes one. Nothing more is assumed: which of several enabled
actions is taken is left open, though only the choice of the trace and of the
predictor's answer ever leaves more than one. Only `Termination` needs it.
`InOrderSpec` and `ReportSpec` have the same fairness, of their own `Work` and
`ReportWork`, for the same reason; `TraceConsumed` needs the former. The bound of
`MCInOrderCpu` is part of the action that is fair there, and ends no run that
`TraceConsumed` still asks something of, since such a run has lost an answer.

Deadlock is checked except for the predictor, whose model stops at
`MaxPredictions` as the program stops calling `predict` at the end of the trace.

## 4. What is proved

Every property of a passing run has a theorem, but for the two liveness
properties. The theorems hold for every value of the constants that the `ASSUME`s
allow: any number of lines, sets, ways, any latency, bandwidth, buffer size, trace
and code. Some assume more, and say so:

| theorem | assumes | because otherwise |
|---|---|---|
| `NoAliasing` | `LinesTellApart`: `sets <= cl_size`, and no line beyond the tag mask | lines alias (run `L1iAliasing`) |
| `BandwidthKept`, `SimBandwidthKept` | `WholeCycles`: `miss_byte_bw` divides `cl_size` | section 3, *Widths* |
| `MissesStall` | `hit_request_bw` is limited | the property is about the ports |
| `FetchAlwaysOutstanding` | `in_request_buffer_size` is not 0 | the request is refused and the CPU waits for ever |

*`DataLemmas`.* The provers do no induction, and the library's induction theorems
take an operator, which none of them can instantiate. `NatSetInduction` says the
same of a set: one that holds 0 and with each number the next holds all of them,
since below a number that it left out, adding one would be a bijection that the
pigeonhole principle forbids. With it facts about recursive functions are proved
by exhibiting a function that satisfies the recursion: `FlattenSeq` is the last of
the prefixes laid end to end, and so distributes over `Append` and `Head`. On that
rest the pipelines, and `Without`, which the tag store removes a tag with. The
numbers `2^n` are positive and double with `n` because they count subsets, which
is `FS_SUBSET` of the library (whose own proof takes `2^(n+1) = 2^n + 2^n` as
given); from that come the bits of a number, that a shift moves them, that a mask
keeps the lowest, that they determine the number and can be chosen at will.

*`L1iStandaloneProofs`.* The properties of the cache are not inductive each on
its own: that a response matches a miss needs the two tables to agree, that a
merged fetch gets the right time needs that no overdue miss exists while fetches
are served, and that needs the shape of the fill loop. The invariant is

    L1iInv == CoreTypeOK /\ MshrCoherent /\ DueWindow /\ FetchBackedByMiss

`DueWindow` says that all outstanding misses are due within `MissLatency` of now
and that, while the fill loop runs, at most one cycle is due, with `i` still 0 as
long as it is there. That is why the shrinking bound does no harm: the loop needs
one iteration only, since the previous step left nothing due. From `L1iInvariant`
follow `MshrCoherence`, `FillLoopComplete`, `FetchResponsesBacked`, and
`FetchChannelImplemented`, which maps each action to a step of `FetchChannel` or
a stutter. None of these depends on what hits.

`StoreInvariant` is about the tag store alone: in each set the LRU list names the
resident tags, each once, and there are no more than the ways. A fill of a line that is
there already breaks that for a moment, within the action: `fill` appends the tag
a second time, and the `read` that follows removes both before it appends it again.
`CacheTypeCorrect` and `SetsCoherent` follow; for `NoAliasing` the resident lines
of a set are mapped one to one to its tags. `SpacedInvariant` holds
in every configuration: any two outstanding misses are due `cl_size \div
miss_byte_bw` cycles apart, and none later than `last_miss_cycle + MissLatency`.
`BandwidthKept` follows where that quotient is a whole transfer.

*`RequestPoolProofs`.* `PoolImplementsCache`: the pool adds to the cache's actions
and takes nothing from them, so `L1iInv` holds in it. On top of that

    PoolInv == PoolTypes /\ Beside /\ QueuesIntact /\ MissesIntact /\ NotTwice /\ Apart

The queues of pointers run beside those of lines (`Beside`), what each points to
reads as it was made (`QueuesIntact`, `MissesIntact`), and a request is in one
place only (`Apart`), but for that of a fetch miss, which the miss buffer
and a response share. It is freed with the response, so the miss buffer must have
dropped it by then: `MissesIntact` ties the response to the same cycle, and by
`DueWindow` what is due then has been filled. `QueuesKeepRequests`,
`RequestsFreedOnce` and `RequestsAccounted` are its consequences.

*`RunaheadSimProofs`.* `SimDrivesCache`: a run of the simulator is a run of
`L1iSpec`, so that everything proved of the cache holds in it.

- `FetchAccountingCorrect`: `fetch_per_block` is the number of pending fetches in
  the cache, which makes the reset at line 110 harmless. `RetiredAccounted`: the
  counts of decoded and retired instructions agree.
- `PipelineIsFrontEnd`: with `PredictInv` (`prefetch_block` is empty but while
  prediction runs, and it runs only when nothing is mispredicted) each action is a step of
  `FrontEnd` or leaves the queue as it is. The flush needs that a misprediction is
  only ever made by the youngest instruction.
- `BuffersBounded`, from `DepthInv`. `StallCountersNest`, from `StallInv`: in the
  middle of a step a counter that comes later may lag by one, and by which stage
  it has caught up is part of the invariant.
- `BlocksBounded`, from `SpanInv`: no instruction of a block but its last is
  below its first, or further above it than the width of the stage (`Reaches`).
  A block grows only while its newest instruction passes that test, which it fails
  when it lies below, the difference being unsigned.
- `PrefetchLeads`, from `LeadInv`: of what prediction has read and fetch has not,
  every line has been prefetched, and so has the line of `prev_prefetch_cl`, for
  which no second prefetch is sent. Both "last lines" start at 0, so that a trace
  that begins in line 0 neither prefetches nor fetches it until it leaves it;
  `AllLine0` is that case.
- `SimTypeCorrect` and `SimBandwidthKept`.

*`SimReportProofs`.* `ReportRunsSimulator`: every step of `SimReport` is a step of
`RunaheadSim` or a stutter, because the calls of the predictor and the counters
only restrict and never add. It needs no property of the predictor. With it the
invariants of `RunaheadSimProofs` carry over.

- `FetchRequestsCountedCorrect`: a fetch request is counted in exactly the actions
  that take it from its queue.
- `FlushesCost`: `CyclesPassed` measures, from where the mispredicted block is and
  which stage runs, how many of its three cycles have passed; no step advances it
  by more than the cycles it takes.
- `MissesStall`: a miss of fetch leaves a response that is held back, so that the
  CPU will count the cycle as stalled; until it has, the misses of that cycle, at
  most one for each port, are ahead of the stalls (`MissInv`).

*`BrPredictorProofs`.* `StatisticsAddUp` is inductive once the counters are typed,
and so is `CallStackSound` for each value that the uninitialised `call_stack` may
have begun with (`BackedFrom`). `ExactSpacingCorrect` uses the invariant
`references = failures * n + t` and `t < n`, the form of quotient and remainder
that a step preserves. `TargetsNeverStale` and `PredictorTypeCorrect` come from
`TablesInv`, in which buffer and history change together. `HistoryImplemented`,
the refinement of `BranchHistory`, is an argument about bits: a register seen
through `K` bits drops its oldest and shows the newest outcome, since
`K < IntBits` keeps the bits that overflow out of sight; and `Index`, which finds the
entry of a pattern, is a bijection, so that training the entry moves the counter
of that pattern and of no other. `SteadyBranchLearned` holds in any state of the
tables: after `k` outcomes the lowest `k` bits show them, after `K` the same
counter is looked at each time, and two more turn it.

*`CacheHierarchyProofs`.* The invariant is

    HierInv == HierTypes /\ Places /\ MemPlaces /\ Keys /\ MemKeys /\ Timing /\ MemTiming

`Places` and `MemPlaces` say that a request is in one place of each level: queued,
sent on or answered in the cache, queued or answered in memory or lost. `Keys`
is why no answer is overwritten: one look-up a cycle gives each request a due
cycle of its own, `steps + HitLatency`, later than all that were given before;
that cycle is kept when the request comes back from memory, however late. `Timing`
adds that what is asked in a cycle is looked up in the next at the earliest. From
`HierInvariant` follow `NoAnswerOverwritten`, `CacheImplementsLevel` and
`MemoryImplementsLevel`, which map each action to a step of `MemLevel` or a
stutter, and, with the types of the tag store and of the tables of answers,
`HierTypeCorrect`.

*`InOrderCpuProofs`.* `CpuDrivesHierarchy`: the simulator with the in-order CPU is
a client of the hierarchy, so `HierInv` holds in it. `FetchAlwaysOutstanding`
follows from that and from `OneOut`, which follows the one request through the
stages of the step; by `Places` and `MemPlaces` a request that is in no queue and
not answered is `lost`, and only an answer that reads as `FAIL` loses it.
`LinesListedOnceHere` needs, beyond the tag store's invariant, that a line that
memory has been asked for is not in the cache (`Absent`): with one request out at
a time, nobody else brings it. `InOrderIsFrontEnd` is the refinement of
`FrontEnd`. `FetchPacedAlways` follows each block through the pipe: what has been
retired and what is in the pipe up to a block was `Allowed` by the cycle before
that block entered (`Paced`), and the request on its way had to wait for
`HitLatency + 1` cycles since the one before it (`PaceInv`).

**Model-checked only:** `Termination` and `TraceConsumed`, which are liveness and
beyond the prover, and that no state but the end is a deadlock. What the runs in
the second table of section 3 show are single behaviours, and need no proof.

## 5. What is not modelled

- *The instruction pool* (`Ins`): the same free list as that of requests, but an
  instruction has one owner at a time, the buffer it is in, and is freed where it
  leaves the last one (`Cpu_Prefetch_InsOnly.cpp:81`, `Cpu.cpp:62`). *The list of
  free responses*: always empty.
- *Configuration, entry point, logging, statistics output*: input and output.
- *The statistics of the general cache*: two counters that each look-up increments.
- *The back end* of the in-order CPU: there is no code for it; with `back_end` the
  step retires nothing.
- `write`, `can_write`, `invalidate`, `add_miss_latency`, `super_send_request`,
  `super_get_response`, requests other than `FETCH`: never called or made.
- Several CPUs: the hierarchy makes one cache and the configuration one CPU.

## 6. What could come next

*Termination in steps.* The safety half of it: a measure of the work left that no
step of the simulator increases but reading the trace.
