# Dispatcher: a TLA+ verification project

Dispatcher is a SCADA/dispatching system in its first sprints: C++ backend
libraries (`backend/libs/scada_*`), one executable (`backend/apps/dispatcher_server`)
that serves configuration over HTTP, and a Blazor WebAssembly frontend. This
directory holds TLA+ models of the parts that have behaviour, the TLC runs that
check them on small instances, and TLAPS proofs for every size.

## 1. The system

The intended chain of the backend (`scada_historian/SERVICE.md`, line 32) is

    polling -> protocol driver -> runtime values -> archive decision -> historian buffer -> batch writer
                                       |
                                       +-> alarm rules -> alarm records -> alarm lifecycle

Each link exists as a library. The links are **not wired** in `main.cpp` yet: the
executable registers its modules, builds the HTTP routes over a development
configuration, serves them and waits for Enter:

    frontend page -> query builder -> Drogon -> dispatcher -> endpoint -> read service -> JSON document

The libraries have no threads of their own; the
only concurrency of the backend is the Drogon event loop thread of
`DrogonHttpServer`, and the only asynchronous code is the frontend's.

| Part | State | Operations | Interacts with | What is hard |
|---|---|---|---|---|
| Historian buffer (`HistorianBuffer`) | deque, four counters, options | push, push_many, drain, drain_up_to, clear | archive decision before it, batch writer after it | overload, partial batches, lossy and lossless modes, order |
| Archive decision (`decide_archive`) | none; the caller keeps the previous sample | one decision per value | runtime values before it, buffer after it | seven policies, throttle, deadband drift, NaN, clocks set back |
| Runtime values (`RuntimeValueApplier`, `TagValueStore`) | current value per tag | apply a read, remove, clear | driver answers in, events out | last good value, counters, conversion failures, NaN |
| Alarm lifecycle (`apply_alarm_transition`) | the alarm record | nine transitions | operators, alarm rules | long legal sequences, fields that must survive, reachability of Closed |
| Alarm rules (`evaluate_alarm_rule`) | none | match a value | runtime values, alarm records | repeated matches |
| Polling (`PollingScheduler`) | none: groups and tasks are passed in | execute a group once | driver registry, drivers | positional pairing of answers, registry changes during a cycle |
| Protocol drivers | registry, simulator's read counter | register, replace, unregister, find; check, read, batch | polling | short batches, shared counter, wrong connection |
| HTTP server | running flag, worker thread, Drogon's application | start, stop, destroy; convert requests and answers, CORS, framework errors | `main.cpp`, Drogon, dispatcher | stop racing start, handlers that outlive the server, errors no route answers |
| HTTP routing and endpoints | routes | dispatch, six handlers, query parsing, correlation ids | server before it, read services after it | order of splitting and decoding, repeated and out-of-range parameters, one id resolved in several places |
| Configuration reads | immutable collections | list objects, devices, tags, tree | HTTP endpoints, frontend | filters, sorting, paging |
| Object model | tree nodes, zones | build tree, path, validate | configuration reads | cycles, orphans |
| Startup (`ApplicationContext`, `main.cpp`) | registered modules, routes | register, start, construct, serve, wait, return | all | a step that fails after others succeeded |
| Gateway composition (`gateway_startup.cpp`, `application_composition.cpp`, `event_bus.cpp`) | none | make plans | nothing calls it | nothing yet |
| Frontend pages | spinner, panel, data, cancellation source | load, refresh, switch, close | API clients over HTTP | late answers, cancellation, timeouts, parallel requests |
| Contracts, API mapping, events, realtime messages, migrations | records | construct, validate | all | nothing beyond field copies |

`PROJECT.json` lists the same components with their files and status, and under
`hazards` the lines where this code could go wrong in a way a test hardly reaches.

## 2. The modules

**`HistoryStream`** is the abstract promise of a history buffer: an append-only log
of accepted samples and a window on its newest end, whose left edge only moves
right. Deliveries hand out what the edge passes over, losses pass over it silently.

**`HistorianBuffer`** models `historian_buffer.cpp` member by member. `push_many` is
kept as a loop (`PushMany` loads the vector, `PushNext` is one iteration), so that a
batch that overruns the capacity is treated element by element. A sample is the
number of its push attempt plus the one attribute `push_internal` inspects. `log`,
`delivered` and `cleared` are histories. `ImplementsStream` is the refinement to
`HistoryStream` with `head = Len(log) - Len(samples_)`.

**`ArchiveHistory`** models `decide_archive` and puts it in the loop its parameters
ask for: the caller passes the sample it archived last. Values are numbers (with a
NaN that differs from itself and defeats every comparison), texts, or empty; times
are milliseconds that nothing orders. `tag_history` and `skipped` are histories: what
was archived, and what has been left out since.

**`RuntimeValues`** models `apply_protocol_read_result` with everything it calls:
lookup, target type, conversion, engineering transform, last good value, change
detection, counter, event, upsert; and removal from the store. Numbers are counted in
halves so that truncation is visible; the conversion of a NaN to an integer,
undefined in C++, may give any of `IntResults`, and no property is about which. `reads`
and `returned` are histories of what each apply stored and what the driver had returned
to it; they begin anew when a tag is removed. `events` is the history of a consumer, who
receives every event, and goes on over removals.

**`AlarmRules`** extends `RuntimeValues` by `evaluate_alarm_rule`: its checks in
order and the four types of rules, applied to every current value the runtime can
store. It has no state of its own, so it adds no action. The code compares with
an epsilon of 1e-9; numbers counted in halves are equal or further apart.

**`AlarmLifecycle`** models `alarm_lifecycle.cpp`: the four checks of
`apply_alarm_transition` in their order, the transition table, what each
transition stamps, and the transition record. `transitions` is the history the
repository interface would keep.

**`PageLoad`** models `ReloadAsync` of the four pages that talk to the backend and
`GetAsync` of the API clients. Blazor WebAssembly runs on one thread, so a load is
two uninterrupted steps of the page (`Reload` up to the await, `Resume` after it)
with request steps, clicks and `Dispose` between them in any order. `HttpClient` is
external: its timeout watches the wait for headers only, since the clients ask for
`ResponseHeadersRead`. A request that has ended keeps its outcome until the page
resumes, so a cancellation can come too late.

**`PollingCycle`** models `execute_group_once` with the registry and the simulator
driver. Every early return is an action (`Skip`, `Refuse`) or a branch, and a cycle
then makes one step per call into the driver, so that two callers interleave between
the reads of a batch and the registry may change between the lookup of a driver and its
last read. Nothing in the repository polls from two threads yet; that the scheduler
allows it is read off its `const` interface, the `shared_ptr` copies of the registry
and the simulator's atomic counter, and the unlocked registry operations themselves are
taken to exclude one another. A driver other than the simulator is external: it may
fail anything and answer a batch with too few or too many items.

**`ConfigurationReads`** models the read service that the HTTP lists and the object tree
are served from: validation of the snapshot when it is constructed (tree rules, cycles,
`validate_device`, `validate_tag`, references), selection, order and pages of the three
lists with their read models, and the tree as the set of its nodes' paths. The only snapshot in the code is a literal that is edited as
development goes on, which is what its validation is for, so the model starts from any
snapshot and serves those that pass. The literal itself is translated too, and
`DevelopmentSnapshotServes` checks that its own validation accepts it. The client, who is external, walks a list page by
page from any offset.

**`QueryStrings`** holds the query strings of the read endpoints as pure operators:
`parse_http_query` with the parameters, defaults and errors of each endpoint, and the
frontend's `ConfigurationApiQueryBuilder`. A text is a sequence of characters, a
character being one of those the parser treats specially, a digit, or a chunk of others
that nothing takes apart.

**`RequestHandling`** composes `QueryStrings` with `ConfigurationReads` (`Reads`) and
models what happens to one request from Drogon to the response: preflight advice,
conversion, dispatch, handler, JSON document as a record of its fields, CORS headers, and
the error handler for what Drogon refuses by itself. Where the code resolves a correlation
id, an id that has to be made is marked with the place that made it, so that two made ids
differ. Whether a handler throws, whether Drogon refuses, and with which status, is open.
Drogon is external: it matches paths without regard to case and closes each connection
when the answer is sent.

**`ServerLifecycle`** models the process: `main()` from the first module to its return,
one action per step that may fail, and the worker thread of `DrogonHttpServer`. What
main() registers are literals; the model takes any of `Builds`, so that the checks in the
code decide and not the literals. The Drogon loop is external: it starts some time after
its thread, aborts the process when the port is taken, ends on a termination signal or
`quit()`, and returns when no handler runs. Whether a `quit()` before the loop runs has an
effect cannot be seen in this repository, so both are possible; `quit_lost` remembers the
second. The server runs Drogon with one thread, its default, so one handler runs at a time.

Eight modules hold the proofs, each extending the modules it is about:
**`HistorianProofs`** (of `HistorianBuffer` and `ArchiveHistory`), **`RuntimeValuesProofs`**
(which extends `AlarmRules`, and with it `RuntimeValues`), **`AlarmLifecycleProofs`**,
**`PollingCycleProofs`**, **`ConfigurationReadsProofs`**, **`RequestHandlingProofs`** (with
`QueryStrings`), **`ServerLifecycleProofs`** and **`PageLoadProofs`**. The definitions of
`ArchiveHistory` begin with `Archive` where the buffer has one of the same name. The `MC*`
modules and `.cfg` files are the instances TLC runs.

Operators whose name carries a suffix (`Room_DropNewest`, `CanClick_Always`, ...)
are not part of a specification: each is the definition before it with a plausible
bug, and replacing the definition by it makes TLC report the property it is listed
with. They show that the properties depend on the code.

## 3. What the runs check

| Run | Shows | Bounds, and why they are enough |
|---|---|---|
| `historian_buffer` | types, exact accounting, no hole, refinement of `HistoryStream` | capacities 0 (normalised to 1), 2, 3; thresholds 0, 2, 5; six pushes and batches of three: a batch can overrun every capacity in its middle, and drains and clears of every size fit in between |
| `alarm_lifecycle` | fields come from the latest transition, occurrences are episodes | four transitions reach every state (clear, reactivate, clear, close) and every pair of transitions that set the same field; two time points and one actor tell stamps and names apart |
| `runtime_values` | the last good value is that of the latest good read with a value, which is the unconverted payload when it could not be converted; events continue each other or tell an insertion, over removals; no silent change; alarm rules and runtime agree on what a good value is | three reads of one tag: a good one, one that must not disturb it, and one after that; three events, so that an event precedes a removal and another follows the insertion after it; every payload kind, a scaled integer, a text and a foreign configuration; tags do not interact; rules of all types, states and comparisons around the values that occur |
| `archive_history` | deadband drift bounded while the archived value is no NaN, a deadband history closed to numbers once it is one, OnChange exact, no hole in periodic history | three values: reference, skipped, next; times 0 (missing), 1, 3 make clocks stand still, advance and go back; every policy with and without a minimum interval |
| `page_load` | latest load wins, panel explains the data, loads settle | three loads of every page, with up to two parallel requests each |
| `page_close` | closing a page ends its requests although bodies stall | two loads |
| `polling_cycle` | results follow the enabled tasks, the status tells what was read, no read shares a counter value, an execution stays with the driver it looked up | two pollers with one execution each suffice to interleave two batches and to replace the driver of either; five groups: batch, too large for either limit, sequence, external, and one without usable tasks |
| `configuration_reads` | pages join without gap or repetition and end when nothing is left, limits and offsets are clamped, list and tree hold the same objects, a tag is where its device is | every assignment of parents to three objects (absent, empty, right, dangling, cyclic, parent stored after child), equal and different codes, free and ruled types; devices and tags of the development snapshot with right and wrong references, states, protocols and addresses; limits 0, 1, 2 and above the maximum, so that pages end before, at and after the last item |
| `request_handling` | one correlation id per answer, browser-readable errors, the page that was asked for, order of parameters | ids made of `&`, `+`, `%` and `=`; every endpoint with some 130 asks of the frontend, and raw queries of one to three parameters among 23, well-formed and not; every method, four paths, three origins and every valid kind of CORS options. `MaxLimit`, `DefaultLimit` and `UInt32Max` are 12, 10 and 99 where the code has 10000, 1000 and 2^32 - 1, so that two digits reach below, between and above them |
| `server_lifecycle` | nothing half built serves, no handler without its server, a stop ends the process unless `quit()` came too early | the sixteen modules of the source, and a build for each literal that may be wrong (a code or path twice, empty names, an invalid snapshot, no service, invalid options); the state space is complete |
| `runtime_text_transform` | finds that numeral texts are scaled, contrary to `scada_runtime/SERVICE.md` line 148 | as `runtime_values` |
| `runtime_nan_counter` | finds that a repeated NaN is counted as a change, contrary to line 373 | as `runtime_values` |

`page_load`, `page_close`, `configuration_reads` and `server_lifecycle` do not check for
deadlock: a closed page, or one that has used up its loads, has nothing left to do, a
service whose snapshot was refused never serves, and a process ends. The other systems always accept one more
call.

**Fairness.** The backend libraries are passive, so their specifications state none
and only safety is checked. `PageLoad` has two strengths. `RuntimeFairness` is what
the browser guarantees: queued continuations run (`Resume`), the timer ends a wait for
headers (`Timeout`), and a cancelled request observes its cancellation.
`BodyFairness` is an assumption about the backend, that a response whose headers have
arrived does not stall for ever in its body. It is needed for `LoadSettles`
(without it the page can hang in `Loading` with its controls disabled, because the
client timeout does not cover the body), and it is **not** assumed for
`ClosedPageEnds`. No user action is ever fair. `ServerLifecycle` has weak fairness of the
main thread and of the worker, which the operating system's scheduler gives to both; a
handler is taken to return, since none of the handlers waits for anything. Enter, signals
and requests are not fair. `StopEnds` needs the disjunct `quit_lost`: with it left out TLC
shows the join that waits for ever after Enter came before the loop.

**Two lists of qualities.** `AlarmsAgreeOnGood` compares the list of good qualities in
`alarm_rule.cpp` with that of `runtime_quality.cpp`. They agree. *Bad* differs on purpose or
not: the runtime calls every quality bad that is not good, the alarms have a list of nine, so
that an uncertain value raises a QualityNotGood alarm and no QualityBad one; no document says
which is meant.

**The latest load wins because of the disabled controls.** Cancellation alone does
not protect the page: a request may have ended before it is cancelled, and its
continuation then writes. `LatestLoadWins` holds since `Disabled="@_isLoading"` keeps
a second load from starting while one runs; `CanClick_Always` shows the property fail
without it.

## 4. What is proved

All proofs hold for every value of the constants, under the assumptions named in the
modules (options are natural numbers; `NoTime` is no time, `NoActor` no actor).

*HistorianBuffer.* The inductive invariant `IInv` joins the type invariant with
`CapacityRespected`, `Accounting` and `QueueIsSuffix`. Capacity alone is not inductive:
dropping the oldest sample needs a non-empty deque, which needs the normalised options
of `OptionsNormal`. Accounting needs the suffix property to relate deque and log.
`LosslessWithoutDrop` is carried by a stronger form. `FullFlushes` proves what
`normalize_options` is for: a full buffer always recommends a flush. The refinement theorem maps every
step: an accepted push to `Accept`, drains to `Deliver`, `Clear` to `Discard`, and
rejections and the loading of a batch to stutters. The lemmas at the head of the module
state the facts about `SubSeq`, `Append` and `\o` the proof rests on.

*ArchiveHistory.* What a decision skips is judged against the sample archived last, so the
invariant needs `PreviousIsLatest`: the sample the caller passes is the end of the log of
archived values. With it each of the three policies is one lemma about one decision.
`SkippedWithinDeadband` and `ChangesExactlyArchived` are about policies without a minimum
interval, which would skip values the policy itself archives. `SkippedWithinDeadband` is
also only about an archived value that is not a NaN, and that is a hole in what the code
promises: `fabs(..) >= deadband` is false whenever a NaN is on either side, so once a NaN
is archived (as the first sample, or after a text) every number after it is skipped, however
far off, until a text comes. `NaNHoldsDeadband` states this the other way round, as what a
history then looks like, and `NaNTheorem` proves it with and without a minimum interval. The
repository does not say what should happen to a NaN, so it is no finding; a deployment whose
devices return NaN needs a guard before `decide_archive`.

*RuntimeValues and AlarmRules.* To the properties the invariant adds that a tag outside
the store has no reads, since an insertion begins them (`AbsentWithoutReads`); that no read
was stored with a greater number than the stored one (`ReadsCountedSoFar`); that each stored
value keeps the payload the driver returned when that could not be converted, and is empty
only when that was (`ReturnedAndStored`); and that a value which is good is its own last
good value (`GoodIsLastGood`). The last good value is proved in terms of the stored values
(`LastGoodOfReads`) and then told in terms of what the driver returned
(`LastGoodReturned`). The lemmas follow `apply_protocol_read_result` part by part; the
conversion of a NaN may give any of `IntResults`, and the proof does not depend on which.
`AlarmsAgreeOnGood` is `GoodIsLastGood` read by the rules, for every set of rules.

*AlarmLifecycle.* The inductive invariant joins types, the chain of the history, the
origin of each field, the position of the close and the absence of acknowledgements,
with the facts that connect them (a record in state Cleared was last changed by a
Clear). Each transition type is one case of the step. `OccurrencesAreEpisodes` counts the
clears of a history and is an invariant by itself, given the types; its step is a
cardinality argument (one more position, which is a clear or is not).

*PollingCycle.* For any number of pollers, simulators and external drivers, and groups of
any length. The invariant says of every cycle separately, `CycleOK`, that what it asked, what
was answered and what it reported belong together, so that a step of one cycle has only to
leave the others alone; `ReadsFresh` is the part that two cycles share. `OwnConnection` is
the strengthening the first attempt showed to be missing: a simulator asked over a connection
of another protocol answers a batch with nothing, so `ResultsFollowTasks` holds only because
the scheduler compares protocols before it reads and the registry keeps a driver under its
own one. The proof shows that branch of `read_batch` to be unreachable from the scheduler.
`OneDriverPerCycle` is about a step: `Fits`, the part of `CycleOK` about the driver, holds
before it, and each step of the cycle itself or of another one leaves the driver alone.
`EnabledTasks` is a loop over the tasks; that it ends with a sequence of enabled tasks is
proved by induction, with `SetInduction` as the principle of induction stated of a set.

*ConfigurationReads.* For any snapshots and queries of the right types, lists of any length,
any offset and limit. The invariant has two parts. A service that serves has a valid snapshot
(`ServiceInv`). What a walk has collected is the stretch of the whole sorted list from where
it started to where its next page will, and it is over exactly when the list is (`WalkInv`),
which makes `PagesTile` inductive; `pages` never outgrows what was collected. The rest is about
the operators:

- a list has what is wanted of its items, nothing else and nothing less (`ChosenFacts`); what a
  filter matches stays selected through all rounds over the children, and after the last round
  every descendant is (`RoundsGrow`, `WithChildrenKeeps`, `ObjectsAsked`): a chain of parents
  without a cycle is no longer than the list, and each round climbs one link of it
  (`ChainInside`, `ChainIsShort`, `ExpansionFacts`);
- the order by code and id has no ties, since ids are unique, so an item's rank is the number
  of items before it and the sorted list is the only one with that order (`OrderFacts`,
  `RankGrows`, `SortedFacts`). `Sorted` says what a sorted list is, not how it comes about,
  because `std::sort` says no more either;
- an object that validation lets pass has one way down from a root, and the paths of the
  tree are these ways (`WayIsUnique`, `LevelsReachAll`, `PathsAreWays`), from which
  `TreeTheorem` counts the nodes, below a chosen root too (`TreeFacts`, `BelowFacts`);
- ids are unique, so a reference leads to one device (`FindFacts`), from which `ListsTheorem`
  follows.

The loops are recursive functions; `LoopHasStates` proves once that such a loop has a state
after each of its steps. The prover has no induction over data for an operator; `SetInduction`
is the principle of induction stated of a set, and each recursive function gets a lemma by it.

*RequestHandling.* For any requests, asks, options, configuration and statuses. `Fits` says of
a response that its error part tells its status and carries the id of the request; each
builder of a response fits, the dispatcher keeps fitting, and what the bridge resolved first
every later place keeps (`EnsureKeeps`, `ResolveKeeps`). `CorsReadable` is said
of origins other than `*`: the proof attempt showed that the code treats a header
`Origin: *` as any other origin and answers an allowed one with that text, which then means
any origin; no page has that origin. The invariant adds where the request in hand comes from
(`RequestInv`, which is what `TypeCorrect` needs) and what the frontend was answered by a
handler that did not throw (`HandlerInv`).

`OrderTheorem` speaks of queries of any length in texts of any characters. Splitting is a loop
over the text: appending a character either lengthens the last part or begins a new one
(`SplitAppend`), so parts joined by `&` split into the same parts if none contains `&`
(`JoinedSplits`, `PartsOfJoined`). A query is taken when no part is in error and no name
comes twice; then each name has one value, wherever its part stands (`NameIsFirst`,
`ValueFacts`, `ParseAgrees`). A reordering of the parts is a permutation of distinct ones
(`OntoIsOneToOne`), so it is taken as well and says the same (`ReorderedIsTaken`).

`ServedTheorem` follows a request around. What the frontend's builder escapes holds no
separator and decodes to the text it was made of (`EscapedFacts`, `PairFacts`); so the pairs
of the built query are parted again and read back as they were asked (`BuiltPairs`,
`BuiltReads`), and the parser either refuses a parameter whose number cannot be served,
negative or above the range, or gives what was meant (`BuiltParses`). `HandlerInv`
says that the document of the answer is then that of the read service. `Service` is the
instance of `ConfigurationReadsProofs` for the configuration of the server, equal to the
`Reads` of the model in each operator (`SameSelect` ... `SameCounts`), so the facts about pages
give the page by rank (`ServicePage`, `ServedPage`); and as the texts of ids differ where ids
do, different items have different documents and the number of them is right
(`DocumentsDiffer`).

*PageLoad.* That the latest load wins rests on the button and the switch being disabled
while a load runs: an open page has at most one load, the latest, for the position the switch
has now, and it is not cancelled (`OnlyLatestRuns`); a request ends as cancelled only when
its load was (`CancelledWhenAsked`), so that every end is shown; and while a load runs the
page is blank (`BlankWhileLoading`). `LatestLoadWins` and `PanelExplainsData` are not
inductive without these.

*ServerLifecycle.* For every set of builds. The invariant follows the main thread:
`ThreadsFollow` ties the server and the worker to where it is (a handler runs only in a
looping worker, which exists only between start and join, so the `Impl` is alive then),
`ExitsFollow` the way it ends, `ModulesFollow` says that the registered modules are a
beginning of the build's without repetition and all of them once registration is over,
`StartFollows` and `RoutesFollow` what has been checked by then. `ServesWhole` is not
inductive: it speaks of busy handlers only, while what it says was decided many steps
before the first handler could run. `AddRouteFacts` is the lemma about `add_route`, and
`RegisterKeeps` treats the three register functions as one.

The assumptions are those of the modules' `ASSUME`s, and TLC evaluates each of them on a
run. Most say which set a parameter is taken from. Those that say more:

- `CorrelationAssumption`: an empty id is not a valid one, which is what
  `is_valid_correlation_id` checks first;
- `AskAssumption`: the frontend asks with the parameters its builder has, truth values as
  `true` or `false`, and numbers as the decimal text of an `int` (with a sign, or digits
  within 32 bits): the builder's `Pair` has no other overloads. A character of a text is never
  one of the tokens that stand for an escape, since these are three characters in the code and
  one in the model;
- `ConfigAssumption`: the configuration that answers has passed the validation of the service's
  constructor, without which `main()` does not reach the server (`ServesWhole`);
- `IdTextAssumption`: ids are texts, written here as numbers with a text each, and two ids
  with one text are one id;
- `LimitAssumption` of `QueryStrings`: the default limit is a positive number, 1000 in the code;
- `QueryAssumption` of `ConfigurationReads`: there is a query to begin with.

Some definitions are proved and not run, since a run would say no more: `CapacityRespected`,
`LosslessWithoutDrop`, `FullImpliesFlush`, `HistoryIsChain`, `AcknowledgedOnlyIfRequired`,
`CloseEndsHistory`, `ChangesAreRecorded` and `ExitsClean`.

Every safety property of the passing runs is proved. Only model-checked is liveness (`LoadSettles`,
`ClosedPageEnds`, `StopEnds`), which is beyond the prover, as are ENABLED and fairness.

## 5. What is not modelled, and the plan

The plan, in this order:

1. **HistorianPipeline**: `ArchiveHistory` and `HistorianBuffer` composed, once the
   repository has a batch writer. `IHistoryBatchWriter` is only an interface now, and what a
   caller does when it fails cannot be read off any code.
2. Alarm records made from matches, once something calls the rules: a second match of an
   active rule makes a second record, and whose duty it is to look for the first is open.

Left out because no code calls it: gateway composition, device diagnostics, object paths as
text, responsibility zones, history queries, realtime subscriptions, a second `start()` of
the HTTP server. There is no state to model beyond the fields of the records.

Left out for good: data transfer objects, the layout of JSON and other formatting, static pages
over demonstration data, SQL migrations (no code opens a database), and the
contents of texts everywhere. `HttpClient` and the callers of passive libraries are
modelled only as far as the code here uses them.
