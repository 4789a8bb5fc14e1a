# A TLA+ verification of psc-mock-server

psc-mock-server is a gNMI target written in C++: a gRPC service over two data
providers, power sensors that a background thread simulates and a writable
system configuration, with Get, Set and Subscribe.  This directory holds TLA+
models of its core, the TLC runs that check them, and theorems about them that
TLAPS proves.  Paths below are relative to the repository root.

## 1. The system

| Component | State | Operations | Concurrency and failure |
|---|---|---|---|
| Leaf store, `src/backend/leaf_store.{hpp,cpp}` | `leaves_` (a map from path to value, collection time, type), `mu_` (a shared mutex) | `commit` of a batch; `get`, `collect`, `snapshot`; the pure `diff` | every RPC thread and the simulator call it at once |
| Store-backed provider, `src/backend/store_backed_provider.hpp` | `store_`, `schema_` (path to type, fixed after construction) | `initLeaves`, `commitStamped`, `schemaType`, `writable`, `fill`, `snapshot` | construction precedes all other use |
| Power sensor provider, `src/backend/psc_power_sensor_provider.*` | a jthread, its walk table | `runSimulator`: walk, commit, interruptible wait; destructor stops and joins | lifetime of thread against store |
| System configuration provider, `src/backend/system_config_provider.*` | none of its own | `declareLeaves`, `applyBatch`, `atomicPrefix`, `preferredMode` | |
| Registry, `src/backend/data_provider.hpp` | the routes, fixed after start | `fill`, `snapshot`, `preferredMode`, `atomicPrefix`, `writable`, `commit` | visits providers in turn, one lock each |
| Set, `src/gnmi/set.cpp` | per call: timestamp, batch | `run`: validate all entries, then commit once | other writers between validation and commit; an entry that fails after others passed |
| Emitters, `src/gnmi/subscribe_emit.*` | none | `buildFullNotifications`, `buildChangeNotifications`, `heartbeatDue`, `resolveStreamMode` | |
| Subscribe, `src/gnmi/subscribe.cpp` | per stream: the two buckets, last snapshots, timers | `run`, `handleOnce`, `handlePoll`, `handleStream`, `buildSubscribeNotifications` | commits between any two snapshots; timers; cancellation; overlapping subscriptions |
| Get, `src/gnmi/get.cpp` | none | `verifyGetRequest`, `buildGetNotifications`, filter by type | |
| Path utilities, `src/utils/utils.h` | none | conversions between xpath and gnmi::Path, prefixes, quotes, validation | |
| Server process, `src/main.cpp`, with `src/security/authentication.*` and `Log::setLevel` | the options read, the credentials, the providers as locals of `RunServer` | options, `AuthBuilder::build`, construction, `BuildAndStart`, destruction | exits while a thread may run; options in any order; a start that fails |
| gNMI service object, capabilities | none | constructs a handler per call; a constant answer | |

Interaction: an RPC arrives in a gRPC thread, which builds a handler object over
the one registry; the handler asks the registry, which asks the providers whose
prefix matches, which ask their stores.  The store has no notification, so a
STREAM subscription polls it every 200 ms and sends what differs.  Sets and the
simulator are the writers.  `main` reads the options, builds the credentials,
constructs the providers, the first of which starts the simulator's thread, and
only then listens.

What makes each component correct:

* store: a batch is seen whole or not at all, in the order of its operations;
* Set: all or nothing, with the status of the first bad entry, deletes before
  replacements before updates, and leaves keep the type of the schema;
* emitters: what is sent turns the client's copy into the snapshot polled, with
  whole atomic records and honest timestamps;
* STREAM: the client's copy follows the store, timers repair and keep their
  interval, cancellation ends the call;
* ONCE and POLL: each message has one current answer that ends in one
  sync_response, a bad request is refused before that, and the RPC ends with its
  messages;
* Get: each path is answered with what its elements ask for, as it was at one
  moment, and the status is that of the first path at fault;
* path utilities: tests on text agree with the elements the text stands for;
* simulator: one tick at a time is visible, values stay in their bands, and the
  thread never outlives the store;
* process: no client meets an empty store, the credentials are those asked for
  in whatever order, and no exit pulls the store from under the thread.

The hazards behind these are listed line by line in `PROJECT.json`.

## 2. The modules

| Module | Models | Correspondence |
|---|---|---|
| `StoreData` | leaves, operations, batches | `Effect` is a whole batch, `Selected` a whole read |
| `AtomicStore` | what a store promises | `Commit`, `Read` in one step |
| `LeafStore` | `leaf_store.cpp` | `CommitLock`, `ApplyOp`, `CommitUnlock`: `commit`'s lock, loop body and end; `ReadLock`, `CopyLeaf`, `ReadUnlock`: the same for the three reads, which differ only in which leaves they select |
| `Emit` | `subscribe_emit.cpp`, `LeafStore::diff` | one operator per function; a snapshot is a function that yields `NoLeaf` where the map has no entry; `Receive` is the client |
| `PollDiff` | one ON_CHANGE subscriber over an arbitrary store | `Poll` is one pass |
| `Subscribe` | `subscribe.cpp` | one RPC from its first message to its end, in every mode: `pc` is the place in `run`, `handleStream`, `handleOnce` and `handlePoll`; each snapshot, each check and each write group is a step, and `Commit`, `Cancel`, `Send` and `Close` may come between any two |
| `Paths` | `utils.h`, `selects`, `matches`, `atomicPrefix` | one operator per function, on texts as sequences of tokens; `Under` and `Below` are the same on elements, the reference the checks compare with |
| `GetRpc` | `get.cpp` and the registry it reads | `Verify`, `Answer` (a path), `Finish`; routing, selection, grouping and the paths of the answer are computed from the text |
| `SetData` | requests, routing, schema | `WriteError` is `validateWrite`/`checkWritable`; `OpOf` is the loop of phase 2 with `commitStamped` |
| `AtomicSet` | what Set promises | `ARefuse`, `AApply` in one step |
| `SetRpc` | `Set::run`, the registry's `commit`, ticks | one step per entry validated and per provider visited |
| `Simulator` | the sensor provider's life | owner (constructor, destructor) and thread (`runSimulator`) side by side |
| `ServerProcess` | `main.cpp`, `AuthBuilder`, `Log::setLevel` | main thread (options, credentials, providers, start, destruction) beside the thread of `Simulator` |
| `*Proofs` | theorems | |
| `MC*` | instances for TLC | |

They compose upwards.  `LeafStore` justifies that `Subscribe`, `GetRpc`, `SetRpc`
and `Simulator` treat a commit or a snapshot of one store as a single step
(`ImplementsAtomicStore` is proved for any number of threads); `Simulator`
justifies the tick of `SetRpc`; `ServerProcess` runs `Simulator`'s actions as
part of the process, and its theorem `ServerRefinesSimulator` carries the
provider's theorems over; `PollDiff`, `Subscribe` and `GetRpc` all emit with
`Emit`; `GetRpc` reads with `Paths`.

The abstract specifications are `AtomicStore` (of `LeafStore`), `AtomicSet` (of
`SetRpc`) and `Simulator` (of `ServerProcess`).

Abstractions.  In `Paths` and `GetRpc` a text is a sequence of tokens: names keep
their letters, because one name may begin another, a predicate `[key=value]` is
one token, and an element has at most one, as every leaf of this server.  In the
other modules a path is a model value, and which leaves a query selects, which
provider owns a path and which atomic container it lies in are functions of it.
`Canon` maps the spellings of a path (quoted keys or not) to the key it is
stored under.  Values are model values, in `GetRpc` the number of the commit
that wrote them, so that an answer shows the moment it was read.  Time in
`Subscribe` is counted in passes of the loop, and `HalfRange` stands for 2^63.
The simulator's values are integers on a grid fine enough for the table's
numbers (0.02 V, 0.25 degrees), so the rounding of doubles is left out.  The
tests of `verifyGetRequest` are one Boolean of the request, the files that
`AuthBuilder` reads are there or not.

## 3. The runs

| Run | Question | Bounds, and why they suffice |
|---|---|---|
| `leaf_store` | Are reads and commits atomic, and do critical sections end? | two writers, two readers, two leaves, three spellings; batches with a two-leaf record, a delete followed by a set of the same leaf, a lone delete and nothing. Two of each kind is the least at which writers exclude writers and readers overlap. |
| `poll_diff` | Does a poll bring the client's copy up to date? | all pairs of snapshots of a flat leaf and a container of two, two values, three times: every case of leaf and container appearing, changing, shrinking and vanishing |
| `subscribe_modes` | Does a STREAM follow the store, are Polls answered, do timers repair and keep their pace, are requests refused in time, do cancelled calls end? | four requests served by diff alone (the same container twice; container and sensor; part and whole of one container; updates_only), four with samples and heartbeats, six that are refused or skip the refusal, seven for ONCE, POLL and no mode; two commits at any point out of eight batches, so that values go there and back; two messages after the first, the end of the messages and a cancellation at any point; passes of one or two units and ages up to three, so that an interval is met and overshot |
| `set_rpc` | Is Set a transaction, with the status it deserves? | two handlers, eight requests (record writes, delete and re-create, each way to be bad in second place, nothing, an extension), ticks at any point, two providers, clock 0..1 |
| `get_rpc` | Does Get answer what was asked, with the status it deserves? | two sensors of two components, a leaf of the system and a record of two leaves, under the real prefixes with shortened names; every declared path cut off anywhere, with all keys or none, or with one key or name altered, in every type, with 0 to 2 elements moved into the prefix, and pairs of paths; two commits at any point |
| `server` | Does the process serve sound data or end? | two rows of the table (a band that is no multiple of the step, the static one), all command lines of up to three options out of ten without both key and certificate, seven longer ones with them, and clock 0..2 |

Every bound is a constant of its module (`MaxCommits`, `MaxMessages`, `MaxSlip`,
`MaxAge`, `MaxTime`, `MaxClock`) and appears in the guard it bounds.

The other six runs each check one sentence of the repository's documents or
comments that the code does not keep; TLC finds the violation.  They are listed
with their quotations under `findings` in `PROJECT.json`:

* `stream_set_lost`: a Set between the initial emit and the baseline snapshot is
  never notified (`subscribe.cpp:145` and `:187` take two snapshots);
* `stream_removal_lost`: a heartbeat takes the place of the diff of its pass, so
  a removal in that pass is never sent;
* `stream_torn`: snapshots of two entries of one request are merged into one
  atomic record across a commit, or half a container is sent as a whole one;
* `poll_updates_only`: ONCE and POLL send the whole state in spite of
  `updates_only`;
* `get_prefix`: the answer to a Get with a prefix has that prefix and full paths;
* `get_record_part`: the answer to a Get of one leaf of an atomic record is that
  leaf alone, marked atomic, which tells its reader that the others are gone.

The properties of the passing runs are stated around these: the history variable
`unsent` collects exactly the leaves the first two leave in the dark,
`RecordsNotTorn` and `Whole` exclude requests of the third kind, the answers
of Get are compared with the prefix left out where the paths are full, and
`RecordsAreWhole` is about paths at or above a record (`AskedWhole`).  So what
passes says that nothing else is lost.

### Disagreements that no run shows

Where the code and a text of the repository disagree and no run shows it, the
properties leave the point open or the model has no counterpart of it:

* Subscribe ignores the prefix of the request when it routes and selects
  (`subscribe.cpp:97`); it only copies it into what it sends that is not a diff
  (`:111-113`).
  `src/proto/gnmi.proto:265` says of it "Prefix used for paths", and `:300-301`
  that a subscription's path is "interpreted (along with the prefix)".  Get does
  put the prefix in front.  In `Subscribe` a subscription comes with the leaves
  it selects, so the prefix has no counterpart.
* Set never reads `union_replace`, which `src/proto/gnmi.proto:347-351` defines,
  and answers OK to a request that has one.
* `-f` beside a key and a certificate: `main.cpp:73` says "No TLS connection, no
  password authentication"; `build()` looks at `-f` last
  (`authentication.cpp:60-73`) and serves TLS.  `CredentialsAsGiven` leaves open
  which of them wins.
* Set of a path that is not declared but lies below an owned prefix: the comment
  at `set.cpp:28-29` says that "a path not in the supported schema is NOT_FOUND",
  the code answers INVALID_ARGUMENT, "path is read-only".  `StatusIsDeserved` of
  `SetRpc` lets both pass (`Refusals`).
* A heartbeat interval of 2^63 or more, a legal `uint64`
  (`src/proto/gnmi.proto`, `Subscription.heartbeat_interval`), turns negative at
  `subscribe_emit.cpp:167` and is due at every pass; `subscribe.cpp:133` refuses
  such a `sample_interval` alone.  `HeartbeatsOncePerInterval` excepts them, and
  no run requests one.
* Get above the registered prefixes (`/components`, or the root, which
  `utils.h:136` calls valid) is UNIMPLEMENTED, not NOT_FOUND as `DESIGN.md:606`
  says; the property follows the tables of `DESIGN.md` and the code.

Two more limits that the properties except and say so: a stream of `updates_only`
with ON_CHANGE entries never looks at its paths and stays open on one that nobody
owns (`BadIsRefused`, `RefusedBeforeSync`); the clamp of the random walk leaves
the grid of steps, so `NoJumps` speaks of distances and not of the grid.

Deadlock is checked in every run.  Where the program really stops (an RPC that has
ended, a process that has exited) the model stutters in an explicit action
(`Cancelled`, `Ended`, `Over`); a store or a server has no end.

### Fairness

* `LeafStore`: weak fairness of a thread inside its critical section, which the
  scheduler gives.  None for taking the lock, as `std::shared_mutex` promises no
  order; so nothing is claimed about starvation.
* `Subscribe`: weak fairness of the handler's thread.  None for commits or for
  the client, who need not write, close or cancel.  `Converges` and
  `TimersRepair` are about runs in which the writers stop, which the bound on
  commits makes all of them.
* `ServerProcess`: weak fairness of the main thread and of the simulator's.
* `SetRpc`, `GetRpc` and `PollDiff`: safety only.

## 4. The theorems

All proofs are checked by TLAPS for every value of the constants, from the named
assumptions of the modules alone.

* `LeafStoreProofs`: `TypeCorrect`, `ReadsAreCoherent`, `StoreRefinement`.  The
  invariant says who holds the mutex (one writer, or readers only), that without
  a writer the map is what the last commit left, and that inside a commit the
  map is the effect of the operations done so far; a reader's partial copy is
  then a part of the committed content, which no one can change under it.  The
  step from the effect of n operations to n + 1 is the lemma on `LastWrite`.
* `EmitProofs`: lemmas on the emitters, of any snapshots.  `ReceiveChange` and
  `ReceiveFull` say leaf by leaf what a client has after a diff and after a full
  emit: the Notifications of one call do not disturb each other because their
  groups are disjoint.  `StampFacts` says what a stamp is.
* `PollDiffProofs`: `PollsMirror`, by induction over polls: if the copy is the
  last snapshot, receiving the Notifications of a diff yields the new one.
  `StampsHold`, `RecordsSentWhole` and `TypeCorrect` follow from `Built`: what
  was last sent was built from the last two snapshots.  They assume that the
  times of the clock are times of leaves and that none is 0, the code's mark of
  "no leaf" (`MaxTimeAssumption`, `EpochAssumption`).
* `SubscribeProofs`: every invariant and the step property that the runs check of
  `Subscribe`.  `IInv` is what all share: `Phases` and `Buckets` (what the
  handler has at each place), `Answered` (how many messages were read and how
  many sync_responses sent), `Accepted` (what is known of the request by then),
  `Types` and `Remembers`.  From it `TypeCorrect`, `OneSyncEach` and
  `NoLateRefusal` are immediate.  `HeartbeatsInTime` adds `Beats`: the time since
  a heartbeat that the handler keeps (`age`) is the time its client has seen
  (`quiet`, advanced and reset by what is sent and not by the handler's timer),
  and the entries that a pass has visited are not overdue.  `DiffsMirror` adds
  that a poll tells of a leaf, or knows that nothing changed, or records the
  removal it swallowed (`PollTells`, `UntoldIsKnown`), that subscriptions which
  do not select a leaf never tell of it (`OthersUntold`), and neither do samples
  (`SamplesApart`).  `RecordsWhole` adds `Records`: the history has every record
  the store had, and what is being merged comes from subscriptions already
  visited, so that of a record only one of them selects nothing is merged from
  two moments.  `AnswersCurrent` adds `Currency`: while nothing is committed,
  what is merged so far is what the store has.
* `SetRpcProofs`: `TypeCorrect`, `TypesKept`, `SensorsKept`, `StatusesAreRight`,
  `SetRefinement`.
  `TypesFollowSchema` is not inductive: that a commit only touches configuration
  leaves follows from what the handler established entry by entry, which
  `Progress` records (all entries checked so far are good, none is left at the
  commit).  With it `StatusesAreRight` compares the code returned with what the
  entries of the request are (`Good`, `Refusals`), and not with `WriteError`.  For the refinement, the step at which the slice of the one writable
  provider is applied is the abstract `AApply`, all others stutter or refuse;
  `AppliedIsFinal` shows that applying the concatenated batch in order is what
  `AtomicSet` describes list by list.  It rests on `ApplierAssumption`: exactly
  one provider takes writes, as `main.cpp` registers them.
* `ServerProofs`: of `Simulator`, `SensorsTyped`, `ReadersSeeOneTick`,
  `StoreOutlivesThread` and `SensorsNeverJump`, the last of which needs `Lag`:
  between a draw and its commit the store is behind the walk by at most a step,
  otherwise they agree.  Of the process, `ServerRefinesSimulator` (every step of
  the process is a step of the provider or leaves it alone), with it the theorems
  about the provider; `Stages` (what each stage of `main` leaves behind) gives
  `NoClientMeetsAColdStore` and `NoThreadOutlivesMain`; `Options` and `Chosen`
  (what is kept is the last argument among those read) give `CredentialsFollow`
  for command lines of any length (`LineAssumption` gives their type), with `-f`
  beside a key and a certificate left open.
* `PathsProofs`: what the server does on texts is what the operators on elements
  say, for paths and texts of any length.  `RoundTrip`: `xpath_to_gnmi_path`
  undoes `gnmi_to_xpath`.  `SelectionIsByElements` and `RoutingIsByElements`: the
  comparisons of texts in `selects` and `matches` find what lies at or below
  element by element, so that no name is taken for one it begins and no key for
  another.  `SiblingsShareRecord`: the search for a marker in `atomicPrefix` puts
  leaves of one parent in one record.  These are statements about sequences of
  all lengths, and the prover knows no induction over them.  Each is proved by
  way of the set of lengths for which it holds, which has 0 and every successor
  (`AllNat`, itself from the least element of a set of numbers); the recursion
  inside `FlattenSeq` of the community modules is brought to two equations first
  (`FlattenOne`, `FlattenAppend`).
* `GetProofs`: every invariant that the run checks of `GetRpc`.  `TypeCorrect`: a
  path that is not at fault has a leaf, and then no Notification is empty, not
  even the one that `BuildFull` sends for want of others (`NothingEmpty`).
  `AnswersInTurn` is the invariant behind the other three: every answer was read
  from one content of the stores, in the order of the paths, in which its path
  had no fault, and a call that failed did so for a fault that its next path had
  in a content no earlier.  What is left is then about one content.
  `ReadIsSelected`: for a path that is routed, the leaves read from the owners'
  stores are those `Below` the query; an owner that the query does not lead to
  can hold none of them, since no registered prefix lies below another (`Held`).
  `NoteTells`: the relative paths of an atomic Notification, with its prefix, and
  the full paths of the other are the paths of the leaves.  `FaultIs`: the
  checks of the code in their order are those of the table.  `RecordOfSiblings`:
  leaves beside each other are in one record, which with `RecordAssumption`
  have one type, so the filter takes all or none.  Hence `AnswersAreRight`,
  `StatusIsRight` and, for paths at or above a record, `RecordsAreRight`, whatever is declared, asked for and
  committed.

  These three rest on what the code registers and declares, and say so in the
  assumptions of `GetRpc`: prefixes without keys, none at or below another
  (`main.cpp:37-43`; of two nested ones, a query between them would miss the
  leaves of the lower, as the registry looks up owners of the query alone), every
  leaf strictly below its provider's prefix and declared once, no leaf
  by the name of the container that bounds a record, and one type to a record
  (`system_config_provider.cpp:14-61`).  Names are free of the characters `/`
  and `[`, which is part of what a token is.

Only model-checked: liveness (`CriticalSectionsEnd`, `Converges`, `CancelEnds`,
`TimersRepair`, `PollsAreAnswered`, `BadIsRefused`, `ServesOrEnds`), which is out
of the prover's reach.  Every invariant and every step property of a passing run
is stated by a theorem.

## 5. Not modelled

* The gRPC service object constructs a handler per call, and capabilities are a
  constant answer; neither has state.
* `UserPassAuthenticator::Process` compares two strings of one call; of logging
  only the exit of `Log::setLevel` is modelled, not what is logged.
* `fill` and `addLeaf` of the registry's interface have no caller in the server.
* JSON encoding, a Subscribe request's prefix, `union_replace` and the
  UpdateResults of a Set's response; of the second and third section 3 says what
  the code does.
* That `stream->Write` may fail: the handler ignores the result and ends when
  the call is cancelled.
* Elements with several keys, and slashes inside key values, do not occur among
  this server's leaves.

## 6. Plan

1. Done: the store, the emitters, Subscribe in all modes, Set, Get with the path
   utilities, the simulator and the process around it, and theorems on all of
   them, which state every safety property that a run checks.
2. An abstract specification of a STREAM session (which messages are owed, when
   the sync message is due, with which status the session ends) that `Subscribe`
   implements for every list of subscriptions. That `Subscribe` with one
   ON_CHANGE subscription implements `PollDiff` was considered and is not so:
   `PollDiff` takes the first message and the baseline of the comparison from
   one state of the store, a stream from two (the run `stream_set_lost` shows
   what falls between), and a heartbeat of a stream stands in for a comparison.
3. Several streams and Gets over one `SetRpc`, to replace the free `Commit` of
   `Subscribe` and `GetRpc` by the real writers.
