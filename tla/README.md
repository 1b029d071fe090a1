# Verification of otus-go-professional

TLA+ models of this repository, checked with TLC on small instances and proved with TLAPS for
all values of the constants. The repository is a set of course assignments (`hw01` ... `hw11`) and one system
that grew over five of them, the calendar service (`hw12_13_14_15_16_calendar`). The models go where
things happen concurrently or can fail half way: the calendar first, then the parallel runner (hw05), the
pipeline (hw06), the LRU cache (hw04) and the telnet client (hw11), and then the sequential programs (hw02, hw03, hw07 to hw10).

Every definition is taken from the source; `PROJECT.json` gives the file and the lines of each ("map"), the runs, a
mutant of the code for each property, and the list of hazards the properties are for.

## 1. The system

### 1.1 The calendar

| component | state | operations | talks to |
|---|---|---|---|
| API process `cmd/calendar` | the signal context, two servers, a shutdown goroutine | start two servers, stop them at a signal | HTTP and gRPC servers, store |
| HTTP handlers `internal/server/http` | none | create, get, update, delete, list day/week/month | app |
| gRPC handlers `internal/server/grpc` | none | the same, and a health check | app |
| app `internal/app` | none | passes each call on | store |
| in-memory store `internal/storage/memory` | map of events, a RWMutex | the `Storage` interface | - |
| PostgreSQL store `internal/storage/sql` | table `events` with an exclusion constraint on overlapping intervals and a check on dates | the same, and the notification queries | the database |
| scheduler `cmd/calendar_scheduler` | the IDs sent in this poll | poll loop: fetch, publish each, mark all; cleanup loop: delete old events | table, RabbitMQ |
| broker client `internal/broker` | connection, channel | publish, consume, ack, nack | RabbitMQ |
| sender `cmd/calendar_sender` | the message at hand | consume: log, mark delivered, ack | RabbitMQ, table |

What is hard here:

* Scheduler, sender, API and broker run beside one another and any of them may stop between two steps. The
  row's marks (`notify_published_at`, `notify_delivered_at`) are all that is remembered. Correct means: a mark never
  gets ahead of what it says, a reminder is not forgotten, and it is repeated no more than the faults explain.
* The memory store checks for conflicts and stores in two steps, under a lock. Correct means: it cannot
  be told from a store in which each call takes effect at one moment.
* The SQL store reads a row and writes it back in two statements without a transaction. The constraints must hold for
  whatever row results, and the question is where it differs from that atomic store.
* A request may be refused before, during or after it changed the table. Correct means: a client told
  "invalid", "not found" or "busy" can be sure that nothing changed, and sees nothing older than its request.
* At a signal, main and the shutdown goroutine stop the same HTTP server, and only main closes the store and ends the process. Correct means: the
  process does end, and no request that was accepted is cut off or finds the store closed.

### 1.2 The other assignments

| component | state | what is hard |
|---|---|---|
| `hw04` LRU cache | a doubly linked list and a map into it, under a mutex | pointers left behind, the map and the list drifting apart, eviction at the capacity |
| `hw05` `Run(tasks, n, m)` | three channels, a controller, n workers | how many tasks start after errors, whether everybody ends |
| `hw06` `ExecutePipeline` | a chain of unbuffered channels, one forwarding goroutine per link, `done` | values lost or skipped at cancellation, goroutines that stay |
| `hw11` telnet client | a connection, two goroutines, a signal context | input end, connection end and signal racing, a second `Close` |
| `hw02` unpacking | none | a digit as count, as escaped rune, as error; positions behind the end |
| `hw03` word frequencies | none | words that become equal by cleaning, ties, a map without order |
| `hw07` file copying | none | offset and limit at the size, short reads, progress, a call that fails half way |
| `hw08` envdir | none | a map in any order applied in place to one slice; what a first line is; which entries fail, remove or set a variable |
| `hw09` struct validator | none | nested structs and slices, program errors among validation errors |
| `hw10` domain statistics | none | which part of an e-mail counts |
| `hw01` | none | nothing |

`PROJECT.json` lists every component, also those not modelled, with the reason.

## 2. The modules

```
                    Reminders ------------- MCReminders, RemindersProofs
 CalendarApi --> EventStore --> EventTable
 (MC..., ...Proofs) ^   ^
   MemoryStorage -+      +- SqlStorage       MC... and ...Proofs of both
 CalendarMain, ParallelRun                   ...Proofs of each
 MCGoroutines --> CalendarMain, ParallelRun, Pipeline, Telnet
 LruCache --> LinkedList;  LruCache implements Recency    LruCacheProofs
 Pipeline                                    ExercisesProofs
 Telnet, Unpack, TopWords, CopyFile, Envdir, DomainStat   (the same ExercisesProofs)
 MCExercises --> LruCache, Unpack, TopWords, CopyFile, Envdir, DomainStat, Validator
```

### Reminders

State: the table (`rows`, `plan`, and the two marks as sets), the messages on their way (`wire`: handed to the
scheduler's socket; `ready`: in the queue; `inbox`: pushed to the sender), the scheduler (`sch`, `batch`,
`sent` = `sentIDs` of the code) and the sender (`snd`). A message is the ID it carries; `Garbage` are bodies that do not unmarshal.

| action | code |
|---|---|
| `FetchPendingNotifications`, `Publish`, `PublishFails`, `MarkNotificationsSent(Fails)` | `processNotifications`, one step for each call that leaves the process |
| `DeleteOldEvents` | the cleanup loop, concurrently with the poll |
| `Enqueue`, `Deliver`, `BrokerRestart` | RabbitMQ as `broker/amqp.go` uses it: a durable queue, transient messages, no confirms, no Qos |
| `LogNotification`, `MarkDelivered(Fails)`, `Ack`, `NackGarbage`, `SenderExit` | the body of the sender's consume loop |
| `CreateEvent`, `UpdateEvent`, `DeleteEvent` | the rows as the API's statements change them |
| `...Crash`, `...LinkLoss` | faults, each kind with a budget |

History variables (`copies`, `logged`, `unreminded`, and `lost`, the messages that a failing wire or broker held) say what happened and are read by properties only. A
failing statement has two outcomes: not done, or done with its answer lost.

### EventTable, EventStore, MemoryStorage, SqlStorage

`EventTable` says what the operations compute on a table (overlay of a partial update, conflict, listing).
`EventStore` is the promise: clients call concurrently, and each call takes effect at one moment between invocation and return; it may
fail, and its answer may be lost. `MemoryStorage` has the lock, `Lock`/`RLock` as steps, and the operations as
two steps (check, store) with the early returns in their order. `SqlStorage` has one step for each statement: an update is `ReadRow` and `WriteRow`,
which writes all columns. A create has four outcomes (`CreateEvent`): stored and its ID read; busy; an error, with the row stored or not; and no error but no ID, with the row
stored or not, when `row.Next()` is false and `row.Err()` is not asked. `Refused` is the exclusion constraint and, with `CheckDates`, the `CHECK` on dates, which the code reports as "busy" too.

An ID is "some ID that is free, or busy if it is taken": the memory store makes one from the clock, where
two calls can collide; for PostgreSQL's UUIDs this allows more than happens. Title, description and
`notify_at` are one field (`text`).

### CalendarApi

The handlers of both front ends over `EventStore`. A request is a record with the fields the client gave, `Unset` for a missing one and `bad` for one
that HTTP cannot parse. `Refuse` and `Accept` are the validation, `Answer...` the mapping of the store's errors, `ReadUpdated` the second read that an update makes
for its response. The differences between the two front ends are kept: gRPC answers "internal" for a conflict on update, and when the second read fails; HTTP ignores that failure and
shows an empty event. `DayOf`, `WeekOf`, `MonthOf` are the ranges of the list requests; time is counted in units, so the code's "one nanosecond before the next day" is the moment of
the next day itself, excluded. Days are equally long, so zones with daylight saving time are not modelled. Months begin where a day begins, as `time.Date(y, m, 1, 0, 0, 0, ...)` has it in both handlers (`ApiAssumption`).
The store here is the atomic one, which the memory store implements; over PostgreSQL the same holds but for the three gaps of section 3 (a stale write, an update of a row that has gone, a create answered without an ID).

### CalendarMain

One process from its flags to its exit. `main` is how far `main()` has come: `Configure`, `createStorage`, `Listen` (the gRPC port; then the goroutines start), the `select` of `Server.Start` (`StartFails`,
`StartStops`), its `Shutdown` (`StartReturns`), the deferred `Close` of the store (`CloseStore`) and the return (`MainReturns`), which ends every goroutine. `stopper` is the shutdown goroutine (`GracefulStop`, `GrpcStopped`, `StopHttp`),
`http` with `listenErr` (the code's `errChan`) the listening goroutine (`ListenAndServe`, `ListenerReturns`). Clients are connections that have a request in progress or have not (`Request`, `Answer`). `os.Exit` and the
return of main are `Exit`, which records in `cut` whose request was cut off.

### Telnet and the sequential programs

`Telnet` (`TelnetSpec`; `runner` is where `run` is) is `run` of hw11 with its two copying goroutines (`SendChunk`, `SendEnds`, `ReceiveChunk`, `ReceiveEnds`), the cases of its `select` (`OnInterrupt`, `OnSent`, `OnReceived`) and what it then waits for
(`AwaitReceiver`, `AwaitSender`); the user types, ends the input or interrupts, the server sends, closes or resets. Data are counted, since `io.Copy` keeps their order.

`Unpack`, `TopWords`, `CopyFile`, `Envdir` and `DomainStat` are the loops of the code as state machines, with one step for each turn of a loop or each call into the system, and one variable for how
the function ended:

| module | steps | what the invariant compares the answer with |
|---|---|---|
| `Unpack` | a rune with its count (`EscapedRune`, `PlainRune` through `writeChar`), `InvalidRune`, `EndOfString` | every assignment of roles (escape, character, count) that the runes of the string can have (`Readings`), and its expansion |
| `TopWords` | `CountWord`, `getTopWords`, in any order of the map | the number of words ahead of each word of the answer, counted in the text itself |
| `CopyFile` | `Copy` up to its loop with its six errors, `CopyChunk`, `WriteFails`, `ReadError`, `EndOfFile` | the bytes that offset and limit ask for, at every moment; each failure with its cause; `destination` says whether `os.Create` made or emptied the file |
| `Envdir` | `ReadDir` or its failure (`ListingFails`, `ReadFails`), the range over the map in any order, the removal loop entry by entry, `StartCommand` | which name has which value, and a file's first line as a predicate |
| `DomainStat` | `CountLine`, `SkipLine`, `FailAtLine`, `EndOfLines` | the lines of each domain, an e-mail being a name without `@`, an `@` and the domain |

`Validator` holds the code as recursive operators and, below a line, the flat set of checks a struct asks for. It judges a single rule by the code's own `validateString` and `validateInt`; what it compares is which values are
judged, what is collected and under which path. In `Envdir` a file is its bytes, of the five kinds that the code tells apart, because what is trimmed in which order is what the properties are about. `MCExercises` puts all of them and the cache into one instance: a behaviour is a sequence of calls of the cache, or a run of one program on one input. `MCGoroutines` does the same for the four programs of goroutines; its fairness is that of the program that runs.

### ParallelRun, Pipeline

`ParallelRun` is `startController` and `startWorkers` of hw05, with channels as sequences, the unbuffered hand-over as a joint step of controller and worker (`HandOut`), and every
outcome of every task. `Pipeline` is `forward` and `drain` of hw06, for each link; stages, source and consumer are those the tests use. An unbuffered
channel is the step of both its ends. `done` is nil, open, or closed beforehand.

### LruCache, LinkedList, Recency

`LinkedList` has the operations of `list.go` as functions on the record of its pointers; `Represents(l, s)` says that they stand for the sequence `s`
of items (`Arrangements` are those without repetition). `LruCache` holds such a list, the
contents of its items and the map; `Order` is the sequence that its list represents. There is at least one item more than a cache may
hold (`LruAssumption`), since `Set` stores before it evicts. A method holds the mutex throughout, so that a call is one step. `Recency` is the promise: a sequence of keys, the one used last first, as
long as the capacity allows.

## 3. The runs

| run | bounds | what it shows |
|---|---|---|
| `reminders_faults` | 1 event, 4 schedules, clock 0..3, each of 7 faults once | `PublishedIsAccountedFor`: a row marked published is delivered, its message is under way, or the wire or the broker lost it; `CopiesNeedFaults`, `RepeatsNeedFaults`: repetition is bounded by the faults that cause it; `DeliveredWasLogged`: the mark is not ahead of the notification; `PendingDeletedIsShort`: a pending reminder that the cleanup removes is one of an event shorter than what the year is longer than the retention (`SqlYear` 3, `Retention` 1) |
| `reminders_live` | 2 due events, polls of 1 (so that one waits behind a batch), a poison message, one stop of each process, one restart of the broker | `DueIsDelivered`: every due reminder is delivered, unless its message was lost or the scheduler is left with a closed channel; a message requeued for ever starves nobody |
| `reminders_reschedule` | 1 event | finding, see below |
| `memory_store` | 2 clients, 2 IDs, 10 calls | `NoOverlap`; `ImplementsStore`: refinement of `EventStore`; `CallsReturn` |
| `sql_races` | 2 clients, 2 IDs, 10 calls, failures | `NoOverlap` for the rows that result from any interleaving; `AtomicUpToGaps`: every step is one of `EventStore` or one of the gaps `StaleWrite`, `VanishedWrite` and `LostID` |
| `sql_lost_update`, `sql_gone_update` | 2 clients | findings: the gaps `StaleWrite` and `VanishedWrite` |
| `calendar_api` | 2 clients, 14 requests of both front ends, valid and not | `RefusalsChangeNothing`; `ShownIsCurrent`; `DayInWeekAndMonth`, on a Sunday that is the first of a month |
| `goroutines`: hw05 | 6 tasks, 3 workers, limit 2 | `ErrorsBoundWork` (n + m - 1), `NoTaskAfterLimit`, `ResultIsRight`, `ReportNeverBlocks`, `RunReturns` |
| `goroutines`: hw06 | 2 stages, 3 values, `done` nil, closed at any moment or beforehand | `OutputIsPrefix`, `AllWithoutDone`, `DoneReleases` (the consumer), `NobodyStays` (each goroutine) |
| `goroutines`: hw11 | 2 chunks each way | `NothingCutShort`, `OwnCloseIsNoError`, `RunEnds` |
| `goroutines`: the calendar process | 2 HTTP and 2 gRPC clients | `HttpIsServed`; `FailureHasCause`; `StopsInTheEnd` |
| `exercises`: hw04 | 4 keys, 2 values, capacities 0..3 | `WellFormed` (pointers, map and capacity), `ImplementsRecency` |
| `exercises`: the others | strings of 4 runes, texts of 3 words, files of 7 bytes, lines of 4 bytes, e-mails of 5 characters, structs of two fields nested twice | `UnpackIsRight`, `TopIsRight`, `CopyIsRight`, `EnvdirIsRight`, `ValidatorIsRight`, `StatIsRight` |
| `envdir_blank`, `validator_errors` | the same programs, shorter inputs | findings |

Each behaviour of `goroutines` and `exercises` is of one program, chosen in its first state; the others stay at an input of theirs, the parallel runner after a `Run` that is over. Nothing of one program is combined with another's,
so that the states are the sum of theirs and not the product.

The bounds, and why they are enough to be of interest:

* Two clients show every race of the stores, whose operations concern one row and have at most two steps; two IDs give a conflict between different events.
* One event with one of each fault already contains the orders of crash, requeue and retry. Two events are needed
  only where a batch or an order matters, and are run without the other faults; with polls of one, a backlog of two is more than a batch. `MaxNow` lets the clock pass notification, archive age and retention. Three units for the fetch query's
  year against one for the retention make room for an event between the two: what is a day of a leap year in the code. The proofs remove these bounds.
* Two clients of each kind let one be answered while another one arrives or is cut off.
* For the sequential programs: four runes hold an escape, its rune and two digits; three words and a top of two a tie at the cut; seven bytes in reads of two, shown every 50 per cent, four
  reads of which the last is short and some are not shown, and every number of bytes after which reading or writing fails; two entries of every kind, a name with `=`, and three parent variables every order of removals and additions.
* In the parallel runner there are more tasks than n + m - 1, so that the limit can bite, and more workers than the limit tolerates errors.
* With three values and two stages each link can hold a value when `done` is closed and there is one more to lose.
* Four keys and capacity three give an item at the front, in the middle and at the back, and an eviction. The clients of `calendar_api` are interchangeable, hence its symmetry set; no liveness is checked there.
* `CHECK_DEADLOCK FALSE` is said where the system may stop: the reminders at the bound of the clock and of the faults, `Run` after its return, the pipeline when all have ended, the process and the telnet client after their end, a program with its answer. `RunReturns`, `NobodyStays`, `StopsInTheEnd` and `RunEnds` exclude other stops.
* The type invariants of the other modules are proved (section 4) and not checked once more.

### What the runs found

* **A reminder that is moved is not repeated** (`reminders_reschedule`). `UpdateEvent` leaves `notify_published_at` as it is, so that
  an event moved to a later `notify_at` after its reminder was published is never selected again.
* **A lost update** (`sql_lost_update`). Of two updates of different fields the second writes back the first one's old field
  (`sql/storage.go:63-102`), where the comment says that only the given fields are changed. The memory store does not do so.
* **An update that finds no row any more is done** (`sql_gone_update`). The row is deleted between the SELECT and the UPDATE; the number of rows changed is not asked for
  (`sql/storage.go:102`), where a comment and a test promise `ErrNotFound` for an event that is not there.
* **A blank at the end of a value** (`envdir_blank`) stays before a carriage return, since blanks are cut first; `IsValue` has it as its one exception (`KeepsBlank`).
* **Program errors among validation errors** (`validator_errors`). A tag or a regular expression that does not parse is reported in `ValidationErrors`; only an unsupported type is reported alone. The tests of the two cases pass because
  `errors.Is` does not look into that slice and no fields are expected.

Smaller observations, each modelled as it is: the HTTP update that
shows an empty event (`ShownIsCurrent` names it as the exception); the memory store accepts an event that ends before it starts where PostgreSQL refuses it;
the scheduler never reopens its channel; messages are transient and unconfirmed, hence `lost`; with `done` closed beforehand a pipeline may still let values through, which `pipeline_test.go:237` denies.

A create can end without an ID: when the answer of the insert fails after the query was accepted, `row.Next()` is false and nil is returned with an empty ID (`sql/storage.go:52-57`), the row stored or not. It is the gap `LostID` of `AtomicUpToGaps`.

The cleanup in a leap year: it counts 365 days from the end of an event (`calendar_scheduler/main.go:220`), the fetch query a calendar year from its start. A reminder that is still to be published, because the scheduler was down or
its `notify_at` was moved, is deleted with its event on the last day of that year if the event is shorter than a day. `PendingDeletedIsShort` is what remains true, and `reminders_faults` has its two lengths so that this does happen.

Of the process: nobody waits for the shutdown goroutine, so that main may return with status 0 while `GracefulStop` still waits, and gRPC calls in progress are cut off or meet a closed store (`HttpIsServed` is therefore about
HTTP only); and a signal can end in "failed to start http server" and status 1 when the shutdown goroutine's `Stop` makes `ListenAndServe` return before main looks at its `select` (the third case of `FailureHasCause`).

Of the sequential programs: the check for a second digit in `writeChar` is redundant, the loop refuses that digit anyway; a digit outside ASCII counts as zero and drops its rune; `Copy` onto the source empties it; with nothing to copy it reports success
also when the destination cannot be created (`CreateErrorDropped`, the one exception in `CopyIsRight`); a negative limit copies nothing and a negative offset makes the total too large, both successfully; an empty file that cannot be read removes its variable, since it is not opened, while a link to an empty file sets an empty value, the size being the link's own; the removal
loop of `RunCmd` skips a neighbour, which `os.Environ`, free of duplicates, never shows; a domain asked for in capitals is never found.

### Fairness

The conditions of the last four are stated in `MCGoroutines`, for the program that runs.

* `Reminders`: weak fairness of each process's own steps, of routing and of pushing. The ticker polls for ever; a process that is down is started again (`restart: unless-stopped` in
  `docker-compose.yml`, replicas in the helm chart), and the consume loop reads on. Nothing is assumed of the clock, of the API or of faults. Liveness is checked with stops and with a restart of the
  broker, which closes the scheduler's channel for good: `Deaf` names that state.
* `MemoryStorage`: weak fairness of a goroutine that can run; strong fairness of getting the lock, since `sync.RWMutex` holds off new readers for a waiting
  writer and hands over to a waiter that starves. Clients need not call.
* `ParallelRun`: goroutines that can run are scheduled, and tasks end.
* `CalendarMain`: main, the three goroutines and the answer of each request; not the signal, not the requests. A gRPC or HTTP handler is bounded by its store, which holds no lock across requests.
* `Telnet`: `run`, `Send` and `Receive`. Dialling has a timeout and a peer that is up goes on reading; nothing is asked of the user or of what the server sends.
* `Pipeline`: forwarders, stages and the consumer. Not the source, which may stop for good, and not the closing of `done`.

## 4. The proofs

All are for arbitrary sets and numbers under the assumptions named in the modules, without the bounds of TLC.

| theorem | says | argument |
|---|---|---|
| `RemindersProofs!TypeCorrect` | `TypeOK` | together with `HoldsMessage`: a sender that has logged or marked still holds the message |
| `CopiesBounded` | `CopiesNeedFaults` | `CopiesInv`: what is still in `batch` is unpublished or has been paid for by a fault, IDs in a batch differ, an ID never used was never published |
| `CleanupIsBounded` | `PendingDeletedIsShort`, whatever the two lengths are | the `CHECK` on dates (`DateCheck`) is inductive, so an event that ended longer ago than the retention and started within the year is no longer than their difference, less one |
| `NothingForgotten` | `PublishedIsAccountedFor` | the stronger `Accounted` also counts `sent`, so that a mark adds nothing; messages on their way carry used IDs; the sender's copy is one the broker requeues or one that is still in the inbox; a fault moves what it drops to `lost` |
| `RepeatsBounded` | `RepeatsNeedFaults` | the messages of an event are counted wherever they are (socket, queue, inbox, the sender's hand): `LogInv` says that never more than `copies` of them can be delivered, and that `logged` with what can be logged without a further fault is at most the copies times one plus the faults so far; a fault of the sender makes at most everything deliverable again |
| `MarksComeInOrder` | `DeliveredWasLogged` | `LoggedInv`: the message a sender has logged is counted as logged, and what is on its way was published |
| `ParallelRunProofs`: `RunTypeCorrect`, `WorkIsBounded`, `LimitStopsWork` | `RunTypeOK`, `ErrorsBoundWork`, `NoTaskAfterLimit` | `RunInv` ties the number of tasks in progress to the controller's counters |
| `ReportsHaveRoom` | `ReportNeverBlocks` | `Conservation`: until the limit, tasks handed out are those received, waiting in the channel or with a worker; the last two together are at most n |
| `AnswerIsRight` | `ResultIsRight` | `AnswerInv`: until the limit, tasks run are those received, waiting or held; the failures are those counted, waiting in the channel (a running sum over it) or held, and at least that many after the limit |
| `MemoryStorageProofs`: `MemoryTypeCorrect`, `OwnersDoNotOverlap` | `TypeOK`, `NoOverlap` | `Guarded` (mutual exclusion) and `Checked` (a check holds until its store) |
| `MemoryImplementsStore` | `ImplementsStore` | the check is a stutter, the store the step of `EventStore` |
| `SqlStorageProofs`: `SqlTypeCorrect`, `SqlOwnersDoNotOverlap` | `TypeOK`, `NoOverlap` | every write goes through `Refused` |
| `SqlImplementsUpToGaps` | `AtomicUpToGaps` | step simulation; a write of an unchanged row is the atomic update, and a failure or a lost answer is one of `EventStore` |
| `ExercisesProofs`: `PipelineTypeCorrect`, `ResultsAreAPrefix`, `NothingIsLost` | `PipelineTypeOK`, `OutputIsPrefix`, `AllWithoutDone` | `Chain`: each link holds exactly the values between its two ends, which a cancelled link leaves behind it, never before it |
| `CalendarMainProofs`: `MainTypeCorrect`, `HttpServedAtExit`, `FailureExplained` | `CalendarTypeOK`, `HttpIsServed`, `FailureHasCause` | the inductive invariant ties `main` to `http` and `active`: past `Shutdown` the listener is closed and no HTTP request is in progress, so none can begin before the store is closed; and `listenErr` to who closed the listener, which the shutdown goroutine does only after gRPC has drained |
| `CalendarApiProofs!RefusedIsUnchanged` | `RefusalsChangeNothing` | `Harmless`: while the reply to a request's first call is not "ok" and no failure, the request has changed nothing; the second read of an update never becomes a refusal |
| `ShownIsNotOlder` | `ShownIsCurrent` | `ServingInv`: what the table holds now is in `seen`, and what the store told a reading client was in it |
| `ApiTypeCorrect` | `TypeOK` | `ValidInv`: what the two sets of checks let through is a call of the right form, hence the store keeps a table of events |
| `DayIsInWeekAndMonth` | `DayInWeekAndMonth` | a day starts at a multiple of its length (`WholeDays`), of which the week's start is another, and so are the months: what starts before the day's end starts by the day's begin; the first month after a date exists because a set of numbers has a least one (`LeastNumber`) |
| `LruCacheProofs!CacheWellFormed` | `WellFormed`, itself inductive | each operation of the list is followed on the sequence it represents (a new head, an item taken out, one moved to the front); the map's items are those of the sequence, so the length is their number, and a free item exists when one is needed |
| `CacheImplementsRecency` | `ImplementsRecency` | a list represents one sequence only (`OneReading`), so `KeyOrder` after a step is what the step makes of it: a step of `Recency`, whose `Room` drops exactly the item that `removeOldest` unlinks |
| `ExercisesProofs`: `TelnetCutsNothingShort`, `TelnetReportsThePeer` | `NothingCutShort`, `OwnCloseIsNoError` | `ClientInv`: a copy ends without error only at the end of its input, with everything copied; until `run` closes the connection an error is one of a reset; and after that `run` reads the other result without looking at it |
| `CopyCorrect` | `CopyIsRight` | `CopyInv`: the destination holds the first `copied` bytes of what the limited reader delivers (`Copying`), no progress shown is ahead of it; `CopyRange`: what the reader delivers is what offset and limit ask for, so that a failing read or write leaves a beginning of it (`WantedFirst`) |
| `StatCorrect` | `StatIsRight` | `RightSoFar`: the counts are right for the lines scanned; `DomainOf`: what stands behind the first `@` is the only domain an e-mail can be taken to have |
| `UnpackCorrect` | `UnpackIsRight` | `Read`: the runes read so far have roles that every reading of the whole string gives them, and their expansion is what has been written; a rune without a possible role leaves no reading |
| `EnvdirCorrect` | `EnvdirIsRight` | `Settled`: a variable ranged over is in the slice as its file says; `RemovingOne` with the fact that no name occurs twice: the removal loop, which skips a neighbour, has passed no entry of the name |
| `TopCorrect` | `TopIsRight` | `Tallied`: the map counts the words scanned; `PrecedesTotal`, `PrecedesStrict`: Go's order of strings is total and strict, so a sorted arrangement has each word behind exactly those ahead of it |
| `LessOrders` | `StrictOrder`: `sort.Slice` is given a strict total order, as it demands, transitive too | `PrecedesOn` and `TallyRight`: the counts in the map are those in the text |

The lemmas on tables that both stores use (a store that is not refused keeps a table disjoint) stand in both modules of proofs.
The assumptions are those of the modules: finite sets, positive limits, calls of the right form. TLC evaluates them in the runs.
Where an argument needs induction, it is by the least number of a set (`LeastNumber`, `LeastOf`, from the library's well-founded relations), since the induction theorems
that take an operator cannot be used.

Only model-checked: liveness (`DueIsDelivered`, `CallsReturn`, `RunReturns`, `NobodyStays`, `DoneReleases`, `StopsInTheEnd`, `RunEnds`), since TLAPS does not reason about fairness and ENABLED; and `ValidatorIsRight`,
since `Validator` recurses over the fields of nested structs, so that what it computes would have to be proved by induction over data. The arguments over text, lines and runes go by steps of a state machine instead: what a loop has done
so far is the invariant.

## 5. What is not modelled

* hw01 prints a line. The flags of hw07, hw08 and hw11, and the start of hw08's command, are I/O.
* Configuration, logging, middlewares, interceptors, generated code: they change no state of the calendar.
* `PushBack` of the list, which the cache does not use; `HealthCheck`.
* What PostgreSQL and RabbitMQ do inside. Each statement is taken to be atomic, with the constraints of the migrations. The driver (`lib/pq`, not part of
  the repository) is taken to pass a `[]string` to `ANY($1)`. A constraint error is one of the statement (then it is "busy") or shows only when the row of an insert is read (then it is lost: the gap `LostID`).
* The error of closing a copied file, which the code drops: what a write has answered is in the file. A directory or file that changes while envdir reads it, but for entries that vanish or become unreadable.
* The texts of messages and the content of notifications: a message is its ID. That it may carry an old title or time is listed as a hazard without a property.

## 6. The plan

Done, in this order: `Reminders`; the store with its two implementations; `ParallelRun`; `Pipeline`; `LruCache`; `CalendarApi`; `CalendarMain`; `Telnet`; the sequential programs, their loops as state machines; the proofs of section 4.

What would come next: the content of messages in `Reminders` (the title and time a notification shows against the row); `CalendarApi` over `SqlStorage` itself in place of the atomic store, to see which stale writes a client can tell; the
validator as a state machine with a stack of the structs it is in, so that its answer becomes an invariant with a proof.
