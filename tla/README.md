# A TLA+ verification of spanner-mycli

spanner-mycli is an interactive SQL client for Cloud Spanner.  Its hardest part is the *transaction
owner*: one mutable object that the CLI goroutine, two timer watchers and a keepalive goroutine
share, that outlives the server transactions it is served by, and that must give back every session
variable it borrowed.  Around it are the parts that decide what a line of text means, carry a
statement to its answer, change the schema and the session, and start and end the program.  This
directory models them in TLA+, checks them with TLC and proves with TLAPS the safety of the owner, its
keepalive and its savepoints, of DDL, the session and start-up, of everything that happens in the
course of one statement, of variables, descriptors and widths, and of the dump.

Contents: [1 inventory](#1-inventory), [2 modules and the code](#2-modules-and-the-code),
[3 runs](#3-runs), [4 proofs](#4-proofs), [5 disagreements found](#5-disagreements-between-the-code-and-its-text),
[6 plan](#6-plan), [7 limits](#7-what-is-not-modelled).
Paths without a directory are under `src/internal/mycli/`.

## 1 Inventory

### Components

| Component (files) | State | Operations | What makes it correct | Module |
|---|---|---|---|---|
| Transaction owner (`transaction_manager.go`, `session_transaction_context.go`, `statements_transaction.go`, `autocommit.go`) | `tm.tc` (mode, captured durations, undo log, attempt), `tm.statementDepth`, `tm.pendingLocalVarRestore` | BEGIN [RW, RO], SET TRANSACTION, COMMIT, ROLLBACK, lazy begin, implicit transactions, DUMP's borrowed transaction | an owner is replaced only where nobody else relies on it; it captures the session's values, never a dead owner's; SET LOCAL ends with it | `OwnerLifetime`, `LocalScope` |
| Timers (`transaction_timeout.go`, `idle_transaction.go`) | deadline context, idle generation, hold counter, notice | arm, rearm, expire, mark, hold, acknowledge | a late timer touches only its own owner, an idle expiry only a quiet one; what expired is retired in the end | `OwnerLifetime` |
| Keepalive (`transaction_manager.go:1388-1660`) | cancel handle, `sendHeartbeat`, goroutine per attempt | enable, stop, tick | at most one live goroutine, for the current attempt; none leaks; an owed one keeps running | `Heartbeat` |
| SAVEPOINT journal (`savepoint_*.go`) | entries, markers, byte count, recovery flag, capture tokens | admit, capture, mark, release, ROLLBACK TO, retract after a display failure | the server has executed exactly the journal; the byte count is exact; a marker is never lost to a failure it survives | `SavepointOwner`, `NestedTransaction` |
| Abort retry (`explicit_abort_retry.go`, `retry_aborts.go`, `dml_mutation_limit.go`) | attempt and retry counters, saved flush | reconstruct, back off, replay, repeat; partitioned fallback | nothing takes effect twice; the loops end; the answer is true | `SavepointOwner`, `ImplicitDml` |
| Automatic DML, MUTATE (`transaction_manager_auto_dml.go`, `batch_manager.go`, `mutate_queue.go`) | queue, frozen queue, batch | enqueue, flush, discard, RUN / ABORT BATCH, buffer mutations | queue and journal hold each statement once | `SavepointOwner` |
| Queries (`execute_sql.go`, `row_iter.go`, `row_processor.go`) | frozen options, iterator, held-back rows, receipt, query cache | send, read, preview, complete, fail, reconstruct and repeat | what is shown, journaled and cached is of one execution that was read to its end | `QueryExecution` |
| Partitioned execution (`execute_partitioned.go`, `partition_*.go`) | worker pool, channel, first error; tokens | run, merge, collect, export, read a token | OK means every row of every partition; a token reads the snapshot it was made of | `PartitionedQuery`, `PartitionToken` |
| Streams and pager (`streamio/`, `result_sink.go`, `output_context.go`, `filesafety/`) | writers, tee file, pager process, spinner, fence | enable, disable, write, fence, close, abort | what was written reaches screen and file once; nothing outlives the statement | `StatementOutput` |
| MCP (`cli_mcp.go`) | gate, capture | call, withdraw, write, answer | one call at a time; the answer is what was written | `McpServer` |
| DDL (`ddl_in_transaction.go`, `execute_ddl.go`, `batch_manager.go`, `default_sequence_kind.go`) | policy, pending batch, operation, receipt | admit, submit, wait, hand over, repair | nothing takes effect twice; a committed transaction is told; caches learn of every change | `DdlExecution` |
| Session (`session.go`, `cli.go`, `feature.go`) | clients, mode, live values, caches | USE, DETACH, recreate client, DROP DATABASE, Close | one identity at every prompt; no handle lost; nothing of the old session survives in the new one | `CliSession` |
| Start-up (`app.go`, `config.go`, `kong_toml_loader.go`, `emulator.go`, `sample_databases.go`) | flags, settings, resources, deferred calls | validate, open, run, release | nothing is left open; clients go before what they use | `Startup` |
| Variables (`system_variables*.go`, `var_*.go`, `statements_system_variable.go`) | the registry, startup snapshots, undo log | SET, SET LOCAL, RESET, RESET ALL | a statement that fails leaves every value as it was; LOCAL values end with the transaction | `SystemVariables` |
| Statement table and completion (`client_side_statement_def.go`, `statement_processing.go`, `fuzzy_finder.go`) | none / the line being edited | match, complete, dispatch | a line means one thing for dispatcher, completion and every parse mode | `ClientStatements` |
| Dump (`statements_dump.go`, `dump_*.go`, `dependency_resolver.go`) | two dependency graphs, byte budget | plan, refuse, order, write | the script restores in its own order and holds the snapshot | `DatabaseDump` |
| Proto descriptors (`statements_proto.go`, `proto_descriptors.go`, `pull_remote_proto.go`) | file list, graph, cached remote state | SET, +=, SYNC, PULL, dump preamble | a failed statement changes nothing; PULL only adds; SYNC is exact | `ProtoBundle` |
| Widths (`format/width*.go`) | none: pure algorithms | measure, allocate | a table fills the screen and does not run over it | `ColumnWidths` |
| EXPLAIN and plan lint, renderers, feature plug-ins, generated enums | none that outlives a call | conversions and calls of services | out of scope | |

`PROJECT.json` lists every component with its files and status.

### How they interact

All owner state is guarded by one mutex, `tm.mu`, but a statement is *not* one critical section:

```
 CLI goroutine                                 timer goroutines         keepalive goroutine
 hold++ ; depth++                              TRANSACTION_TIMEOUT      every tick:
 restore barrier  (undo of dead owners)        IDLE_..._TIMEOUT           read attributes
 notice of an idle expiry                        |                        (unlocked gap)
 lazy owner  -> restore barrier -> install       | context fires          take tm.mu
 settle a pending owner                          | (unlocked gap)         same owner, attempt?
 handler: one or more critical sections          v                        SELECT 1
   with RPCs inside, unlocked gaps between     take tm.mu
 leave: depth--, retire if marked              same owner? generation?
 restore, display (pager), hold--              retire now, or mark
```

* *Calls.* Statements call `TransactionManager` methods; those call the Spanner client under
  `tm.mu`.  A setter of the variable registry may call back into `TransactionManager`, which is why
  undo is replayed only after `tm.mu` is released.
* *Shared state.* `tm.tc` is replaced as a whole; each goroutine keeps the owner (or the owner's
  generation or attempt) it was started for and compares.
* *Statements and the session.* USE, DETACH and the recreation of a client replace the session and its
  manager as a whole, and refuse while the old ones have an owner or a batch.  DDL asks the owner
  (policy, work, recovery) before it commits or refuses it, and bumps the schema generation that the
  completion and DDL caches compare.
* *Output.* A statement writes to the writer that the stream manager gave it when it began; the sink
  joins the spinner, opens fence and pager on the first byte, and closes them on every path.
* *Callbacks.* The display of a result happens after the statement left; its failure is reported
  back with a capture token that names attempt and entry.

### What is hard

Timers and ticks that get the lock late (the owner may have been replaced twice); a decision taken
before the restore barrier and used after it; SET LOCAL's three critical sections; the undo of two
dead owners replayed in one go; ABORTED at every RPC, also inside replay and commit, and after rows
were shown; an exact byte account over a dozen failure paths; commits whose answer is lost; a display
that fails after the statement succeeded; a worker pool whose end, failure and cancellation race; a
DDL operation that is partly applied, or still runs when the wait for it ends; a switch of session
that fails at its third step; release in the right order on every exit.  `PROJECT.json` "hazards" has
each of them at its line, with the properties that watch it.

## 2 Modules and the code

One action is one critical section of `tm.mu`, or the code between two of them; an RPC made under
the lock is part of its action, with a nondeterministic outcome.  `PROJECT.json` "map" gives the
source lines of every definition.

### `OwnerLifetime` - the owner between statements, watchers and variables

| State | Code |
|---|---|
| `pc`, `ret`, `stmt` | the CLI goroutine's place in `Session.executeStatement`, where it continues after the restore barrier, the statement |
| `depth`, `hold` | `tm.statementDepth`, `tm.idleCLIHold` |
| `owner` | `*tm.tc`: `timeout`/`firstUse`/`armed`/`expirePending` of the budget, `idle`/`work`/`rearm`/`held`/`gen`/`timer` of the idle timer, `undo` of SET LOCAL.  `passed` is the clock; `quiet` is a history field |
| `pend` | `tm.pendingLocalVarRestore` |
| `sysVars`, `saved` | the two duration variables of the registry; SET LOCAL's `oldValue` between setter and push |
| `dlFired`, `idleFired`, `notice` | watchers whose context fired and that wait for `tm.mu`; `tm.idleNotice` |

`Frame` actions are the code around a handler (`enterStatement`, the entry restore,
`syncExpiredOwnerRestore` in its two halves, `consumeIdleNotice`, `ensureLazyAutocommitOwner`,
`leaveStatement`, `endIdleResultHold`).  `Install` actions are the begin functions behind
`withOwnerInstallAfterRestore`.  `Handler` actions are the statements.  `WatchDeadline` is
`retireMatchingOwner`, `WatchIdle` is `tryIdleExpire`.  SAVEPOINT, abort retry and automatic DML
are off in this module.  Two windows show here that no property calls an error: SET TRANSACTION reads
the owner's mode under one lock and begins under another (`statements_transaction.go:92`), and DUMP
promotes a pending transaction (`transaction_manager.go:361`).

**`LocalScope`** is what SET, SET LOCAL and the end of a transaction promise, with no owners,
timers or undo logs.  `MCOwnerLifetime` gives the refinement mapping: the session's values are the
registry with every undo entry replayed, and the abstract transaction ends when a dead owner's undo
has been replayed (that is when its values leave the registry).

### `Heartbeat` - the keepalive goroutines

`tc` is the owner as far as keepalive sees it (`sendHeartbeat`, `keepAliveDisabled`, the cancel
handle, the attempt), `beat` the goroutines: each knows the owner and the attempt it was started
for, whether it was cancelled, and whether it waits in `select` or for `tm.mu`.  `Enable`, `Stop`,
`DiscardPhysical`, `Publish`, `Retired` map a pair (owner, goroutines) to the next one, as the
functions of those names do under the lock; the actions compose them.  `Tick`, `Acquire` and `Done`
are the goroutine: the attribute check and the use are two critical sections, and a cancelled
goroutine may still take a tick because Go's `select` has no order.  The policy KEEP_TRANSACTION_ALIVE
is read when the read-write transaction begins (`transaction_manager.go:960`), and ROLLBACK TO starts
the keepalive again for an owner that an expiry has marked and that is retired at the statement's end
(`transaction_manager.go:1475`, `session_transaction_context.go:90`).

### `SavepointOwner` - journal, replay, abort retry, automatic DML

`tc` is the owner with its `replayState` (entries, markers, retained bytes, frozen queue, recovery
flag), `phys` what the server transaction has executed *and answered*, `held` the queue that a
retried flush has taken, `tok` the capture token of the result in hand, `back` the critical section
a retry returns to.  The failure handling is a set of functions from the state a section works on
to its possible outcomes (`ok`, `failed`, `wait` for the backoff, `exhausted`), because the code
runs the same section again after a retry: `Section` and `Resume` share `Outcomes`.  A fingerprint
is a member of `Observations`; replay may see any of them and accepts only the recorded one.

**`NestedTransaction`** is the abstract transaction: work, queue and a stack of named snapshots; it
knows no attempts, journals or retries.  `MCSavepointOwner` maps the journal to the work, a marker
to the journal's prefix, recovery to "broken", and the queue that a retried flush holds back to the
queue.

### `ImplicitDml` - one autocommit DML statement

The loop of `runInNewOrExistRwTxLocked` outside a transaction, with `executeRwTxAttemptLocked`
split at its RPCs, the deferral of ABORTED failures, the backoff without the lock, and the fallback
to partitioned DML.  `applied` and `partitions` are the server's state, which the code cannot see: a
failed Commit that is not ABORTED may have taken effect.

### `QueryExecution` - one query, from its options to its receipt

| State | Code |
|---|---|
| `owner` | the owner as far as a query asks: mode, capture, retries, journal, whether its attempt is lost |
| `stmt`, `frozen`, `tag`, `sent` | kind and sink of the query; the options frozen for all its executions; the statement tag before and on each execution |
| `iter`, `total`, `rows`, `held` | the iterator, what the server returns, what was read, what a table holds back to choose its widths |
| `shown`, `presented`, `exec` | what reached the user, of which execution; `presented` forbids a repetition |
| `token`, `cache`, `answer` | the capture receipt; the query EXPLAIN LAST QUERY uses; what the user is told |

One action is one read, or the code between two.  A failure goes to `SettleRetry` or `SettleFailed`, which are
`tryExplicitAbortRetry` and `applyOwnerQueryFailure`: reconstruction and a repetition, or cleanup and
retirement of the owner.  The owner's timeout may retire it between any two steps.  An entry
of the journal is only "whole or not"; the journal itself is `SavepointOwner`'s.

### `PartitionedQuery` and `PartitionToken`

`PartitionedQuery` has one process per worker, the submitting goroutine (`pool.Go` blocks when the
pool is full), the consumer of the unbuffered channel, and the end of the context.  `worker`, `sub`
and `cons` are their places, `cancel` the consumer's `cancel()`, `md` and `mdSeen` the row type that
must come first.  `PartitionToken` is the export and the admission of a token: the issuer's clock, how
far it is ahead of the reader's, and a token that may be put together of two (it is not signed).

### `StatementOutput` - writer, sink, pager, spinner

`tee` and `to` are the stream manager's file and the writer captured by the statement; `sink` is the
`resultSink` (where its first byte went, fence, broken, quit); `pager` and `pipe` the process and what
it has not read; `shown` and `filed` what arrived.  The CLI goroutine, the spinner, the pager, Ctrl+C
and a full disk take steps of their own.

### `McpServer` - concurrent calls on one session

Each call is a goroutine with a cancellable context; `gate` is the channel of capacity one; `kept` and
`notes` are the bounded capture.  A `select` with both channels ready may give the gate to a call that
is cancelled: `Refuse` is the check after it.

### `DdlExecution` - batches, admission, operations

`owner` is what DDL asks of the transaction, `batch` the manual batch, `req` the request with its
execution mode and its phase in the repair, `ops` the server's operations with the statements they
have applied, `seen` the client's copy.  `Admit` is `ddl_in_transaction.go`; `Submit`, `Response`,
`Poll` and `Sleep` are `executeDdlStatements` and its wait; `Repair` is
`default_sequence_kind.go`.  The server applies statements while the client waits, and goes on when it
does not.  `stale` is a history field: a change no cache was told of.

### `CliSession` - the session and its replacement

A client, admin client or feature state is a numbered handle; `session` is the adopted session, `cand`
the candidate of a switch, `live` what `adoptSession` published.  `Switch`, `Dial`, `DialAdmin` and
`Check` are the steps of a switch, each with its failure; `Abort` and `Recreate` the recreation of the
client; `CloseCli` the end.  `front` is the loop that reads statements: it decides what an error ends.

### `Startup` - from flags to exit

One action per step of `runWithOutput`: `Validate`, `Initialize` (precedence of flags, environment and
files), the sample database's two concurrent loads, `StartRuntime`, `Streams`, telemetry, `NewCli`,
startup SQL, the choice of the input.  `deferred` is the stack of deferred calls, `open` what the
process holds; `StepFails` may end any step, and `Unwind` runs what was registered.

### `SystemVariables` - the registry

The table of variables with the flags that say how each may change, and SET, SET LOCAL, RESET and
RESET ALL against an owner and a batch.  `val` is the registry, `snap` the startup values, `undo` the
log of the open transaction, `base` (history) what the settings are without SET LOCAL.  A retired entry
stays in `undo` as one that names no variable, so `MaxUndo` counts SET LOCAL statements; replay, a loop
over the entries from last to first, is modelled by what it amounts to: the first entry of a name stands.

### `ClientStatements` - what a line means

The whole table `clientSideStatementDefs`, in its order: each regular expression is a set of *shapes*
(sequences of words and wildcards), each completion entry a fixed prefix with the type of what
follows.  `Match` is first match wins, `Dispatch` the four parse modes, the `Pick` actions are what
completion does to the line, `Send` the dispatch.

### `DatabaseDump` and `ProtoBundle`

`DatabaseDump` reads a catalog in a snapshot, takes interleave parents from DDL, builds the order graph
and the safety graph, finds its components by the code's two depth-first passes (`Visit` is one level of
the recursion, `Visiting` as many levels as there are tables), refuses or groups cycles, orders the units
and writes them; `live` is the database outside the snapshot.  `ProtoBundle` has the session's descriptor graph and its files, the server's bundle, the
cached answer and the open batch; a graph maps files to complete types, placeholders and imports.

### `ColumnWidths` - how wide a column is drawn

`Measure` is `adjustByHeader` with `applyColumnFloors`; `GrowFrequent` and `GrowMarginal` are one turn
of the loop of GREEDY_FREQUENCY and of MARGINAL_COST, `Finish` what each strategy does with the rest.
Ties in the heap are broken either way.  A text is its width on one line.

### MC modules

`MCOwnerLifetime`, `MCHeartbeat`, `MCSavepointOwner` and `MCDatabaseDump` hold the instances' sets,
symmetry and the refinement mappings.  `MCStatements`, `MCSession` and `MCTools` each check several
modules in one run: the modules share no state, so a behaviour exercises one of them, its `part`, while
the variables of the others keep a first value; every action is guarded by `part`, and so is every property that does not hold of the first values.
`DdlExecution` is also checked directly.  The definitions whose comment starts with "Mutant:" are
plausible errors in that code, used to see that each property can fail; no specification refers to
them.

## 3 Runs

All runs use `tlc -config <cfg> <module>`.

| Run (`cfg`) | Distinct states | Shows | Properties |
|---|---|---|---|
| `OwnerExplicit.cfg` | 2,189,552 | Explicit transactions (AUTOCOMMIT=TRUE): late deadline and idle watchers against every statement, two owner identities, two idle generations; owner, undo log, detached undo and replay barrier implement the SET / SET LOCAL scope of LocalScope. | `TypeOK`, `ExpirePendingScoped`, `SetLocalKeepsOwner`, `NoticeBeforeWork`, `LocalScopeSpec`, `CapturesSessionValues`, `IdleExpiryNeedsQuiet`, `WatcherSparesReplacement` |
| `OwnerLazy.cfg` | 454,800 | AUTOCOMMIT=FALSE and READONLY=TRUE, lazily installed and read-only owners with two LOCAL values: a spent budget or an interval that elapsed behind a held result is always acted upon without further input. | `OwnerEnds` |
| `HeartbeatRace.cfg` | 57,076 | Late ticks of the keepalive goroutines against replacement of the attempt (ROLLBACK TO, abort retry), of the owner, and expiry: three goroutines, two owners, two attempts; no goroutine is left over, and an owed keepalive is sent again and again. | `TypeOK`, `SoleHeartbeat`, `KeepaliveCovered`, `HeartbeatSparesReplacement`, `KeepaliveLives` |
| `SavepointReplay.cfg` | 316,104 | Replay with a server that may answer differently (two possible answers, two reconstructions, two statements): the journal stays what the server executed and the user saw, every statement ends though every RPC may be aborted, and a usable marker keeps the transaction. | `PhysicalMatchesJournal`, `StatementEnds`, `MarkersSurvive` |
| `SavepointNested.cfg` | 1,757,160 | Three statements, two names, a journal that fills up: SAVEPOINT by replay with automatic retry and automatic DML implements a transaction with snapshots, repeats nothing, and accounts for every byte. | `TypeOK`, `JournalExact`, `NestedSpec` |
| `Statements.cfg` | 234,137 | The course of one statement, one part per behaviour: an autocommit DML of every form with three attempts; a query that streams, fails, is aborted and is sent again; partitions read by a pool of workers; the token of a partition against clocks and sessions; output through spinner, fence, tee file and pager; two concurrent MCP calls. Each part is safe at every point of failure and cancellation, and each ends. | `TypeOK`, `AppliedOnce`, `ToldTruth`, `NoImplicitOwnerLeft`, `OutputSound`, `QuerySound`, `PartitionsSound`, `CallsSound`, `QuerySteps`, `StatementsEnd` |
| `Session.cfg` | 766,071 | The life of the program, one part per behaviour: DDL in and out of transactions and batches, its wait, its partial failure and the repair of the default sequence kind; USE, DETACH and client recreation with candidates that fail at each step; start-up from the flags to the first input and the release of what it opened. | `DdlSound`, `SwitchSound`, `StartupSound`, `SessionSteps` |
| `Tools.cfg` | 1,117,346 | The client's own work, one part per behaviour: SET, SET LOCAL, RESET and RESET ALL of five variables through transactions and batches; what a line of text is taken to mean and what completion makes of it; DUMP of every schema of three tables; proto descriptors between files, session, batch and server; the widths that each strategy gives the columns of a table. | `VariablesSound`, `LineSound`, `DumpSound`, `WidthsSound`, `SettingsSteps`, `BundleSound` |

A property of a composite run is the conjunction of the named invariants of its module, which the
module explains one by one: `OutputSound`, for example, is the type invariant with
`NoMarkAfterOutput`, `FenceBalanced`, `WriteMeansShown`, `OkMeansDelivered`, `NothingLeftRunning` and
`OneFileOpen`; `BundleSound` is `ProtoSound` with what a step may do (`ProtoSteps`); `StatementsEnd` is
the liveness of every part of its run.

**Why the bounds are enough.**
*Owners.* The code compares an owner with one remembered owner, so two identities show every
mismatch; an identity is reused once no goroutine refers to it (as with a freed pointer nobody
holds).  `OwnerLazy` has one identity, so a new owner there waits until the watchers of the last
one are gone; `OwnerExplicit` has the overlap.
*`MaxGen`.* Two generations of the idle timer: a watcher of the first, work, and the second.
*`MaxUndo`.* One LOCAL value per owner with two owners, or two in one owner, including one variable
twice (the first entry must win).
*Durations* are off or on: the code only asks whether a duration is positive; when it elapses is a
choice of the model.
*`MaxAttempt`* 2 lets a goroutine be one attempt behind; three goroutines are one running, one
cancelled and one about to start.
*`JournalLimit`* 7 with at most three statements: a marker and a queue that just fit and just do
not.  *`MaxRetries`* 1 and 2 (49 in the code): the counter is only compared with the bound.
*`Observations`* two answers: equal or not.  `SavepointReplay` has the different answers and two
reconstructions with two statements; `SavepointNested` has three statements with one answer.

*`Statements`.* `MaxAttempts` 3 (50 in the code) has a first, a middle and a last attempt, and the
safety theorems of `ImplicitDml` hold for every bound.  Two MCP calls are a running and a waiting one;
a limit of 2 and two writes of up to three bytes cover "fits", "just fits", "is cut" and "after the
cut", and `CallsSound` is proved for all values.  Two rows and a pipe of two tokens let the pager
block the writer between fence and row.  `PreviewRows` 2 and two rows: fewer, and as many, rows than a
table holds back.  Three partitions for two workers make one wait for a place.  The token's hour is 2
ticks, its minute 1, and clocks differ by up to one more than is tolerated.
*`Session`.* Two DDL statements and two operations are a first one that is applied and a second one
that is repaired; seven handles are two sessions with client, admin client and feature and one more to
leak; one schema change makes a cache old; two flags besides project, database and runtime show every
pair, and validation is about pairs.
*`Tools`.* Five variables, one for each kind of guard (transaction and batch, the tag slot, the
setter's own, a policy frozen by the owner's first use, and the idle timeout, which a read-only
transaction freezes as well; RETRY_ABORTS_INTERNALLY has the guards of TRANSACTION_TIMEOUT and one
more).  An undo log of two: two variables, or one set twice.  The whole statement table with the fillers that are themselves
words of other statements, and two completions of one line.  Three tables with up to three
dependencies: chains, cycles and an interleave pair; the case of section 5 needs four tables, so
`RestoresInOrder` is refuted by `DumpOrder.cfg` at four, where `DumpSound` holds as well.  Two files, one queued
statement and one change by another client.  Three columns and five screens, of which one is narrower
than the table's frame.

**Fairness.**
`OwnerLifetime!FairSpec`: weak fairness of the CLI goroutine inside a statement, since every RPC is
bound to the statement timeout and no handler waits for input; weak fairness of each watcher whose
context fired, since `tm.mu` is free between critical sections.  Nothing obliges the user to type,
a deadline to pass or an interval to elapse.
`Heartbeat!LiveSpec`: weak fairness of a tick and of its acquisition of `tm.mu`; strong fairness of
`Done`, since `select` picks among the ready cases at random and cannot pass one over for ever.
`SavepointOwner!LiveSpec`, `ImplicitDml!LiveSpec` and `QueryExecution!LiveSpec`: weak fairness of a
submitted statement (RPCs return, delays end); no fairness of any particular outcome, so every RPC may
be aborted each time.
`StatementOutput!LiveSpec`: weak fairness of the CLI goroutine, which is not enabled while it is
blocked in a write to the pager, and of the death of a pager whose context ended; none of the pager's
reading, nor of Ctrl+C.
`PartitionedQuery!LiveSpec`: weak fairness of submitter, consumer and each worker; none of the end of
the context.
`McpServer!McpLiveSpec`: strong fairness of entering the gate, because the Go runtime serves the
senders that wait for a channel in turn; weak fairness of the rest.  That a statement ends is the
business of its own timeouts.

Deadlock is checked in every run; a module whose program may stop has a stuttering last step that
says so (`Terminated`, `Done`, `McpIdle`, `Sent`, `Drawn`).

## 4 Proofs

`tlapm` checks every proof to its leaves.  They hold for every set of owners and goroutines, every
value of the bounds, and both AUTOCOMMIT and READONLY, under the named assumptions of the modules:
`NilAssumption` (nil is no owner), `FlagAssumption` and `SavepointsAssumption` (a flag is on or off),
`McpAssumption` (the calls of one session are finitely many), `StatementsAssumption` (a worker pool has
a worker, a token is good for some time, "none" is no database), `VarsAssumption` (no variable is called
"none", the name of a retired undo entry), `SessionAssumption` (there are handles
for a first session) and `BoundAssumption`, `AttemptAssumption`, `AttemptsAssumption`, `DdlAssumption`
(the bounds are natural numbers, the number of attempts is positive), `KindsAssumption` (a column has a
header and texts of zero or more characters, and what should not be wrapped is among its
texts), `ScreensAssumption` and `MaxColsAssumption` (a screen is a number of characters, columns are
counted), `PathsAssumption` (there may be a descriptor file), `BoundsAssumption` (bounds of
`ProtoBundle`), `CatalogAssumption` and `LimitAssumption` (tables are counted, a foreign key is a pair of
tables, and the byte limit is a number).  No assumption limits what the server, the user or a timer does.

| Module | Theorem | Property | Says |
|---|---|---|---|
| `OwnerLifetimeProofs` | `Invariance` |  | The inductive invariant: the statement frame, the undo log, the notice, the owner and every watcher in flight stay consistent in every reachable state, for every set of owners, every bound and both AUTOCOMMIT and READONLY. |
| `OwnerLifetimeProofs` | `TypeCorrect` | `TypeOK` | Every variable keeps its type. |
| `OwnerLifetimeProofs` | `MarkIsScoped` | `ExpirePendingScoped` | A deadline mark exists only inside the statement it was made in, and only for an owner whose budget is spent. |
| `OwnerLifetimeProofs` | `SetLocalOwnerStays` | `SetLocalKeepsOwner` | SET LOCAL still has its owner when it applies the value and when it pushes the undo entry, although it releases tm.mu in between. |
| `OwnerLifetimeProofs` | `NoticeComesFirst` | `NoticeBeforeWork` | No statement works while the notice of an idle expiry is unread. |
| `OwnerLifetimeProofs` | `ReplacementSpared` | `WatcherSparesReplacement` | A late watcher goroutine never ends the transaction that replaced the one it was started for. |
| `OwnerLifetimeProofs` | `IdleExpiryIsQuiet` | `IdleExpiryNeedsQuiet` | Idle expiry happens only at rest and after a whole interval without admitted work. |
| `OwnerLifetimeProofs` | `CaptureIsDurable` | `CapturesSessionValues` | An owner captures the session's durable durations, never a dead owner's LOCAL value. |
| `OwnerLifetimeProofs` | `ImplementsScope` | `LocalScopeSpec` | The owner with its undo log, restore barrier and watchers implements LocalScope: SET is durable, SET LOCAL lasts until the transaction ends, and its end brings every value back to the session's at once. |
| `HeartbeatProofs` | `Invariance` |  | The inductive invariant of the keepalive: the owner's handle and the goroutine that runs for its current attempt belong together, a backoff has an attempt and no keepalive, an owed keepalive is held; for every set of owners and goroutines and every bound. |
| `HeartbeatProofs` | `TypeCorrect` | `TypeOK` | Every variable keeps its type. |
| `HeartbeatProofs` | `NoHeartbeatLeaks` | `SoleHeartbeat` | A goroutine nobody cancelled is the one of the owner's current attempt: no path that replaces or retires an attempt leaks the previous one's. |
| `HeartbeatProofs` | `OwedKeepaliveRuns` | `KeepaliveCovered` | An owner whose keepalive is owed has a goroutine that will pass the checks of its next tick, also after ROLLBACK TO and abort retry. |
| `HeartbeatProofs` | `HeartbeatKeepsToItsAttempt` | `HeartbeatSparesReplacement` | SELECT 1 is never issued on another owner's transaction or another attempt. |
| `SavepointOwnerProofs` | `AccountsInvariant` |  | The inductive invariant of the journal's accounts: retained bytes are those of entries, markers, queue and reservations, in every state of every statement, retry, replay and recovery; what each pc says of the owner; for every bound. |
| `SavepointOwnerProofs` | `TypeCorrect` | `TypeOK` | Every variable keeps its type: no path pushes the retained bytes below zero or above the journal's limit. |
| `SavepointOwnerProofs` | `ServerInvariant` |  | Only a read-write transaction has executed anything, and it has a live attempt unless it is in recovery. |
| `SavepointOwnerProofs` | `ServerMatchesJournal` | `PhysicalMatchesJournal` | What the live physical transaction has executed and answered is what the journal would replay, after every abort, replay, rollback to a savepoint and retraction. |
| `SavepointNestedProofs` | `NumberedInvariant` |  | No statement is in journal and queue together or twice in either, and a statement still to run is in neither, although flushes are taken, released, repeated and put back. |
| `SavepointNestedProofs` | `ExactJournal` | `JournalExact` | The journal is exact: bytes, recovery's shape, and every statement once. |
| `SavepointNestedProofs` | `TokenInvariant` |  | Entry ids increase, and the token of the result being displayed names the entry that is the last one journaled. |
| `SavepointNestedProofs` | `MarkersOutlive` | `MarkersSurvive` | An explicit transaction with markers and without automatic retry outlives every failed statement, broken attempt and failed display. |
| `SavepointNestedProofs` | `ImplementsNested` | `NestedSpec` | The savepoint owner, with its batching, replays, recovery and retraction, implements the nested transaction its users are promised. |
| `SessionProofs` | `DdlInvariance` |  | The inductive invariant of DDL: a typed statement can run, or did, in one operation at most, and in none while the batch or a request still has it; what each phase of a request knows of its operation; whose changes a cache may still miss. For every number of statements and operations. |
| `SessionProofs` | `DdlIsSound` | `DdlSound` | No DDL statement takes effect twice, however requests fail, lose their answers, are cancelled or repaired, and no cache has missed a schema change when the prompt returns. |
| `SessionProofs` | `DdlStepIsSound` |  | OK means everything asked for took effect once, a failure after the Commit says that it committed, neither a transaction's work nor the batch is dropped, and a known outcome is not handed over as pending. |
| `SessionProofs` | `SessionInvariance` |  | The inductive invariants of the client session and of a run: numbers are given once and before next, the candidate of a switch owns nothing of the session it replaces, caches are of the past; what is held has a deferred call, and settings are those of the flags and the runtime. For every number of clients, versions and flags. |
| `SessionProofs` | `SwitchIsSound` | `SwitchSound` | The open clients are those of the session and its candidate, what is published is the session's identity, saved LOCAL values are the session's own, and no cached schema or completion is outdated or another session's. |
| `SessionProofs` | `StartupIsSound` | `StartupSound` | Whatever step of a run fails, nothing stays open; clients are closed before what they use and go where the flags say, RESET returns to the start, one input follows startup SQL. |
| `SessionProofs` | `StepsAreSound` | `SessionSteps` | A switch never drops a transaction or a batch, an interactive session never drops the database it is in, and DDL is told as it is. |
| `StatementsProofs` | `DmlInvariance` |  | The inductive invariant of an autocommit DML statement: until an answer says otherwise nothing took effect, the owner lives from its begin to the last attempt, partitioned DML comes last; for every bound on the attempts. |
| `StatementsProofs` | `DmlTypeCorrect` | `TypeOK` | Every variable keeps its type, so no statement begins more than MaxAttempts transactions. |
| `StatementsProofs` | `EffectIsOnce` | `AppliedOnce` | Neither the abort retry nor the fallback to partitioned DML repeats work that may be durable. |
| `StatementsProofs` | `AnswerIsTrue` | `ToldTruth` | What the user is told of the statement is what happened to it. |
| `StatementsProofs` | `OwnerIsGone` | `NoImplicitOwnerLeft` | No statement leaves its implicit owner to the next one. |
| `StatementsProofs` | `McpInvariance` |  | The inductive invariant of the MCP tool: at most one caller in the gate, the capture is what the running statement wrote or its beginning and one notice, every answer given so far honest; for every set of calls, every limit and any number of writes. |
| `StatementsProofs` | `CallsAreSound` | `CallsSound` | Concurrent calls are executed one at a time, a cancelled call never begins, only a statement reaches the session, and a successful answer says what was written. |
| `StatementsProofs` | `StatementsInvariance` |  | The inductive invariants of all parts of a statement together: DML, MCP calls, partition tokens, partitioned queries, queries with their owner's journal, and output with its sink, pager, spinner and tee file. For every number of rows, partitions, workers, retries and every capacity. |
| `StatementsProofs` | `PartitionsAreSound` | `PartitionsSound` | A partitioned query that says OK has returned every row of every partition, metadata comes before rows, nothing is left reading; a token runs its own query on its own database while it is valid. |
| `StatementsProofs` | `QueriesAreSound` | `QuerySound` | All the user sees of a query comes from one execution with its own tag, the journal has every answered query whole, no cache keeps what is not a query, and nothing stays open, however often it is aborted and retried. |
| `StatementsProofs` | `QueryStepsHold` | `QuerySteps` | A query that is told to have succeeded has shown all its rows, and a query that runs outside the owner leaves it as it was. |
| `StatementsProofs` | `OutputIsSound` | `OutputSound` | What a statement wrote reaches screen and file once and in order, fences are closed, the spinner never draws after output began, and neither pager, spinner nor an old tee file outlives it. |
| `ToolsProofs` | `VariablesInvariance` |  | The inductive invariant of the registry: the first undo entry of a name holds its value without SET LOCAL, a name without an entry has that value, and what an owner captured is what the registry says. For every set of variables and any number of SET LOCAL. |
| `ToolsProofs` | `SettingsAreSound` | `VariablesSound` | Between transactions every setting is what SET, RESET and the consumption of the tag made it, whatever SET LOCAL did; inside one the owner uses what SET LOCAL says. |
| `ToolsProofs` | `SettingsStepsHold` | `SettingsSteps` | A statement that fails changes no setting, RESET ALL not even some; what a transaction, a batch or the owner's own use guards stays. |
| `ToolsProofs` | `WidthsAreSound` | `WidthsSound` | Whatever the strategy, the widths of a drawn table are at least one, fill the line, and run over it only by a column without a header or because there are more columns than characters; what should not be wrapped is not where headers leave room, and GREEDY_FREQUENCY and PROPORTIONAL wrap nothing in a table that fits. For all columns, any number of them in a table, and every screen. |
| `ToolsProofs` | `BundleStaysSound` | `BundleSound` | The session's descriptors are the files it names, the last one's version first; a statement that fails keeps them, PULL loses and moves no type, SYNC reaches exactly the bundle it was asked for, no cached answer outlives the session's own change, and a dump that says OK brings the bundle back. For any number of files, queued statements and changes by others. |
| `DumpProofs` | `ComponentsFacts` |  | Two depth-first passes, the second over the reversed graph in the reverse order of the first, find the classes of mutual reachability of every finite graph. |
| `DumpProofs` | `DumpIsSound` | `DumpSound` | A dump that says OK holds every selected row of the snapshot once, and its script finds every parent and every target of a foreign key in front of it or in the same transaction, unless a populated table leads to an empty cycle; cycles are exported only under MUTATE, whole and within the budget; the DDL replays. For every catalog, selection, byte limit and order of statements. |

**`OwnerLifetimeProofs`.**  None of the properties is inductive alone.  `IInv` is `TypeOK` with
`FrameInv` (the two counters follow the program counter: "a marked owner is inside a statement" is
kept by `Leave` only if the depth there is the one the frame opened), `SavedInv` (a saved value is
in hand exactly between SET LOCAL's setter and its push, and there is an owner then), `NoticeInv`
(an unread notice is only found before a statement works or after it), `GoodOwner` (what the
watchers in flight imply of the owner: a mark or a deadline watcher means a spent budget; a watcher
of the current idle generation means that the interval elapsed, or that later work is remembered)
and `ScopeInv` (a mark lasts no longer than the statement, work to be timed no longer than the
hold).  One lemma per action shows that it keeps `IInv`; lemmas about `Arm`, `NoteWork`, `Rearm`,
`Retire` and `Replay` say what the helpers keep.  The action properties then follow from `CLIMoves`
(which steps are the watchers') and from `WhoInstalls` with `NothingToUndo` (an owner is installed
only where no undo log has an entry, so that the session's values are the registry's).

The refinement of `LocalScope` is a step simulation on `IInv` and `UndoInv`: a log that waits to be
replayed has no owner beside it, none waits when SET writes, and the value SET LOCAL holds in hand is
the one it will put back.  Every step of the owner, of the restore barrier and of a
watcher is one of eight kinds (`Kinded`: `Retains`, `Opens`, `Retires`, `Restores`, `Sets`,
`SetsLocal`, `TakesBack`, `Pushes`), and each kind is a step of `LocalScope` or a stutter.  The abstract
transaction ends when the log is replayed and not when the owner is retired, because the code retires
first and restores later; in between `ScopeOpen` holds although there is no owner.

**`HeartbeatProofs`.**  The invariant is a predicate on a pair (owner, goroutines): the owner's
handle and the uncancelled goroutine belong together, for the current attempt.  The lemmas for
`Stop`, `DiscardPhysical`, `Retired`, `Publish` and `Enable` say which pairs they lead to, so an
action's proof is the composition the code makes.  `BackoffShape` is needed because a backoff has
the keepalive requested but not running, `CoveredIsHeld` because "an owed keepalive runs" must
survive a statement that fails in between.

**`SavepointOwnerProofs` and `SavepointNestedProofs`.**  Five layers, each inductive relative to those
below: `AccountInv` (types and bytes: what each place knows of the owner, the reservation and the
capture in flight), `ServerInv` (the attempt's work and answers are the journal's), `NumberedInv` (no
statement is in journal and queue at once, and one still to run is in neither), `TokenInv` (entry ids
increase, and the token of the result on display names the last entry), `NameInv` (SAVEPOINT has
removed the marker it replaces).  The byte account is a sum over a sequence; that it exists, is
unique and grows by its last term is shown from a least counterexample, so the proof needs no
induction principle with an operator parameter.  A section is a composition of flush, reservation,
execution, replay and settlement, so the step relations (`Kept`, `Executes`, `Flushes`, `Marks`,
`Broken`, `Dropped`, `Commits`, `Returns`, `Retracts`) are stated on states and composed: first what
each helper leads to (`Shape`), then what each pc's step is (`StepKinds`).  From them follow that
no statement is run twice, that markers outlive failures, and `NestedSpec`: work and snapshots of the
abstract transaction are the batches of the journal and its prefixes, and each kind of step is one of
its actions or a stutter, a replay included.

**`SessionProofs`.**  *DDL.*  That a statement takes effect once is about what did happen; the reason is
about what still may.  `OnceInv` says that a statement is `Live` (done, or in an operation that runs)
in at most one place of one operation, and `RequestInv`, `BatchInv` that a statement still to be
submitted is live in none (`FreeBut`).  `RequestInv` has a clause per phase: the repair of a missing
sequence kind submits the suffix of a request again, and may because the operation's own progress proves
which statements are done (`ProvenFacts`).  `StaleInv` says whose changes a cache may still miss.
*Session and run.*  `CliInv`: numbers are given once and in order, session and candidate share no
handle, the candidate has no owner, batch or cached answer, and what a cache was filled for is not later
than what it is asked about.  `StartInv`: every resource held has a call in the stack of deferred calls, above the call of
what it uses; what ran, and what the settings are, is a matter of the step reached.  `MCSession` runs
one part, so `SessionInv` is the three invariants together, each kept by the steps of the others.

**`StatementsProofs`.**  `StatementsInv` is the invariant of six parts.
*DML* (`DmlInv`): nothing took effect until the commit is answered, nor afterwards if the error says
so; an owner exists only between its begin and the last attempt; partitioned DML is the last thing a
statement does.  *MCP* (`McpInv`): an honest answer is taken from the capture, so of the running call the
capture is all it wrote, or the first `Limit` bytes and one notice.  *Tokens* (`TokenInv`): a token is
what PARTITION made, or put together from two and then does not fit.  *Partitions* (`PartInv`): for
each worker the rows the consumer has received, the one being sent and those left are all its rows, unless
the query has given up; rows received are counted with cardinalities.  *Queries* (`QueryInv`): what each
place knows of the rows shown and held back, that an execution that may be repeated has shown nothing,
and that journal and answered queries differ by the answer on its way.  *Output* (`OutInv`): what
was written is what arrived followed by what is in the pager's pipe (`Arrived`), as long as the pager runs;
open fences are counted; the spinner's mark is alone on the screen.

**`ToolsProofs`.**  *Settings.*  `SettingsReturn` speaks of the time between transactions; inside one the invariant
says what the undo log would give back (`LeadsBack`): the first entry of a name holds its value without
SET LOCAL, a name without an entry has that value, and what later entries of a name say does not matter.
SET and RESET retire entries and keep this for every set of names (`PersistentPreserves`), SET LOCAL
appends one (`AppendLeadsBack`), and replay arrives at `base` (`ReplayArrives`).  For the step property a
variable is `Guarded` if a transaction or a batch guards it: no value new to it passes `CanSet`, it takes
no SET LOCAL, so no entry names it, and it is not the tag.  RESET ALL changes nothing or all of its names,
since what `Prepared` let pass can be committed (`PreparedCommits`).
*Widths.*  The argument is about sums of widths, which are recursive functions: the lemmas say how a sum
changes when one width does (`SumUpdate`), compare two sums term by term (`SumMono`) and bound the sum of
shares that are rounded down (`SumScale`).  `WidthsInv` says of the two loops what each turn must keep: no
width is below one, the sum is within the line plus the columns without a header, floors stand where
they fitted, and in a table that fits no width exceeds what its longest text needs, so what is left is at
least what is lacking.  `CutSum` and `FlooredSum` establish it (headers cut to the line leave it full, or
one character each); the last step of each strategy turns "at most" into "exactly".
*Descriptors.*  `ProtoInv` has the client's graph with its files, the server's bundle with what is cached
of it, and the last result.  A list of files that is loaded and a request that is run are recursive
functions as well (`LoadedUpTo`, `RunUpTo`: they exist and have the step equation, from `CountUp`).
`PathsAreLoaded` is kept by += because merging commutes with appending (`LoadedFacts`).  PULL keeps every
type in its file since neither the two graphs nor the candidate disagree about files (`Conflict`, `Valid`),
and `Loses` is what excludes that a placeholder takes its place; `ComposedFacts` is the case analysis of
the DDL that SYNC composes; `RemoteFile` says that every part of the server's answer has a type in the file
the bundle has it in, which makes a dump replay.

**`DumpProofs`.**  *Components.*  The model bounds the recursion by the number of tables; `Explores` says
that `n` levels do what the unbounded recursion does as long as no more than `n` tables are unvisited,
which one more level keeps (`VisitExplores`).  A visit marks what can be reached through unvisited tables,
and a table that leads to one that does not lead back is posted after it (`Tidy`, `Ordered`); so the second
search, backward and in the reverse order, gathers one class of mutual reachability at a time
(`SecondPass`, `ComponentsFacts`).  Of any components left one is ready (`ReadyFacts`): the error
"condensation unexpectedly contains a cycle" of `orderedSafetyComponents` cannot occur.
*Orders.*  Every table and every component is placed once, and a component after those it needs
(`OrderedFacts`).  The plain order takes a table with a prerequisite left only when all tables left have
one, and then each of them leads to a cycle (`CycleAhead`): a populated cycle was refused or made the order
that of the components, an empty one is what `LeadsToEmptyCycle` says.
*Statement.*  `DumpInv` says that what was written is the first part, and `plan` the rest, of a plan that is
`Whole`: in order, within the budget, with every selected table in one unit.  What other clients write does
not matter because `Exported` asks the snapshot.
*DDL.*  Every foreign key is inline after the CREATE of its target, or in an ALTER after all CREATEs, and
never both, which a bijection between keys and their places counts (`ReplayFacts`).
`RestoresInOrder` itself is false from four tables on (section 5), so `DumpSound` has
`RestoresUnlessStuck`: the order is right unless a populated table leads to an empty cycle.

**Only model-checked.**  Liveness (`OwnerEnds`, `KeepaliveLives`, `StatementEnds`, `StatementsEnd`),
which needs fairness and ENABLED.  `LineSound`: a proof goes by cases through
every entry of the statement table (68 definitions with their shapes, 31 completions), since no argument
shorter than the table itself says which entry a line should get.  TLC goes through those cases; it
holds the words that stand for an argument (`Fillers`) and the number of picks (`MaxPicks`) to the values of
`Tools.cfg`, so for other words and longer editing the property is not shown.  Its words are chosen to
collide with the table's own: ALL, PARAM, LOCAL and VARIABLES are keywords of other entries, and the number
and the string are what `<num>` and `<str>` ask for.

## 5 Disagreements between the code and its text

Four runs end in a counterexample; each checks one sentence of a comment or a document.

* **`OwnerAutocommitOff.cfg`** (`AutocommitOffGroups`, `transaction_manager.go:1885`).  With AUTOCOMMIT=FALSE the lazy owner check (ensureLazyAutocommitOwner) sees the live owner of earlier DML; if its TRANSACTION_TIMEOUT passes before runInNewOrExistRwTxPolicy, syncExpiredOwnerRestore retires it and the loop runs the DML as an implicit read-write transaction that commits at once. docs/system_variables.md:737 says 'Ordinary DML with `AUTOCOMMIT=false` uses the logical owner; ... cannot bypass grouping'.
* **`SavepointExhaustion.cfg`** (`ExhaustionKeepsMarkers`, `transaction_manager.go:1037`).  commitReadWritePhysicalLocked flushes the automatic queue inside CommitReadWriteTransactionLocked. When that flush exhausts the reconstruction budget, recoverExplicitAbortLocked enters recovery and returns an error that is still ABORTED; CommitReadWriteTransactionLocked offers it to recoverExplicitAbortLocked again, whose handleOwnerFailureLocked now finds an owner already in recovery and retires it, markers included (reached from the DDL auto-commit, ddl_in_transaction.go:241). docs/savepoint.md:62 says 'Partial current output or an exhausted attempt budget fall back to the existing valid-marker recovery behavior; without a marker the owner is retired.'
* **`DdlScriptBatch.cfg`** (`BatchedDdlWaits`, `statement_processing.go:669`).  buildCommands joins the consecutive DDL statements of a script into one BulkDdlStatement, whose Execute (statements.go:675) calls executeDdlStatements directly and never asks for the open batch: in a script, START BATCH DDL; CREATE ...; ABORT BATCH executes the CREATE, which a prompt would have buffered and dropped. README.md:1108 says '`START BATCH DDL` starts DDL batching. Consecutive DDL statements are batched.', README.md:1110 '... or `ABORT BATCH` aborts the batch.'
* **`DumpOrder.cfg`** (`RestoresInOrder`, `dependency_resolver.go:354`).  With an empty cycle upstream of populated tables, topologicalSort's fallback takes the smallest remaining table although it may need another one that is not written yet (tables 1 -> 2 -> 3, 3 and 4 an empty cycle: 1 is written before the populated 2 its foreign key names), so the dump's INSERTs do not replay. The comment at dependency_resolver.go:354 says 'Populated cyclic safety SCCs are rejected before the writer; this path orders empty components.', docs/cyclic_dump.md:38 'Dependencies precede the groups that need them, and dependent tables follow'.

**Observations** that the models make visible and that contradict no sentence of the repository, or
only one too vague to check:

* `fuzzyCompletionSuffix` looks for "=" only: a name picked before `+=` gets " =" inserted in front of
  it, and one completed right at the `+` swallows it: the line is SET's still, but it sets the variable
  to the rest instead of adding to it.
* A streamed query whose writer fails with an error other than ABORTED leaves its owner alive without an
  entry in the journal: a later replay does not repeat the query.
* SYNC PROTO BUNDLE statements of one batch are composed against the remote state before the batch;
  SET PROTO_DESCRIPTORS_FILE_PATH and its `+=` are not refused in a batch while SET PROTO_DESCRIPTORS is;
  with remote files that hold no complete type `composeProtoBundleDDLs` asks for DROP.
* `--mcp` starts serving before startup SQL: `--init-command` is ignored (README.md:154 says it runs
  "before other input").  Validation forbids `--endpoint` with `--host` or `--port`, not
  `--deployment-endpoint`.  Tee and output files are found to exclude each other only after the embedded
  runtime was started.  An empty `SPANNER_DATABASE_ID` in the environment overrides a configuration file.
* MARGINAL_COST looks one character ahead: a column that saves no line with its next character leaves the
  heap, also when two more would save one, so a table that fits the screen may be wrapped.  The other two
  strategies never wrap such a table (`WidthsSound`).  An unnamed column is given one character on top of
  headers that fill the line, and the table runs over the screen by it.

## 6 Plan

Done, in this order: `OwnerLifetime` with `LocalScope` (everything else happens inside an owner's
life), `Heartbeat`, `SavepointOwner` with `NestedTransaction`, `ImplicitDml`; then what surrounds an
owner: `DdlExecution`, `CliSession`, `Startup` (`MCSession`), `QueryExecution`, `StatementOutput`,
`PartitionedQuery`, `PartitionToken`, `McpServer` (`MCStatements`), `SystemVariables`,
`ClientStatements`, `DatabaseDump`, `ProtoBundle`, `ColumnWidths` (`MCTools`); and the proofs of the
safety properties of all of them but `ClientStatements`, with both refinements.

Next, most important first:

1. **Refinement** of a one-shot query specification (a query answers once, with one execution) by
   `QueryExecution`, and of "a session is one identity" by `CliSession`.
2. **Composition** of `DdlExecution` with the owner of `OwnerLifetime`: the idle expiry between the
   admission of DDL and its commit.
3. The emulator's life as a process of its own; several writers of one `StreamManager`, if the code
   comes to have them.

## 7 What is not modelled

* Wording, formatting, parsing and rendering: nothing depends on them but what is printed.  Statements
  are separated, and comments and quotes recognised, character by character (`separator.go`): the
  statement table starts from words.
* The Spanner service beyond "an RPC may succeed, be aborted, fail, or lose its answer" and, for DDL,
  an operation that applies its statements one after another; the client library's own retries; the
  emulator's container beyond "runs" and "is gone".
* Lengths of time: deadlines, intervals and backoffs pass at any moment.  Only `PartitionToken` counts
  time, because a token's validity is a difference of two clocks.
* Priorities, isolation levels and request options of an owner: data no property tells apart.  Tags are
  in `QueryExecution` and `SystemVariables`.
* In `SavepointOwner`, hashing of fingerprints (two answers are equal or not) and the RETRY policy
  changed inside a transaction (its guards are in `SystemVariables`); in `ImplicitDml`, PLAN or PROFILE of
  a DML statement; in `Heartbeat`, the retry inside the client library's `SELECT 1`; in `StatementOutput`,
  several concurrent writers, which the code does not have; in `ColumnWidths`, texts of several lines.
* In `Startup`, the value of a boolean flag: it is given when it is true, and `=false` is as if it were
  absent.  In `DatabaseDump`, a schema change during the dump: the DDL is read beside the snapshot.  In
  `ClientStatements`, what memefish parses: whether it accepts a line is open, and where it does it
  finds the kind of statement that the lexical detector finds.
* In `DdlExecution`, an operation whose acceptance was never answered is unknown to the client, so the
  caches it makes stale are not counted (they expire after 30 seconds); the Rollback
  of ALLOW_IN_EMPTY fails only for an owner that is gone or has lost its attempt, which does not happen to
  one that needs no recovery while a statement runs.
* EXPLAIN, DESCRIBE and the plan linter: pure functions of a plan that render it.  The feature plug-ins:
  calls of external services and parsing of their answers; the documentation cache holds one lock over
  each whole operation, its fetch included, so that no two of its steps interleave.  Generated enums.
* Line editing, history, prompts and key bindings, except what decides whether an error ends the loop.
* The components marked `not_modelled` in `PROJECT.json`, each with its reason.
