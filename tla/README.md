# A verification project for OmniSession

OmniSession (`omni`) finds the sessions that coding agents keep on one machine and moves work
between them: it reads every agent's own store, indexes it, shows it in a terminal picker, launches
an agent on its own session, and continues a session in *another* agent, either by writing a native
session into that agent's store or by a text handoff. Its own store is one SQLite database.

There is no server. What is concurrent is several `omni` processes over one database, each with
worker threads, next to agents that read and write the same provider stores, Ctrl+C at any time,
and processes that stop in the middle. This directory holds TLA+ modules of the parts where that
matters, TLC configurations that check them on small instances, and TLAPS proofs for every instance.
Paths in this file are relative to the repository's root; `transfer.rs`, `main.rs` and the
`*_import.rs` files are in `crates/omnis-cli/src`, "the store's `lib.rs`" is
`crates/omnis-store/src/lib.rs`, "the core's" is `crates/omnis-core/src/lib.rs`, and the adapters are
in `crates/omnis-adapters/src`.

## Inventory

| Component | State | Operations | Modelled in |
|---|---|---|---|
| Task bindings and handoffs (store `lib.rs`, RFC 006) | `tasks`, `task_selections`, `session_bindings`, `handoffs` | `start_task`, `select_task`, `bind_session`, `record_handoff_and_bind`, `record_handoff_and_advance_head`, `forget_session`, `restore_replaced_branch_head` | BranchHeads, TaskCommands |
| Commands on task branches (`main.rs`, `transfer.rs`) | what a command holds between its transactions | `omni task start`, `checkout`, `task bind`, `switch`, `resume`, deletion from the picker | TaskCommands |
| Native import lifecycle (`transfer.rs`) | import guard, rollback tag, lineage | `prepare_*_import`, `resume_via_*`, `materialize_*`, `native_import_fallback`, `RecordedLineage::undo` | NativeImport |
| Provider importers (nine kinds) | the generated session in the provider's files, database or program | materialize, verify, rollback | FileStores, IndexedStores, CommandStores (stores); CodexLog, FileLogs, DatabaseLogs, CursorLog (records) |
| Provider root lock (`provider_root.rs`) | an advisory file lock per root | `lock_exclusive`, drop | NativeImport (`lock`) |
| Interrupt guard (`interrupt.rs`) | the SIGINT disposition, two flags | `install`, `check`, `finish`, the handler | InterruptGuard; one step in NativeImport |
| Import choice (`import_choice.rs`) | the question to a person | fork, handoff, retry, cancel | NativeImport (`Answer`, `Retry`) |
| Parallel index preparation (`search_index.rs`) | a queue under a mutex, two condition variables, scoped threads | `prepare_in_order`, `close`, `CloseOnPanic` | PrepareQueue |
| Search documents, session index, bundles (store `lib.rs`, `main.rs`, `search_index.rs`) | documents, chunks, full-text index, cached listings, failure records, bundles | upsert, refresh, prune, repair, migrate, search | SearchTables, SearchStore |
| Session picker workers (`session_picker/workers.rs`) | channels, cancellation flags, the latest candidate list | list, index, search, preview | PickerState, Picker |
| Session picker interface (`session_picker.rs`, `launch_mode.rs`) | the list, selection, memo, target page | keys, filters, deletion dialog | LineageGraph, TargetPage, PickerState, Picker |
| Provider adapters (`omnis-adapters`) | listings, caches, snapshots | `list_sessions`, `find_session`, `read_session`, previews | ListingState, FileListings, DatabaseSnapshot (listing); CodexLog … CursorLog (reading) |
| Codex rollout cache (`rollout_cache.rs`) | one file replaced whole | load, lookup, store | FileListings |
| Guarded deletion (`*_delete.rs`, `main.rs`) | staged files, the provider lock | stage, verify, remove, restore, forget | FileStores, IndexedStores, GuardedDeletion |
| Canonical model (core `lib.rs`) | canonical events | `import_trajectory`, search text, handoffs, export, inspection | CanonicalEvents, Trajectory, SessionTexts |
| Self-update (`self_update.rs`) | a lock file, the binary, its copy | download, check, rename, verify, roll back | LocalFiles |
| Handoff files, exports, launch modes | published files, `launch_modes` cache | write, publish, probe | LocalFiles |
| Routing and platform gates, launches | none of their own | which target takes which route; command lines | TargetPage and the jobs of NativeImport; platform checks and command lines are not modelled |

**How they interact.** A command calls the store in transactions and works between them without a
lock: it validates a session, waits for an agent, writes a provider store. So task heads can move
between a command's read and its write. A native import touches two stores that share no
transaction: it publishes in the provider, records the lineage (handoff and, with a task binding,
the new head) in the OmniSession store, and hands both over to a launched agent; each failure has to
undo exactly what has been done. Claude, Antigravity and Cursor IDE sessions are guarded by a lock of
the provider root, held from the write to the spawn of the agent; Codex, Grok, OpenCode and Hermes
are asked through their own program, which may finish after omni has stopped. Discovery lists what
the providers have while they go on writing; refreshes, exact IDs and the verification of a deletion
all conclude from a session that it is *not* in a list. What discovery found is indexed by worker
threads and by every command that reads a session; the picker shows cached lists first and lets
threads replace them while keys are pressed.

**What is hard**, and the property that carries it (the complete list, each at its line, is
`hazards` in `PROJECT.json`):

- *Heads that move:* `HeadIsNewestRow`, `ReplacedIsPrevious`, `UndoRestoresReplacedHead`,
  `WritesAreExact`.
- *Two stores without a transaction:* `NothingLeftBeforeSecondTransfer`, `RolledBackMeansGone`,
  `LineageIsTrue`.
- *Sessions made of many files:* never shown in pieces (`ListedIsWhole`), no error that leaves
  something behind (`ErrorsAreClean`), no turn of the agent's thrown away (`NothingLost`).
- *Interrupts and locks:* `InterruptStops`, `InterruptsAreSeen`, `LockedTargetSurvives`, `EndsOrAsks`.
- *Threads:* `DistanceKept`, `NothingLost` (of the queue), `EarlyEndHasReason`, `ScopeEnds`.
- *Processes that write what they read earlier:* `NewerTextStays`, `OmissionProvesDeletion`,
  `ProtectedSurvives`, `SearchFindsOwnText`, `SearchCatchesUp`.
- *Lists that change under the reader:* `ListingIsTrue`, `AnswersAreTrue`, `CacheIsFresh`.
- *Answers that cross:* `ListIsCurrent`, `SelectionKept`, `DeletedStaysGone`, `LaunchIsAsShown`,
  `ParentsFirst`, `WorkCatchesUp`.
- *Eleven forms of one conversation:* `ReadShowsThread`, `ToolsAnswerTheirCalls`,
  `NothingLostSilently`, `ReadBackVerifies`.
- *Power loss:* `PublishedFilesAreWhole`, `PublishingIsExact`.

One hazard has no property: a panic of the index consumer (`search_index.rs:434`), after which the
scope joins workers that nobody notifies; the repository promises nothing there.

## Modules and how they correspond to the code

The map from every definition to its lines is `map` in `PROJECT.json`. Operators whose comment starts
"A mutant of" are mutations of the operator below them that a run must be able to tell from it
(`mutants`); no specification uses them.

    BranchHeads <- TaskCommands                      NativeImport
    PrepareQueue, LocalFiles, InterruptGuard         (run side by side by MCLocalWork)
    SearchTables <- SearchStore
    LineageGraph, TargetPage <- PickerState <- Picker
    CanonicalEvents <- Trajectory <- {CodexLog, FileLogs, DatabaseLogs, CursorLog, SessionTexts}
                                  <- Histories
    StoreState <- {FileStores, IndexedStores, CommandStores} <- ProviderStores (=> AtomicSessions)
    ListingState <- FileListings <- DatabaseSnapshot <- GuardedDeletion <- Listings
    ProviderStores, Listings                         (the two sides of MCProviderStores)

**BranchHeads, TaskCommands.** `BranchHeads` is the `session_bindings` table and the statements that
write it, as operators on a sequence of rows: rows are never deleted and SQLite numbers a new row
after the largest id, so a row's id is its position. `TaskCommands` runs one command per process.
Every store transaction or autocommitted read is one action; between them a process holds what it
read in `arg`, and anybody else may act. A process may stop after any action. `over` is history: for
every row the head its insertion replaced. `AdvanceRead` and `AdvanceHead` are the caller that the
documentation of `record_handoff_and_advance_head` describes; the CLI has none.

**NativeImport** follows one command per process through `prepare_*_import`, `resume_via_*` or
`materialize_*`: `pc` names the next thing the flow does, and the kind of import decides where the
nine importers differ (`Locked`, `Reports`, `Compares`, `Unreported`, `Helped`, `ForkedByImport`).
The actions run in the order of the flow, from `Prepare` and `Begin` (takes the lock, blocking) over
`Publish`, `Verify`, `RecordLineage`, `Finish` and `Launch`, or `BeginRollback`, `Remove`,
`UndoLineage`, `FallBack`, `Answer` and `Retry`; around them `CtrlC`, `Killed`, `Continue` (the agent
appends) and `Delete` (another omni, under the lock).

**StoreState, FileStores, IndexedStores, CommandStores, ProviderStores** open what is one step there:
import, rollback and deletion in one provider's store, one rename, link, removal, transaction or
message at a time. `disk` is what each name holds (nothing, what omni made, what the agent made of
it), `aside` what a staging name holds, `locals` the command's local variables, and `helper` the
provider's program with what it was asked and what it has said. Every step may fail, omni may be
killed between any two, and a helper answers late, dies, or goes on after omni was killed.
**AtomicSessions** is what they promise: to everybody who lists sessions a session is there as a
whole or not at all, unless damage is owed to somebody, and an answer is true when it is given.

**ListingState, FileListings, DatabaseSnapshot, GuardedDeletion, Listings** are the other side:
`list_sessions` of eleven kinds of stores, directory by directory and file by file, with Codex's
cached headers, Claude's memo, walk budgets and the snapshot of a SQLite database and its log while
sessions are created, moved, archived and removed; then what a refresh, an exact ID and a guarded
deletion conclude. `steady` and `seen` are history: what was there at every, and at some, moment.

**CanonicalEvents … Histories** carry one conversation through the agents: an agent writes it in its
own form (with rewinds, branches, compactions, late answers, oversized records), its adapter reads
and previews it, `import_trajectory` projects it, a writer stores it for another agent, that adapter
reads it back; `SessionTexts` makes search documents, handoffs, exports and reports of it. `thread`
is what the user sees, kept beside the code.

**SearchTables, SearchStore.** `SearchTables` has one operator per SQLite transaction, and what a
search answers from the tables; `SearchStore` runs processes that discover, index, read, export,
import, migrate and delete over them, each keeping in `job` what it listed or read.

**LineageGraph, TargetPage, PickerState, Picker.** `PickerState` has one operator per method of the
picker; `Picker` runs its loop against the threads that send cached rows, titles, lineage, listings,
search results, previews and index progress.

**PrepareQueue** is `prepare_in_order`: what a thread does while it holds the queue's mutex is one
action, a wait joins `claimable` or `prepared` in that same action, each `notify` is an action of its
own, and a condition variable may wake a thread without one. **LocalFiles** is every file omni
publishes outside a provider's store; a file is `[of, whole, durable]`, and a power loss brings back
any directory entry since the directory was last synchronised and cuts files that were not.
**InterruptGuard** has the handler's three actions as steps beside `install`, `check` and `finish`.

## The runs

`+` marks a property that is also proved for every value of the constants.

| Run | Instance | Properties |
|---|---|---|
| `task_commands` | 4 processes, 1 session before, 1 task, 2 branches, any of 7 commands | `TypeOK`+, `HeadIsNewestRow`+, `ReplacedIsPrevious`+, `WritesAreExact`+, `UndoRestoresReplacedHead`+ |
| `native_import` | one command of every kind and job with 2 attempts, or two into one locked root; fair | `TypeOK`+, `LockedTargetSurvives`+, `NothingLeftBeforeSecondTransfer`+, `RolledBackMeansGone`+, `LineageIsTrue`+, `InterruptStops`+, `EndsOrAsks` |
| `local_work` | 3 workers, 5 items, 3 ahead; 2 commands, 3 releases, 2 agent updates, 1 power loss; 3 Ctrl+C, 2 guards; fair queue | `DistanceKept`+, `NothingLost`+, `EarlyEndHasReason`+, `ScopeEnds`, `PublishedFilesAreWhole`+, `PublishingIsExact`+, `InterruptsAreSeen`+ |
| `search_store` | an old and a new binary, one session that changes once, one bundle of it; 7 meetings of two commands; fair | `SearchFindsOwnText`, `NewerTextStays`+, `OmissionProvesDeletion`+, `ProtectedSurvives`+, `SearchCatchesUp` |
| `picker` | 2 providers, 3 sessions, 2 queries, 2 agents; 9 meetings of keys and threads; fair | `ListIsCurrent`, `ParentsFirst`, `DeletedStaysGone`, `LaunchIsAsShown`, `SelectionKept`, `WorkCatchesUp` |
| `histories` | conversations of 11 kinds, up to 4 entries, 1 rewind, 2 transfers | `ReadShowsThread`, `ToolsAnswerTheirCalls`, `NothingLostSilently`, `ReadBackVerifies` |
| `provider_stores` | writing: 9 kinds, 4 commands; looking: 11 kinds, 2 readers, 1 or 2 changes | `ErrorsAreClean`+, `ListedIsWhole`+, `NothingLost`+; `CacheIsFresh`+, `AnswersAreTrue`, `ListingIsTrue`+ |
| `task_undo`, `task_moved`, `native_import_handoff`, `native_import_writer`, `codex_deletion` | the smallest instances that show it | one documented promise each, violated (see the findings) |

**Why the bounds are enough.**

- *TaskCommands:* four processes set up a branch, read it, move it and undo it while a second branch
  holds the same session; tasks are independent, so one suffices. One command per process.
- *NativeImport:* targets of kinds without a lock are never touched by another command, so one
  process covers them; two commands meet at one locked root; two attempts show a retry after every
  failure. `MaxAttempts` bounds retries. Initial states that are equal up to the names of the two
  commands are taken once (`AloneOrTogether`).
- *PrepareQueue:* five items over a distance of three fill it, make workers wait, wrap around and end.
  The code allows two items per worker; 3 workers, 8 items, 6 ahead hold the same.
- *LocalFiles:* two commands that race for one path, a release that does not run, an update and a
  second one, one power loss, a cache of one entry. *InterruptGuard:* three presses over two guards.
- *SearchStore:* conflicts are between two writers of one row, so the commands meet in pairs
  (`Meetings`); two versions give upgrade and downgrade; one change makes "newer" and "older"; three
  chunk ids let one be freed, damaged and used again; a page of two rows makes a search ask again.
- *Picker:* nine meetings of those keys and threads that touch the same state; three sessions need
  more rows and previews than the screen and the cache have.
- *Histories:* four entries hold a turn, a call with its answer and an answer that comes late (three
  where a call and its result are one entry); one rewind and two transfers show what a second reading
  makes of a first writing; limits are chosen so that some conversations fit and others are cut.
- *ProviderStores:* four commands, for example import, rollback that fails, deletion, retry of that
  deletion. *Listings:* two sessions (`Ids`), two changes where a mistake takes two, two processes for
  Codex's shared cache, budgets of one file and of enough.

`CHECK_DEADLOCK FALSE` everywhere: commands end, and a process may stop for good.

**Fairness.** TaskCommands, Histories, ProviderStores, Listings, LocalFiles and InterruptGuard have
none: any process may stop for ever, and only safety is claimed.
NativeImport assumes weak fairness of `Begin` and of the steps omni takes by itself (`Advance`): the
code waits for nothing between them but the blocking `lock_exclusive` of `Begin` (the kernel gives a
free lock to somebody) and a person's answer, which is not fair. Failures, Ctrl+C, kills, deletion
and continuation are not fair either. PrepareQueue assumes weak fairness of the consumer and of each
worker: a thread that does not wait runs on; panics, stops and spurious wake-ups need not happen.
SearchStore assumes that a command goes on, that the migration every command begins with
(`main.rs`, `run`) is run again and again, and that the user of the newest binary goes on using it:
the last is an assumption about people, and `SearchCatchesUp` says what it gives. The picker's
threads run, its loop turns, and a delay ends if it is not started again for ever.

## What is proved

For every value of the constants, from their named assumptions (`ASSUME` in the modules; TLC
evaluates each in a run), TLAPS checks, with what each says in `theorems` of `PROJECT.json`:

| Module | Theorems (the property of a run each states) |
|---|---|
| TaskCommands_proofs | `TypeCorrect`, `HeadsAreNewest`, `OneHead`, `ReplacedIsLatest`, `UndoRestores` (`UndoRestoresReplacedHead`), `WritesExactly` (`WritesAreExact`) |
| NativeImport_proofs | `ImportTypeCorrect`, `LockProtects` (`LockedTargetSurvives`), `OneTransfer` (`NothingLeftBeforeSecondTransfer`), `RollbackComplete` (`RolledBackMeansGone`), `InterruptIsFinal` (`InterruptStops`), `LineageAgrees` (`LineageIsTrue`) |
| LocalWork_proofs | `QueueTypeCorrect`, `DistanceIsKept`, `ClaimsAreKept` (`NothingLost`), `EarlyEndIsExplained`; `NoInterruptIsSwallowed` (`InterruptsAreSeen`); `NothingPartialIsPublished` (`PublishedFilesAreWhole`), `UpdatesKeepTheirs` (`PublishingIsExact`) |
| SearchStore_proofs | `NewerTextsStay` (`NewerTextStays`), `ProtectionHolds` (`ProtectedSurvives`), `OmissionsAreProofs` (`OmissionProvesDeletion`) |
| Listings_proofs | `HeadersStayFresh` (`CacheIsFresh`), `OnlyTheMissingLeave` (`ListingIsTrue`) |
| FileStores_proofs, IndexedStores_proofs, ProviderStores_proofs | `StoresInvariant`, `FailuresAreClean` (`ErrorsAreClean`), `TurnsAreKept` (`NothingLost`), `StoresAreAtomic` (`ListedIsWhole`: the refinement of AtomicSessions) |

**TaskCommands.** The invariant is `TypeOK`, `HeadIsNewestRow` and `ReplacedIsPrevious` together.
Lemmas state what each table statement returns (`DeactivatedRows`, `ReplacedRows`, `RestoredRows`)
and preserves; `RowSteps` shows that every action changes the rows by one of them or not at all, so
the invariant is proved once per kind of change. A head being its branch's newest row is what makes
the search of an undo find the replaced one. For `WritesExactly` a second invariant, `ReadIsKept`,
says that what a compare-and-swap has read was in the table then, and the table is only extended.

**NativeImport.** The properties are not inductive alone. The invariant adds, per process, `LockRule`
(a locked kind holds its root's lock from the write on, and its target is there until a rollback),
`GuardRule` (the guard is down and its request unset wherever something could start), `UndoRule` (a
target is recorded only where the flow knows it, and what an undo follows is gone), `LineageRule` and
`CleanRule` (an error without the tag left nothing, except for the kinds of `Unreported`). Each rule
has its step lemma; a step of one process disturbs another only through the lock and a deletion.

**PrepareQueue.** `LoopRule` ties the consumer's position to the queue's, `OwnerRule` says one worker
prepares one item that is not ready yet, `ClosedRule` says why the queue is closed.

**InterruptGuard.** `ArmedRule`: the default action is put off only while the command works under a
guard, and a guard is put up only after every press that met an earlier one; `AnswerRule`: a press
that restored the default action leaves it restored, and one that was answered has left its request.

**LocalFiles.** `NamedRule` says what a path may name, now and after a power loss; `Stands(p)` says
for each process what the step it is at relies on: an update that its new file is whole, ran and is
synchronised before the rename, and that the copy it would restore is what was there; a document that
its file is whole before it is linked; a probe that what it read was installed since it began. A step
of one process leaves the rules of the others alone (`OthersStand`) unless it publishes, which the
lock of the update allows one process at a time; `LossStep` is the power loss.

**SearchStore.** `NewerTextStays` and `ProtectedSurvives` follow from each transaction, whatever a
process hands it: `Upserted`, `Removed`, `Pruned`, `Marked`, `Opened` and `Saved` say what the
statements do to documents, `TransactionKeeps` combines them and `CommandTables` shows that every
action is one of them. `OmissionProvesDeletion` needs what a process remembers: `ListingRule` says
that what a complete listing omits of the sessions known when it was taken is gone for good, and
`SessionRule` that a session omni is about to forget was deleted from its provider first.

**ProviderStores.** The invariant is `Typed`, `Common` (how a command ended agrees with whether the
session is listed) and, per kind of store, which combinations of places and steps occur: `ClaudeInv`,
`PiInv`, `CursorInv`, `AntigravityInv`, `IdeInv` and, for the four kinds left to their program,
`HelperInv` (which requests and answers are on their way at each step). Six lemmas per kind: the
store's types, the locals, `Common`, the kind's own rule under its own commands, what a step does to
turns the agent wrote, and what everybody else (the agent, kills, new commands) does to the rule.
`AnswersAgree` and `OwedDamage` are what the refinement needs beyond the invariant: every action maps
to a step of AtomicSessions or a stutter, an answer is true at the moment it is given, and a session
is in pieces only where `Owed` says so.

**Listings.** `CodexInv`: every header that a process took from the file of headers, or will save in it,
is of a file whose stamp was no newer than the entry's when it was read, and if the stamp is still the
same, is what the entry's build reads in it (`Fit`); the saved file names the build whose headers it
holds; and a process that is about to read a file has a stamp that is not newer than the file. The
files only grow: whatever changes a header also changes the stamp (`Grow`), which is proved of every
step of Codex, its user and omni. One lemma per step then shows where the process stands.

`ListingIsTrue` needs more of a process than it decides with; its invariant `ListingInv` adds to
`CodexInv`:

- `WatchRule`: a process decides only what its listing was for, and whatever was there at every moment
  since it began is there now (`steady`). The changes of others make it smaller, never larger.
- `CoverInv`: a rollout that was there all the time is in what Codex' walk has found, or in a directory
  the walk has still to read, or something was noted, which makes the listing incomplete. A rollout may
  move to the archive meanwhile, since the archive is read last (`ChangeSettles`); one that comes back
  from it is the exception `Back` names.
- `HermesInv`: the pages of the database only grow newer (`PagesAgree`, `Newer`: frames are in order,
  and a page is older than its frames or is one of them); so if two looks at the pages and the log
  agree, what the copy shows was committed when the log was read first (`ReadsAgree`, `CopyIsTrue`). A
  snapshot, its reuse while the stamps agree and the list made from it show one of the `moments`.
- `DeleteRule`: only providers that can delete are asked to. Where one is, a session that an exact read
  does not find is not there (`UnreadableIs`).

`RefreshLeaves` and `ReadBackLeaves` conclude from these what each step that removes a row may remove;
`OthersStay` says that no other step removes one.

The invariants were checked by TLC on the runs' instances before they were proved.

**Only model-checked**, and why:

- Liveness under fairness (`EndsOrAsks`, `ScopeEnds`, `SearchCatchesUp`, `WorkCatchesUp`): the
  provers take neither fairness nor `ENABLED`.
- `ReadShowsThread`, `ToolsAnswerTheirCalls`, `NothingLostSilently`, `ReadBackVerifies`: what folds
  and recursive functions make of a whole conversation needs induction over data, whose theorems take
  an operator as a parameter that no installed prover instantiates.
- `SearchFindsOwnText`: row ids are chosen by SQLite (`CHOOSE`) and pages are sorted and folded.
- `AnswersAreTrue` (Listings) and the properties of Picker (`ListIsCurrent`,
  `ParentsFirst`, `DeletedStaysGone`, `LaunchIsAsShown`, `SelectionKept`) are safety properties that
  have not been proved yet; `ParentsFirst` depends on the recursion through the forest of
  continuations and will stay with TLC.

## What the checks found

Details with the quoted lines are in `findings` of `PROJECT.json`.

1. The store documents that an undo makes the head *the binding replaced* the head again. It binds
   the last earlier row. If the branch had no head when the session was bound (its head had been
   forgotten), the undo revives that forgotten one.
2. The store documents that commands which read a head, work and advance it never replace a moved
   head. `record_handoff_and_advance_head` keeps that promise, but no command uses it: `task bind`,
   `switch` and forks replace whatever the head is by then.
3. A rollback failure is typed so that no fallback launches beside a generated session. Errors that
   no rollback preceded are not: a helper that stored the session and then failed or timed out is
   followed by a handoff.
4. A locked writer is said to roll back before every error. Writing progress on standard error can
   fail after publication, and that error leaves the session.
5. A guarded deletion is verified by listing again. The Codex adapter answers from its first listing
   (`OnceLock`), so the verification never succeeds and the session is never forgotten.

Seen while modelling, and outside what the runs assert (each is an exception the properties name, or
an input the models leave out):

- `HeadTailText::push` (core `lib.rs:1130`): a multibyte character that does not fit into the head of
  a search document goes to its tail while the bytes after it still fill the head, so the text is out
  of order (`SearchTextIsHonest` exempts one byte).
- `SnapshotStamp` (`support.rs:506`) reads the database's metadata before the log's: a checkpoint and
  a close between the two make an older copy look current, so Hermes may answer "not removed".
- Codex's import gives `thread/read` and `thread/delete` one request id: a late answer to the reading
  counts as the confirmation of the deletion.
- Claude's restoration looks for a recreated transcript and then renames over it; Pi and Cursor CLI
  compare and then remove by path; Codex and OpenCode roll back without comparing. A turn written in
  between is lost.
- An Antigravity deletion killed between staging and commit leaves a listed row without a
  conversation; the retry skips it, and later deletions stop at the staging path.
- A Pi preview takes the last entry of the head as the leaf if one oversized record fills the whole
  tail, and then shows messages that were compacted away or of a branch left (`HidesLeaf`).
- A compact handoff asks to continue "from the latest user request" but shows the first three and the
  last two messages; that request can be among those left out (which it reports).
- RFC 004 (`docs/rfcs/004-transfer-modes.md:15`) says a failed write stops after the exact rollback.
  The code, and the diagram in `docs/ARCHITECTURE.md`, fall back to a handoff; the model follows them.

## Limits

- *TaskCommands:* one workspace; modes and fidelity of a handoff are dropped; a provider read may
  fail at any time; reading the source and publishing the import is one step.
- *NativeImport:* publishing, comparing and removing are one step each (ProviderStores opens them), and
  so is the delivery of Ctrl+C (InterruptGuard opens it). A native fork ends the model and goes on in
  TaskCommands.
- *Stores:* one session per store; another session's deletion is the sweep it does. SQLite commits are
  atomic, staging names random. Antigravity and Cursor IDE are not opened after omni's check that they
  are closed. A killed command's helper ends before the next command. The programs of Codex, Grok,
  OpenCode and Hermes answer or not; version probes and wire formats are left out.
- *Listings:* timestamps distinguish writes; only Hermes' snapshot is modelled in detail; the walk of
  one process is interrupted by the provider, not by another omni, except for Codex's cache; a rollout
  unarchived during the walk is excluded (`Back`). Candidates for native forks are not modelled.
- *Histories:* identity of texts only; images, attachments, reasoning and plans are left out; one
  oversized record; Pi's branches are not combined with compaction; inconsistent stores fail to read
  and are not modelled. Cursor's previews and omission counts are exempt from the exact count
  (`TellsOmissions`). Previews of databases are read whole.
- *SearchStore:* one chunk per document; a text is the time of its source and whether all was read;
  a source becomes readable again only with a new time; a complete listing shows what is there, which
  Listings is about.
- *Picker:* previews count as whole text (Histories has the cut ones); scores are equal in a text
  search; times are distinct; the release check and warnings are left out.
- *LocalFiles:* contents are names; bundles' redaction is left out. Only a self-update synchronises
  its directory, so an export that succeeded may vanish in a power loss, but is never partial. A
  handoff file has its name while it is written: a killed omni leaves a partial one it never named.
- *InterruptGuard:* Unix. A Ctrl+C whose handler passed its check before `finish` and runs on another
  thread may be lost; the documented promise speaks of later ones.
- *Not modelled:* command lines and profiles of launches, discovery of binaries, version gates, path
  checks and permissions of private stores, redaction, workspace capture and git, fuzzy matching,
  themes and drawing, the clipboard, platform gates other than one platform's.

## Plan

1. Proofs: `AnswersAreTrue` (Listings) from `ListingInv` and the walks of the other stores, then
   `DeletedStaysGone`, `LaunchIsAsShown` and `ListIsCurrent` (Picker), each with its inductive
   invariant.
2. Lemmas about `SearchTables` that would carry the half of `SearchFindsOwnText` that is about tables
   (`TextsAreIndexed`).
3. Modelling: several chunks per document, the candidates of a native fork, routing as a table of pure
   operators checked against the documented matrix.
