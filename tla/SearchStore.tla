----------------------------- MODULE SearchStore -----------------------------
(***************************************************************************)
(* Processes that keep the search index up to date while provider sessions *)
(* change: discovery (discover_sessions of main.rs, the picker's provider  *)
(* threads), indexing passes (index_candidates of search_index.rs), reads  *)
(* that index what they read (read_session_indexed, the picker's previews),*)
(* imports and exports of bundles, and deletions.                          *)
(*                                                                         *)
(* A process listens to nobody between two of its transactions, so what it *)
(* listed, compared or read may be old when it writes.                     *)
(***************************************************************************)
EXTENDS SearchTables

CONSTANTS
  Procs,      \* processes and threads with a store connection of their own
  VersionOf,  \* the search document version each was built with
  BundleTime, \* the time of the snapshot in every bundle
  Scenarios   \* which commands each process runs, and what may fail meanwhile

Commands == {"discover", "index", "open", "import", "delete"}
Faults == {"busy", "crash", "damage", "unreadable", "legacy"}

ASSUME ProcsAssumption == VersionOf \in [Procs -> Versions] /\ BundleTime \in Time
ASSUME ScenariosAssumption ==
  Scenarios \subseteq [runs : [Procs -> SUBSET Commands], faults : SUBSET Faults]

VARIABLES
  source,    \* each native session as its provider keeps it
  failures,  \* trajectory_index_failures
  pc,
  job,       \* what a process remembers of its command
  calm,      \* nothing outside changes and no read or write fails any more
  scenario

vars == <<tables, source, failures, pc, job, calm, scenario>>

NoFailure == [time |-> 0, version |-> 0]

Unborn == [at |-> "unborn", time |-> 0, readable |-> FALSE]

Gone == [at |-> "gone", time |-> 0, readable |-> FALSE]

NoJob ==
  [listing |-> [s \in Native |-> 0], known |-> {}, complete |-> FALSE, todo |-> {},
   failed |-> {}, batch |-> {}, session |-> CHOOSE s \in Session : TRUE, time |-> 0,
   whole |-> FALSE]

Steps == {"idle", "listed", "unchanged", "write", "pending", "index", "singles",
          "opened", "store", "saved", "rowed", "deleted"}

TypeOK ==
  /\ TablesTypeOK
  /\ source \in [Native -> [at : {"unborn", "there", "gone"}, time : 0 .. MaxTime,
                            readable : BOOLEAN]]
  /\ failures \in [Session -> [time : 0 .. MaxTime, version : Versions \cup {0}]]
  /\ pc \in [Procs -> Steps] /\ calm \in BOOLEAN /\ scenario \in Scenarios
  /\ job \in [Procs -> [listing : [Native -> 0 .. MaxTime], known : SUBSET Native,
                        complete : BOOLEAN, todo : SUBSET Session, failed : SUBSET Session,
                        batch : SUBSET [session : Session, time : Time],
                        session : Session, time : 0 .. MaxTime, whole : BOOLEAN]]

\* A store that a binary wrote before documents had versions, chunks and a coverage.
LegacyTables ==
  /\ rows \in [Session -> {0, 1}] /\ \A b \in Bundles : rows[b] = 0
  /\ \E of \in SUBSET {s \in Native : rows[s] = 1} :
       docs = [s \in Session |-> IF s \in of THEN [NoDoc EXCEPT !.time = 1, !.whole = TRUE]
                                 ELSE NoDoc]
  /\ bundles \in SUBSET Bundles
  /\ refreshed = FALSE /\ chunks = {} /\ fts = {} /\ repairs = FALSE

Init ==
  /\ scenario \in Scenarios
  /\ IF "legacy" \in scenario.faults THEN LegacyTables ELSE InitTables
  /\ source = [s \in Native |->
                 IF rows[s] = 0 THEN Unborn
                 ELSE [at |-> "there", time |-> rows[s], readable |-> TRUE]]
  /\ failures = [s \in Session |-> NoFailure]
  /\ pc = [p \in Procs |-> "idle"] /\ job = [p \in Procs |-> NoJob] /\ calm = FALSE

Goto(p, here, there) == pc[p] = here /\ pc' = [pc EXCEPT ![p] = there]

Ends(p, here) == Goto(p, here, "idle") /\ job' = [job EXCEPT ![p] = NoJob]

Outside == <<source, calm, scenario>>

Runs(p, command) == command \in scenario.runs[p]

MayFail(fault) == ~calm /\ fault \in scenario.faults

There(s) == source[s].at = "there"

\* Reading an imported session loads its bundle from the store.
Readable(s) == IF s \in Bundles THEN s \in bundles ELSE There(s) /\ source[s].readable

SourceTime(s) == IF s \in Bundles THEN BundleTime ELSE source[s].time

NewDoc(p, time, whole) ==
  [version |-> VersionOf[p], time |-> time, whole |-> whole, protected |-> FALSE]

-----------------------------------------------------------------------------
(* Providers *)

\* A provider writes a session: a new one, or one that exists.
SourceWritten(s) ==
  /\ ~calm /\ source[s].at # "gone" /\ source[s].time < MaxTime
  /\ \E r \in {TRUE, "unreadable" \notin scenario.faults} :
       source' = [source EXCEPT ![s] =
                    [at |-> "there", time |-> source[s].time + 1, readable |-> r]]
  /\ UNCHANGED <<tables, failures, pc, job, calm, scenario>>

SourceDeleted(s) ==
  /\ ~calm /\ There(s)
  /\ source' = [source EXCEPT ![s] = Gone]
  /\ UNCHANGED <<tables, failures, pc, job, calm, scenario>>

Damage ==
  /\ MayFail("damage") /\ \E c \in chunks : DamageChunk(c)
  /\ UNCHANGED <<Outside, failures, pc, job>>

\* The process is killed: what it had committed stays.
Crash(p) ==
  /\ MayFail("crash") /\ pc[p] # "idle"
  /\ pc' = [pc EXCEPT ![p] = "idle"] /\ job' = [job EXCEPT ![p] = NoJob]
  /\ UNCHANGED <<tables, Outside, failures>>

Calm == ~calm /\ calm' = TRUE /\ UNCHANGED <<tables, source, failures, pc, job, scenario>>

-----------------------------------------------------------------------------
(* Discovery and its cached metadata *)

\* The listing is complete without a project filter and without notes of the adapter.
Discover(p, complete, shown) ==
  /\ Runs(p, "index") \/ Runs(p, "discover")
  /\ complete => shown = Native
  /\ Goto(p, "idle", "listed")
  /\ job' = [job EXCEPT ![p] =
               [NoJob EXCEPT !.complete = complete,
                  !.listing = [s \in Native |->
                                 IF There(s) /\ s \in shown THEN source[s].time ELSE 0],
                  !.known = {s \in Native : source[s].at # "unborn"}]]
  /\ OpenStore /\ UNCHANGED <<Outside, failures>>

\* provider_index_matches reads outside any transaction.
Compare(p) ==
  /\ Goto(p, "listed",
          IF job[p].complete /\ IndexMatches(job[p].listing) THEN "unchanged" ELSE "write")
  /\ UNCHANGED <<tables, Outside, failures, job>>

\* Afterwards `omni index` and `omni search` bring the documents up to date.
Listed(p, here) ==
  IF Runs(p, "index")
    THEN /\ Goto(p, here, "pending")
         /\ job' = [job EXCEPT ![p] = [NoJob EXCEPT !.listing = job[p].listing]]
    ELSE Ends(p, here)

WriteListing(p) ==
  /\ Listed(p, "write")
  /\ IF job[p].complete THEN ReplaceIndexed(job[p].listing) ELSE MergeIndexed(job[p].listing)
  /\ UNCHANGED <<Outside, failures>>

WriteUnchanged(p) ==
  Listed(p, "unchanged") /\ RecordUnchanged /\ UNCHANGED <<Outside, failures>>

\* A store that stays busy costs a warning.
WriteListingFails(p) ==
  /\ MayFail("busy")
  /\ Listed(p, "write") \/ Listed(p, "unchanged")
  /\ UNCHANGED <<tables, Outside, failures>>

-----------------------------------------------------------------------------
(* An indexing pass *)

\* The sessions of the listing, and the imported ones of the store.
Candidates(p) ==
  {s \in Native : job[p].listing[s] # 0} \cup {b \in Bundles : rows[b] # 0}

CandidateTime(p, s) == IF s \in Bundles THEN rows[s] ELSE job[p].listing[s]

\* `omni search --cached` asks no provider.
CachedSessions == {s \in Session : rows[s] # 0}

\* trajectory_index_states: the documents there are, with their version, time and coverage.
Documented == {s \in Session : docs[s] # NoDoc}

\* A mutant of NeedsIndex: whether the whole source was read is not looked at.
NeedsIndexByTime(p, s) ==
  \/ s \notin Documented
  \/ docs[s].version < VersionOf[p]
  \/ CandidateTime(p, s) > docs[s].time

NeedsIndex(p, s) ==
  \/ s \notin Documented
  \/ docs[s].version < VersionOf[p]
  \/ CandidateTime(p, s) > docs[s].time
  \/ ~docs[s].whole

\* A mutant of FailureIsCurrent: a failure is recorded for good.
FailureIsFinal(p, s) ==
  failures[s] # NoFailure /\ failures[s].version >= VersionOf[p]

FailureIsCurrent(p, s) ==
  /\ failures[s] # NoFailure /\ failures[s].version >= VersionOf[p]
  /\ CandidateTime(p, s) <= failures[s].time

RecordedFailures == {s \in Session : failures[s] # NoFailure}

\* `omni index --retry-failed` reads the sessions again that failed before.
Pending(p) ==
  /\ Goto(p, "pending", "index")
  /\ \E retry \in BOOLEAN :
       job' = [job EXCEPT ![p] =
                 [job[p] EXCEPT
                    !.todo = {s \in Candidates(p) :
                                NeedsIndex(p, s) /\ (retry \/ ~FailureIsCurrent(p, s))},
                    !.failed = RecordedFailures]]
  /\ UNCHANGED <<tables, Outside, failures>>

Prepare(p, s) ==
  /\ pc[p] = "index" /\ s \in job[p].todo /\ Readable(s)
  /\ failures' = IF s \in job[p].failed THEN [failures EXCEPT ![s] = NoFailure] ELSE failures
  /\ LET read == [session |-> s, time |-> SourceTime(s)]
     IN job' = [job EXCEPT ![p] = [job[p] EXCEPT !.todo = job[p].todo \ {s},
                                                 !.batch = job[p].batch \cup {read}]]
  /\ UNCHANGED <<tables, Outside, pc>>

\* With the time discovery saw.
RecordFailure(p, s) ==
  failures' = [failures EXCEPT ![s] = [time |-> CandidateTime(p, s), version |-> VersionOf[p]]]

\* Only a failure that would repeat itself is recorded.
PrepareFails(p, s, retryable) ==
  /\ pc[p] = "index" /\ s \in job[p].todo
  /\ IF retryable THEN MayFail("busy") ELSE ~Readable(s)
  /\ IF retryable THEN UNCHANGED failures ELSE RecordFailure(p, s)
  /\ job' = [job EXCEPT ![p].todo = @ \ {s}]
  /\ UNCHANGED <<tables, Outside, pc>>

\* Ctrl+C, the end of the picker or a newer list of candidates.
StopPass(p) ==
  /\ MayFail("crash") /\ pc[p] = "index" /\ job[p].todo # {}
  /\ job' = [job EXCEPT ![p].todo = {}]
  /\ UNCHANGED <<tables, Outside, failures, pc>>

Written(p, part) ==
  [s \in {w.session : w \in part} |->
     NewDoc(p, (CHOOSE w \in part : w.session = s).time, TRUE)]

\* A batch is full, or 250 ms have passed, or the pass is over.
FlushBatch(p) ==
  /\ pc[p] = "index" /\ job[p].batch # {}
  /\ UpsertDocuments(Written(p, job[p].batch))
  /\ job' = [job EXCEPT ![p].batch = {}]
  /\ UNCHANGED <<Outside, failures, pc>>

FlushFails(p) ==
  /\ MayFail("busy") /\ job[p].batch # {} /\ Goto(p, "index", "singles")
  /\ UNCHANGED <<tables, Outside, failures, job>>

\* A batch that could not be written is written one document at a time.
FlushOne(p) ==
  \E w \in job[p].batch :
    /\ Goto(p, "singles", IF job[p].batch = {w} THEN "index" ELSE "singles")
    /\ \/ UpsertDocuments(Written(p, {w}))
       \/ MayFail("busy") /\ UNCHANGED tables
    /\ job' = [job EXCEPT ![p].batch = @ \ {w}]
    /\ UNCHANGED <<Outside, failures>>

PassEnds(p) ==
  /\ job[p].todo = {} /\ job[p].batch = {} /\ Ends(p, "index")
  /\ UNCHANGED <<tables, Outside, failures>>

-----------------------------------------------------------------------------
(* One session: read, previewed, imported, exported or deleted *)

\* A preview reads a part of a native session, and all of an imported one.
ReadSession(p, s, preview) ==
  /\ Runs(p, "open") /\ Readable(s)
  /\ Goto(p, "idle", IF preview THEN "store" ELSE "opened")
  /\ job' = [job EXCEPT ![p] = [NoJob EXCEPT !.session = s, !.time = SourceTime(s),
                                             !.whole = ~preview \/ s \in Bundles]]
  /\ OpenStore /\ UNCHANGED <<Outside, failures>>

\* session_trajectory_source_is_current, in a transaction of its own.
CheckCurrent(p) ==
  LET doc == docs[job[p].session]
  IN /\ IF doc # NoDoc /\ doc.whole /\ doc.time >= job[p].time
          THEN Ends(p, "opened")
          ELSE Goto(p, "opened", "store") /\ UNCHANGED job
     /\ UNCHANGED <<tables, Outside, failures>>

StoreDocument(p) ==
  /\ Ends(p, "store")
  /\ \/ UpsertDocuments([s \in {job[p].session} |-> NewDoc(p, job[p].time, job[p].whole)])
     \/ MayFail("busy") /\ UNCHANGED tables
  /\ UNCHANGED <<Outside, failures>>

\* `omni import` and `omni export`; a bundle that is there already is the same one.
SaveNewBundle(p, b) ==
  /\ Runs(p, "import") /\ Goto(p, "idle", "saved") /\ SaveBundle(b)
  /\ job' = [job EXCEPT ![p] = [NoJob EXCEPT !.session = b]]
  /\ UNCHANGED <<Outside, failures>>

\* migrate_imported_bundle_sources, at the start of every command.
Migrate(p, b) ==
  /\ b \in MissingImportedSource /\ Goto(p, "idle", "saved") /\ OpenStore
  /\ job' = [job EXCEPT ![p] = [NoJob EXCEPT !.session = b]]
  /\ UNCHANGED <<Outside, failures>>

IndexBundleRow(p) ==
  /\ Goto(p, "saved", "rowed") /\ UpsertIndexed(job[p].session, BundleTime)
  /\ UNCHANGED <<Outside, failures, job>>

IndexBundleText(p) ==
  /\ Ends(p, "rowed")
  /\ UpsertDocuments([s \in {job[p].session} |-> NewDoc(p, BundleTime, TRUE)])
  /\ UNCHANGED <<Outside, failures>>

\* delete_native_session: the provider's session first, then what the store knows of it.
DeleteSource(p, s) ==
  /\ Runs(p, "delete") /\ ~calm /\ There(s) /\ Goto(p, "idle", "deleted")
  /\ source' = [source EXCEPT ![s] = Gone]
  /\ job' = [job EXCEPT ![p] = [NoJob EXCEPT !.session = s]]
  /\ OpenStore /\ UNCHANGED <<failures, calm, scenario>>

Forget(p) ==
  Ends(p, "deleted") /\ ForgetSession(job[p].session) /\ UNCHANGED <<Outside, failures>>

-----------------------------------------------------------------------------

Continue(p) ==
  \/ Compare(p) \/ WriteListing(p) \/ WriteUnchanged(p) \/ WriteListingFails(p)
  \/ Pending(p) \/ FlushBatch(p) \/ FlushFails(p) \/ FlushOne(p) \/ PassEnds(p)
  \/ \E s \in Session :
       Prepare(p, s) \/ \E retryable \in BOOLEAN : PrepareFails(p, s, retryable)
  \/ CheckCurrent(p) \/ StoreDocument(p)
  \/ IndexBundleRow(p) \/ IndexBundleText(p) \/ Forget(p)

DiscoverAll(p) == Discover(p, TRUE, Native)

Start(p) ==
  \/ \E complete \in BOOLEAN, shown \in SUBSET Native : Discover(p, complete, shown)
  \/ \E s \in Session, preview \in BOOLEAN : ReadSession(p, s, preview)
  \/ \E b \in Bundles : SaveNewBundle(p, b) \/ Migrate(p, b)
  \/ \E s \in Native : DeleteSource(p, s)

Next ==
  \/ \E p \in Procs : Continue(p) \/ Start(p) \/ StopPass(p) \/ Crash(p)
  \/ \E s \in Native : SourceWritten(s) \/ SourceDeleted(s)
  \/ Damage \/ Calm

\* Commands go on, and the commands of the newest binary are run again and again.
Fairness ==
  /\ \A p \in Procs : WF_vars(Continue(p))
  /\ \A p \in Procs, b \in Bundles : SF_vars(Migrate(p, b))
  /\ \A p \in Procs : (\A v \in Versions : v <= VersionOf[p]) => SF_vars(DiscoverAll(p))

Spec == Init /\ [][Next]_vars /\ Fairness

-----------------------------------------------------------------------------
(* Properties *)

\* The chunks and the index agree with the documents, apart from those of a store that
\* no process has opened since it was written by an older program.
TextsAreIndexed ==
  /\ \A s \in Session :
       LET own == ChunksOf({s})
       IN IF docs[s] = NoDoc \/ (docs[s].version = 0 /\ own = {}) THEN own = {}
          ELSE Cardinality(own) = 1 /\ \A c \in own : c.text = TextOf(s, docs[s])
  /\ \A c \in chunks : c.readable => Finds(c, c.text)
  /\ \A c \in chunks, e \in fts : e.id = c.id => e.text = c.text

\* The query can be the words of any of the documents, or words they all have.
Queries ==
  LET own == {TextOf(s, docs[s]) : s \in {u \in Session : docs[u] # NoDoc}}
      term(texts, quoted) == [texts |-> texts, quoted |-> quoted]
  IN {{term(own, FALSE)}}
       \cup UNION {{{term({text}, quoted)} : quoted \in BOOLEAN} : text \in own}
       \cup {{term(own, FALSE), term({text}, TRUE)} : text \in own}

Matches(s, terms) == docs[s] # NoDoc /\ \A term \in terms : TextOf(s, docs[s]) \in term.texts

AnswerIsRight(answer, listed, named, terms, limit) ==
  /\ IsInjective(answer.hits) /\ Len(answer.hits) <= limit
  /\ \A s \in ToSet(answer.hits) :
       s \in listed /\ (s \in ToSet(named) \/ Matches(s, terms))
  /\ answer.more => Len(answer.hits) = limit
  /\ ~answer.more => \A s \in listed :
       Matches(s, terms) /\ (\A c \in ChunksOf({s}) : c.readable) => s \in ToSet(answer.hits)

\* `omni search` asks when its indexing pass is over (with --cached, without one): what it
\* then shows of the sessions it listed are those that match, each once, with an excerpt of
\* the text they have, and without more to come it is all of them.
AnswersAreRight ==
  \A p \in Procs : pc[p] = "index" /\ job[p].todo = {} /\ job[p].batch = {} =>
    \A listed \in SUBSET Candidates(p) \cup {CachedSessions},
       terms \in Queries, limit \in 1 .. 2 :
      /\ \A named \in {SetToSeq(those) : those \in SUBSET listed},
             rank \in {[s \in Session |-> IF s \in Native THEN n ELSE 2] : n \in {1, 3}} :
           AnswerIsRight(SearchHits(listed, named, terms, rank, limit),
                         listed, named, terms, limit)
      /\ \A s \in listed : Excerpt(terms, s) \subseteq {TextOf(s, docs[s])}

\* A search finds every document by its own text and by no other, even after a chunk
\* that could not be read was replaced (rebuild_full_text_index_after_unreadable_chunk)
\* and after the store of an older program was taken over.
SearchFindsOwnText == TextsAreIndexed /\ AnswersAreRight

\* Processes that read a session at different times may write in any order: the text
\* of a newer source is never replaced by an older one of the same document version.
\* (The first open of an old store only forgets that its texts are whole.)
NewerTextStays ==
  [][\A s \in Session \ Kept :
       docs[s] # NoDoc /\ docs'[s] # NoDoc /\ docs'[s].version <= docs[s].version
         => /\ docs'[s].version = docs[s].version /\ docs'[s].time >= docs[s].time
            /\ docs'[s].time = docs[s].time /\ docs[s].whole => docs'[s].whole]_vars

\* A session is taken out of the cached list while its provider still has it only when
\* it was created after the complete listing that is being stored began.
OmissionProvesDeletion ==
  [][\A s \in Native :
       rows[s] # 0 /\ rows'[s] = 0 /\ There(s)
         => \E p \in Procs : pc[p] = "write" /\ pc'[p] # "write" /\ job[p].complete
                             /\ s \notin job[p].known]_vars

\* The search document of a bundle's source, once protected, outlives every refresh
\* and every newer reading; only the deletion of the session by omni removes it.
ProtectedSurvives ==
  [][\A s \in Session :
       docs[s].protected /\ ~docs'[s].protected
         => \E p \in Procs : pc[p] = "deleted" /\ pc'[p] = "idle" /\ job[p].session = s]_vars

\* Everything that can be read is searchable as it is now.
Searchable ==
  /\ \A s \in Native :
       Readable(s) => docs[s] # NoDoc /\ docs[s].time = source[s].time /\ docs[s].whole
  /\ \A b \in bundles : docs[b] # NoDoc /\ rows[b] # 0

\* When providers and the disk come to rest, the commands make it so for good, whatever
\* was interrupted, failed or overtaken before.
SearchCatchesUp == calm ~> []Searchable
==============================================================================
