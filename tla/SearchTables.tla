---------------------------- MODULE SearchTables -----------------------------
(***************************************************************************)
(* The tables of the store that search reads (omnis-store/src/lib.rs): the *)
(* cached session metadata, one search document per session, the chunks of *)
(* its text, and the full-text index over the chunks.  Every operator that *)
(* ends in a primed variable is one immediate SQLite transaction.          *)
(*                                                                         *)
(* A text is named by the source state it was read from: its time, and     *)
(* whether the whole source was read.  A document has one chunk.           *)
(***************************************************************************)
EXTENDS Integers, FiniteSets, Sequences, SequencesExt, TLC

CONSTANTS
  Native,    \* sessions of one provider whose discovery can be complete
  Bundles,   \* portable bundles, each also the imported session of its UUID
  SourceOf,  \* the session a bundle was exported from
  MaxTime,   \* bound on the update times of a session
  Versions,  \* the search document versions of the binaries in use
  ChunkIds,  \* row ids a chunk can take
  PageLimit  \* TRAJECTORY_SEARCH_RESULT_LIMIT

ASSUME SessionsAssumption == Native \cap Bundles = {} /\ SourceOf \in [Bundles -> Native]
ASSUME TimesAssumption == MaxTime \in Nat \ {0}
ASSUME VersionsAssumption == Versions \subseteq Nat \ {0}
ASSUME ChunkIdsAssumption == ChunkIds \subseteq Nat
ASSUME PageLimitAssumption == PageLimit \in Nat \ {0}

Session == Native \cup Bundles
Time == 1 .. MaxTime

VARIABLES
  rows,       \* session_index: the update time of each cached session, 0 for no row
  refreshed,  \* session_index_state: a complete listing was stored before
  docs,       \* session_trajectories
  chunks,     \* session_trajectory_chunk_rows
  fts,        \* session_trajectory_chunks_fts: which text is indexed under which row id
  repairs,    \* session_trajectory_chunk_repairs has its row
  bundles     \* the bundles stored

tables == <<rows, refreshed, docs, chunks, fts, repairs, bundles>>

NoDoc == [version |-> 0, time |-> 0, whole |-> FALSE, protected |-> FALSE]

\* Version 0: of a store from before documents had versions.
Doc == [version : Versions \cup {0}, time : Time, whole : BOOLEAN, protected : BOOLEAN]

Text == [session : Session, time : Time, whole : BOOLEAN]

TextOf(s, d) == [session |-> s, time |-> d.time, whole |-> d.whole]

Chunk == [id : ChunkIds, text : Text, readable : BOOLEAN]

Entry(c) == [id |-> c.id, text |-> c.text]

TablesTypeOK ==
  /\ rows \in [Session -> 0 .. MaxTime] /\ refreshed \in BOOLEAN
  /\ docs \in [Session -> Doc \cup {NoDoc}]
  /\ chunks \subseteq Chunk /\ fts \subseteq [id : ChunkIds, text : Text]
  /\ repairs \in BOOLEAN /\ bundles \subseteq Bundles

InitTables ==
  /\ rows = [s \in Session |-> 0] /\ refreshed = FALSE
  /\ docs = [s \in Session |-> NoDoc]
  /\ chunks = {} /\ fts = {} /\ repairs = FALSE /\ bundles = {}

-----------------------------------------------------------------------------
(* Chunks and the full-text index *)

\* A mutant of AfterDelete: no trigger records the removal of an unreadable chunk.
AfterDeleteUnrecorded(gone) ==
  [chunks |-> chunks \ gone,
   fts |-> fts \ {Entry(c) : c \in {d \in gone : d.readable}},
   repairs |-> repairs]

\* The triggers of a deletion take the text of a readable chunk out of the index; the
\* text of another chunk stays, which the repairs table records.
AfterDelete(gone) ==
  [chunks |-> chunks \ gone,
   fts |-> fts \ {Entry(c) : c \in {d \in gone : d.readable}},
   repairs |-> repairs \/ \E c \in gone : ~c.readable]

Rebuilt(t) ==
  IF t.repairs
    THEN [t EXCEPT !.fts = {Entry(c) : c \in {d \in t.chunks : d.readable}},
                   !.repairs = FALSE]
    ELSE t

\* The ids SQLite gives to new rows: any that no row has, those of removed rows first.
NewIds(t, sessions) ==
  LET free == ChunkIds \ {c.id : c \in t.chunks}
  IN CHOOSE f \in [sessions -> free] :
       /\ \A s, u \in sessions : s # u => f[s] # f[u]
       /\ \A s \in sessions, i \in free : i < f[s] => \E u \in sessions : f[u] = i

WithChunks(t, texts) ==
  LET id == NewIds(t, DOMAIN texts)
      new == {[id |-> id[s], text |-> texts[s], readable |-> TRUE] : s \in DOMAIN texts}
  IN [t EXCEPT !.chunks = @ \cup new, !.fts = @ \cup {Entry(c) : c \in new}]

ChunksOf(sessions) == {c \in chunks : c.text.session \in sessions}

SetChunks(t) == chunks' = t.chunks /\ fts' = t.fts /\ repairs' = t.repairs

\* replace_trajectory_chunks and insert_trajectory_chunks.
ReplaceChunks(texts) ==
  IF DOMAIN texts = {}
    THEN UNCHANGED <<chunks, fts, repairs>>
    ELSE SetChunks(WithChunks(Rebuilt(AfterDelete(ChunksOf(DOMAIN texts))), texts))

\* Another program changed the stored text of a chunk.
DamageChunk(c) ==
  /\ c \in chunks /\ c.readable
  /\ chunks' = (chunks \ {c}) \cup {[c EXCEPT !.readable = FALSE]}
  /\ UNCHANGED <<rows, refreshed, docs, fts, repairs, bundles>>

-----------------------------------------------------------------------------
(* Documents *)

\* A mutant of Applies: the last writer wins.
AppliesAlways(new, old) == new.version >= old.version

\* The WHERE clause of the upsert: only a newer version, a newer source or a fuller
\* reading of the same source replaces a document.
Applies(new, old) ==
  \/ old = NoDoc
  \/ new.version > old.version
  \/ /\ new.version = old.version
     /\ \/ new.time > old.time
        \/ new.time = old.time /\ new.whole /\ ~old.whole

\* A mutant of Stored: the upsert takes the new row's protection.
StoredUnprotected(s, new, old) == [new EXCEPT !.protected = s \in Bundles]

\* The document an upsert leaves; that of an imported session is always protected.
Stored(s, new, old) == [new EXCEPT !.protected = old.protected \/ s \in Bundles]

\* upsert_trajectory_documents for distinct sessions, in one transaction.
UpsertDocuments(new) ==
  LET applied == {s \in DOMAIN new : Applies(new[s], docs[s])}
  IN /\ docs' = [s \in Session |->
                   IF s \in applied THEN Stored(s, new[s], docs[s])
                   ELSE IF s \in DOMAIN new \cap Bundles
                     THEN [docs[s] EXCEPT !.protected = TRUE]
                     ELSE docs[s]]
     /\ ReplaceChunks([s \in applied |-> TextOf(s, new[s])])
     /\ UNCHANGED <<rows, refreshed, bundles>>

RemoveDocuments(sessions) ==
  /\ docs' = [s \in Session |-> IF s \in sessions THEN NoDoc ELSE docs[s]]
  /\ SetChunks(AfterDelete(ChunksOf(sessions)))

\* prune_stale_native_trajectories, after the rows of the same transaction.
Prune(newRows) ==
  RemoveDocuments({s \in Native : docs[s] # NoDoc /\ ~docs[s].protected /\ newRows[s] = 0})

\* A mutant of Protect: a row is made for a session that has no document.
ProtectAny(sessions) ==
  docs' = [s \in Session |->
             IF s \in sessions THEN [docs[s] EXCEPT !.protected = TRUE] ELSE docs[s]]

Protect(sessions) ==
  docs' = [s \in Session |->
             IF s \in sessions /\ docs[s] # NoDoc
               THEN [docs[s] EXCEPT !.protected = TRUE]
               ELSE docs[s]]

-----------------------------------------------------------------------------
(* Metadata, bundles and deletion *)

IndexMatches(listing) == refreshed /\ \A s \in Native : rows[s] = listing[s]

ReplaceIndexed(listing) ==
  LET new == [s \in Session |-> IF s \in Native THEN listing[s] ELSE rows[s]]
  IN rows' = new /\ refreshed' = TRUE /\ Prune(new) /\ UNCHANGED bundles

\* A mutant of MergeIndexed: a partial listing replaces the rows too.
MergeIndexedReplaces(listing) ==
  /\ rows' = [s \in Session |-> IF s \in Native THEN listing[s] ELSE rows[s]]
  /\ UNCHANGED <<refreshed, docs, chunks, fts, repairs, bundles>>

MergeIndexed(listing) ==
  /\ rows' = [s \in Session |-> IF s \in Native /\ listing[s] # 0 THEN listing[s] ELSE rows[s]]
  /\ UNCHANGED <<refreshed, docs, chunks, fts, repairs, bundles>>

RecordUnchanged == Prune(rows) /\ UNCHANGED <<rows, refreshed, bundles>>

UpsertIndexed(s, time) ==
  rows' = [rows EXCEPT ![s] = time] /\ UNCHANGED <<refreshed, docs, chunks, fts, repairs, bundles>>

\* save_bundle and save_new_bundle: the source's document is protected with it.
SaveBundle(b) ==
  /\ bundles' = bundles \cup {b} /\ Protect({SourceOf[b]})
  /\ UNCHANGED <<rows, refreshed, chunks, fts, repairs>>

\* The oldest stores kept the text with the document, and did not know its coverage.
Kept == {s \in Session : docs[s] # NoDoc /\ ChunksOf({s}) = {}}

\* ensure_trajectory_coverage_columns.
Covered(s) == IF s \in Kept THEN [docs[s] EXCEPT !.whole = FALSE] ELSE docs[s]

\* protect_bundle_trajectories: an imported session, or the source of a bundle.
OfBundle(s) == s \in Bundles \/ \E b \in bundles : SourceOf[b] = s

\* initialize_schema, when a process opens the store: in one transaction the schema of an
\* older program is brought up to date (chunk_text_kept_with_trajectories), and the
\* documents of bundles are protected.
OpenStore ==
  /\ docs' = [s \in Session |->
                [Covered(s) EXCEPT !.protected = @ \/ (docs[s] # NoDoc /\ OfBundle(s))]]
  /\ SetChunks(WithChunks([chunks |-> chunks, fts |-> fts, repairs |-> repairs],
                          [s \in Kept |-> TextOf(s, Covered(s))]))
  /\ UNCHANGED <<rows, refreshed, bundles>>

ForgetSession(s) ==
  /\ rows' = [rows EXCEPT ![s] = 0] /\ RemoveDocuments({s})
  /\ UNCHANGED <<refreshed, bundles>>

MissingImportedSource == {b \in bundles : rows[b] = 0 \/ docs[b] = NoDoc}

\* Search finds in a chunk the text that is indexed under its id.
Finds(c, text) == c \in chunks /\ [id |-> c.id, text |-> text] \in fts

-----------------------------------------------------------------------------
(* What a search answers from the tables: one page of the full-text index          *)
(* (search_session_trajectory_page_for_sessions), and the hits `omni search` makes *)
(* of it and of the names it knows (rank_search_hits of main.rs).  A term of a     *)
(* query is the set of texts that have its words; a quoted one has to be found in  *)
(* the stored text as well.                                                        *)

Term == [texts : SUBSET Text, quoted : BOOLEAN]

\* trajectory_candidate_chunks_sql, with the filter of a quoted term.
CandidateChunks(term) ==
  {c \in chunks : /\ \E text \in term.texts : Finds(c, text)
                  /\ term.quoted => c.readable /\ c.text \in term.texts}

\* multi_clause_page_sql: each term is in one of the session's chunks.
Qualified(terms) ==
  {s \in Session : \A term \in terms : \E c \in CandidateChunks(term) : c.text.session = s}

\* Rank, then the newer source, then the session: no two are equal.
Ordered(sessions, rank) ==
  SetToSortSeq(sessions,
    LAMBDA s, u : \/ rank[s] < rank[u]
                  \/ rank[s] = rank[u] /\ docs[s].time > docs[u].time)

NothingFound == [matches |-> <<>>, more |-> FALSE]

\* search_session_trajectory_page_with_eligibility: one row more than the page is asked for.
Page(terms, rank, limit, eligible) ==
  LET found == Ordered(Qualified(terms) \cap eligible, rank)
      length == IF limit < PageLimit THEN limit ELSE PageLimit
  IN IF terms = {} \/ limit = 0 \/ eligible = {} THEN NothingFound
     ELSE [matches |-> SubSeq(found, 1, IF length < Len(found) THEN length ELSE Len(found)),
           more |-> length < Len(found)]

\* with_trajectory_excerpts: a chunk that cannot be read gives no excerpt.
Excerpt(terms, s) ==
  {c.text : c \in {d \in UNION {CandidateChunks(term) : term \in terms} :
                     d.readable /\ d.text.session = s}}

\* `named` are the listed sessions that are named like the query, the best first.  Each
\* of them can be among the conversations too, so that many more of those are asked for.
SearchHits(listed, named, terms, rank, limit) ==
  LET page == Page(terms, rank, limit + Len(named), listed)
      all == named \o SelectSeq(page.matches, LAMBDA s : s \notin ToSet(named))
  IN IF Len(named) > limit
       THEN [hits |-> SubSeq(named, 1, limit), more |-> TRUE]
       ELSE [hits |-> SubSeq(all, 1, IF limit < Len(all) THEN limit ELSE Len(all)),
             more |-> page.more \/ Len(all) > limit]
==============================================================================
