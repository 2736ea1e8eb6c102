------------------------------ MODULE Listings -------------------------------
(***************************************************************************)
(* How omni lists the sessions of a provider that goes on writing, and what *)
(* it concludes from a session that is not in the list.                     *)
(***************************************************************************)
EXTENDS GuardedDeletion

\* The provider and the user.
Change(id, fields) ==
  /\ changes < MaxChanges[provider] /\ changes' = changes + 1
  /\ native' = [native EXCEPT ![id] = Also(fields, native[id])]
  /\ UNCHANGED <<home, database>>

Headers ==
  CASE provider = "codex" -> {"empty", "user", "subagent"}
    [] provider \in {"pi", "cursor_cli", "grok"} -> {"empty", "user"}
    [] OTHER -> {"user"}

Home == CHOOSE dir \in {"sessions", "first", "directory", "rows"} :
          \E i \in DOMAIN Units[provider] : \E f \in Units[provider][i] : f[1] = dir

Create(id) ==
  /\ native[id].dirs = {}
  /\ \E header \in Headers :
       Change(id, [dirs |-> {Home}, header |-> header, stamp |-> native[id].stamp + 1])

\* A rollout gets its header, or grows; other metadata becomes readable or unreadable.
Write(id) ==
  /\ native[id].dirs # {} /\ Cardinality(Headers) > 1
  /\ \E header \in Headers :
       /\ provider = "codex" /\ native[id].header # "empty" => header = native[id].header
       /\ Change(id, [header |-> header, stamp |-> native[id].stamp + 1])

Erase(id) == native[id].dirs # {} /\ Change(id, [dirs |-> {}])

\* A copy of a transcript in another project's directory.
Duplicate(id) ==
  /\ provider \in {"claude", "pi", "cursor_cli"} /\ native[id].dirs = {"first"}
  /\ Change(id, [dirs |-> {"first", "second"}])

\* Grok's catalog follows its directories.
Catalog(id) ==
  /\ provider = "grok"
  /\ \/ native[id].dirs = {"directory"} /\ Change(id, [dirs |-> {"catalog", "directory"}])
     \/ native[id].dirs = {"catalog"} /\ Change(id, [dirs |-> {}])

Archive(id) ==
  \/ /\ provider = "codex" /\ native[id].dirs = {"sessions"}
     /\ Change(id, [dirs |-> {"archived"}, stamp |-> native[id].stamp + 1])
  \/ /\ provider = "antigravity_desktop" /\ native[id].dirs # {}
     /\ Change(id, [header |-> "archived"])

Unarchive(id) ==
  /\ provider = "codex" /\ native[id].dirs = {"archived"}
  /\ Change(id, [dirs |-> {"sessions"}, stamp |-> native[id].stamp + 1])

\* The home is on a volume that is unmounted, or is moved, or the database is.
HomeMoves ==
  /\ changes < MaxChanges[provider] /\ changes' = changes + 1
  /\ home' = ~home /\ UNCHANGED <<native, database>>

FileStep ==
  /\ provider # "hermes"
  /\ \E id \in Ids : Create(id) \/ Write(id) \/ Erase(id) \/ Duplicate(id) \/ Catalog(id)
                       \/ Archive(id) \/ Unarchive(id)

Outside ==
  /\ FileStep \/ DatabaseStep \/ HomeMoves
  /\ UNCHANGED <<reader, cachefile, rows>>

-----------------------------------------------------------------------------

Look(p) ==
  /\ \/ CodexWalk(p) \/ CodexTitles(p) \/ CodexLoad(p) \/ CodexOpen(p) \/ CodexParse(p)
     \/ CodexSave(p) \/ CodexPath(p)
     \/ Walk(p) \/ OneProject(p) \/ OpenFile(p) \/ Opened(p)
     \/ FindDatabase(p) \/ ReadStamp(p) \/ CompareStamps(p) \/ CopyDatabase(p)
  /\ UNCHANGED stored

Process(p) ==
  \/ Start(p) \/ Look(p)
  \/ Refresh(p) \/ Resolve(p)
  \/ Unique(p) \/ RemoveListed(p) \/ RunCommand(p) \/ Verify(p) \/ ReadBack(p)

\* A rollout that comes back from the archive counts as not having been there: the archive
\* is read last, and a rollout that leaves it in between is in neither list.
Back == {id \in Ids : "archived" \in native[id].dirs /\ "archived" \notin native'[id].dirs}

Watch ==
  LET begins(p) == reader'[p].watch # reader[p].watch
      there(p) == ThereFor(reader[p].then)'
      shown(p) == there(p) \cup There'
  IN /\ steady' = [p \in Readers |->
                     IF reader'[p].task = "none" THEN {}
                     ELSE IF begins(p) THEN there(p) ELSE (steady[p] \cap there(p)) \ Back]
     /\ seen' = [p \in Readers |->
                   IF reader'[p].task = "none" THEN {}
                   ELSE IF begins(p) THEN shown(p) ELSE seen[p] \cup shown(p)]
     /\ moments' = [p \in Readers |->
                      IF provider # "hermes" \/ reader'[p].task = "none" THEN {}
                      ELSE moments[p] \cup {There'}]

ListingNext ==
  /\ UNCHANGED <<provider, limit>>
  /\ Outside \/ \E p \in Readers : Process(p)
  /\ Watch

ListingSpec == ListingInit /\ [][ListingNext]_listing

-----------------------------------------------------------------------------
(* Properties *)

\* A header that is kept for a file as it is now is what this build of omni would read in
\* it, whatever was written meanwhile and whichever build wrote the cache
\* (rollout_cache.rs:3).
CacheIsFresh ==
  \A p \in Readers :
    LET fresh(headers) ==
          \A f \in DOMAIN headers :
            Stored(f) /\ headers[f].stamp = native[f[2]].stamp
              => headers[f].header = Parse(reader[p].build, native[f[2]].header)
    IN provider = "codex" => fresh(reader[p].previous) /\ fresh(reader[p].current)

Found(p) == IdsOf(reader[p].listed)

\* A session leaves omni's index only if it was missing at some moment since the listing
\* that proves it began, or since its deletion, unless reading it failed, and never while
\* the provider's home is away; and what a snapshot of a database shows was committed at
\* one moment since then.
ListingIsTrue ==
  [][/\ \A id \in rows \ rows' :
          \E p \in Readers :
            /\ reader[p].pc # "done" /\ reader'[p].pc = "done"
            /\ id \notin steady[p] \/ reader'[p].unread
            /\ reader[p].task = "refresh" => home
     /\ \A p \in Readers :
          /\ provider = "hermes" /\ reader[p].pc \in {"refresh", "search", "unique", "verify"}
          /\ reader[p].outcome # "failed"
          => Found(p) \in moments[p]]_listing

\* The answers to somebody who names one session: "missing" and "gone" only if it was not
\* there all the time, unless the walk, which may say so or not, could not see everything;
\* "deleted" even then, unless reading it failed; "found" and "not removed" if it was there
\* at some moment.  Two providers verify a deletion by what was listed before it: Codex
\* always, Hermes when its database is closed between the two parts of a stamp.
AnswersAreTrue ==
  \A p \in Readers :
    LET r == reader[p]
    IN r.pc = "done" =>
         /\ r.outcome \in {"missing", "gone"} /\ ~r.blind /\ ~r.noted
              => r.target \notin steady[p]
         /\ r.outcome = "deleted" /\ ~r.unread => r.target \notin steady[p]
         /\ r.outcome = "found" /\ r.other # "match" => r.target \in seen[p]
         /\ r.outcome = "not_removed" /\ provider \notin {"codex", "hermes"}
              => r.target \in seen[p]

\* "OmniSession deletes exact selected native session and then verifies provider discovery
\* and direct read no longer find ID" (docs/rfcs/009-native-deletion.md): a session that
\* nobody saw since it was deleted has not remained.
DeletionIsVerified ==
  \A p \in Readers :
    reader[p].pc = "done" /\ reader[p].outcome = "not_removed"
      => reader[p].target \in seen[p]
==============================================================================
