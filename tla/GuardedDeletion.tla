--------------------------- MODULE GuardedDeletion ---------------------------
(* What a listing is made for: omni's index is brought up to date, an ID is resolved, *)
(* or one session is deleted and its absence verified.                                 *)
EXTENDS DatabaseSnapshot

\* A listing begins; an adapter that kept one, or its files, does not walk again.
BeginListing(r, then) ==
  IF r.known THEN [pc |-> then]
  ELSE IF r.scanned THEN [pc |-> "open", at |-> 1, listed |-> {}]
  ELSE [pc |-> "walk", unit |-> 1, found |-> <<>>, listed |-> {}]

Deletable == Providers \ {"antigravity_ide", "antigravity_desktop"}

Tasks ==
  {[task |-> "refresh", then |-> "refresh"],
   [task |-> "resolve", then |-> IF provider = "codex" THEN "path" ELSE "search"]}
  \cup {t \in {[task |-> "delete", then |-> "unique"]} : provider \in Deletable}

\* A command of omni.  Another one of a Codex home may have refreshed the index before it
\* and left its headers; at the same time it would show nothing more, since it replaces
\* the file of the headers at one moment.
Start(p) ==
  /\ p # 1 => provider = "codex" /\ At(1, "off")
  /\ p = 1 => \A q \in Readers \ {1} : reader[q].pc \in {"off", "done"}
  /\ \E t \in Tasks, target \in Ids, build \in Builds, unix \in BOOLEAN :
       /\ p # 1 => t.task = "refresh"
       /\ t.task = "refresh" => target = 1
       /\ provider # "codex" => build = "new"
       /\ provider # "hermes" => unix
       /\ Moves(p, "off", [pc |-> "walk", task |-> t.task, then |-> t.then,
                           target |-> target, build |-> build, unix |-> unix, watch |-> 1])
  /\ UNCHANGED <<cachefile, rows, stored>>

\* A mutant of Complete: what was noted is not looked at.
CompleteRegardless(r) == provider \in {"codex", "hermes"} /\ home

\* Whether an omission proves a deletion: only Codex and Hermes say so, if their home is
\* there afterwards.
Complete(r) == provider \in {"codex", "hermes"} /\ home /\ ~r.noted

\* discover_sessions
Refresh(p) ==
  LET r == reader[p]
  IN /\ At(p, "refresh")
     /\ reader' = [reader EXCEPT ![p] = [Fresh EXCEPT !.pc = "done"]]
     /\ rows' = IF r.outcome = "failed" THEN rows
                ELSE IF Complete(r) THEN IdsOf(r.listed) ELSE rows \cup IdsOf(r.listed)
     /\ UNCHANGED <<cachefile, stored>>

\* resolve_session_ref: the other providers may know the same ID, or may have failed.
Select(matches, failed) ==
  CASE matches = 0 /\ failed -> "unknown"
    [] matches = 0 /\ ~failed -> "missing"
    [] matches = 1 -> "found"
    [] OTHER -> "ambiguous"

Resolve(p) ==
  LET r == reader[p]
      here == r.outcome # "failed" /\ r.target \in IdsOf(r.listed)
      matches(other) == (IF here THEN 1 ELSE 0) + (IF other = "match" THEN 1 ELSE 0)
  IN /\ \E other \in {"none", "match", "failed"} :
          Answers(p, "search",
            [other |-> other,
             outcome |-> Select(matches(other), "failed" \in {other, r.outcome})])
     /\ UNCHANGED <<cachefile, rows, stored>>

-----------------------------------------------------------------------------
(* Deletion *)

Candidates(r) == {f \in r.listed : f[2] = r.target}

\* unique_native_session
Unique(p) ==
  LET r == reader[p]
      n == Cardinality(Candidates(r))
  IN /\ \/ r.outcome = "failed" /\ Ends(p, "unique", "failed")
        \/ r.outcome # "failed" /\ n = 0 /\ Ends(p, "unique", "gone")
        \/ r.outcome # "failed" /\ n > 1 /\ Ends(p, "unique", "ambiguous")
        \/ r.outcome # "failed" /\ n = 1 /\ Moves(p, "unique", [pc |-> "command"])
     /\ UNCHANGED <<cachefile, rows, stored>>

\* After the deletion everything is looked for again.
Verifies(p) ==
  Moves(p, "command", Also([then |-> "verify", watch |-> 2],
                           BeginListing(reader[p], "verify")))

Privately == {"claude", "pi", "cursor_cli", "antigravity", "cursor_ide"}

\* A store omni writes itself: the one file or row that was listed is removed.
RemoveListed(p) ==
  LET file == CHOOSE f \in Candidates(reader[p]) : TRUE
  IN /\ provider \in Privately /\ At(p, "command")
     /\ \/ /\ Stored(file) /\ Verifies(p)
           /\ native' = [native EXCEPT ![file[2]].dirs = @ \ {file[1]}]
        \/ Ends(p, "command", "failed") /\ UNCHANGED native
     /\ UNCHANGED <<cachefile, rows, home, database, changes>>

\* What the provider's own command has done when it ends or is stopped: everything,
\* nothing, and Grok's may leave either the directory or the catalog's row.
Removed(id, gone) ==
  IF provider = "hermes"
  THEN /\ UNCHANGED native
       /\ \/ UNCHANGED database
          \/ /\ gone # {} /\ home /\ ~Writing
             /\ database' = [database EXCEPT !.file = TRUE, !.writes[2] = @ + 1,
                  !.wal = Append(@, [row |-> id, last |-> TRUE,
                                     cell |-> [here |-> FALSE, at |-> changes + 1]])]
  ELSE native' = [native EXCEPT ![id].dirs = @ \ gone] /\ UNCHANGED database

\* delete_with_provider_command: Grok's status is not believed, since its search brings the
\* catalog in order afterwards; a failure of the others ends the deletion.
RunCommand(p) ==
  LET id == reader[p].target
  IN /\ provider \notin Privately /\ At(p, "command")
     /\ \E gone \in SUBSET {"sessions", "archived", "catalog", "directory", "rows"} :
          /\ provider \in {"codex", "opencode"} => gone \in {{}, native[id].dirs}
          /\ provider = "grok" => gone \subseteq {"catalog", "directory"}
          /\ provider = "hermes" => gone \in {{}, {"rows"}}
          /\ Removed(id, gone)
     /\ \/ Verifies(p)
        \/ Ends(p, "command", "failed")
     /\ changes' = changes + 1
     /\ UNCHANGED <<cachefile, rows, home>>

\* A mutant of Verify: the listing is believed, nothing is read.
BelieveListing(p) ==
  LET r == reader[p]
  IN /\ Ends(p, "verify", IF r.outcome = "failed" THEN "failed"
                          ELSE IF Candidates(r) # {} THEN "not_removed" ELSE "deleted")
     /\ rows' = IF r.outcome # "failed" /\ Candidates(r) = {} THEN rows \ {r.target} ELSE rows
     /\ UNCHANGED <<cachefile, stored>>

Verify(p) ==
  LET r == reader[p]
  IN /\ \/ r.outcome = "failed" /\ Ends(p, "verify", "failed")
        \/ r.outcome # "failed" /\ Candidates(r) # {} /\ Ends(p, "verify", "not_removed")
        \/ r.outcome # "failed" /\ Candidates(r) = {} /\ Moves(p, "verify", [pc |-> "read"])
     /\ UNCHANGED <<cachefile, rows, stored>>

\* What read_session finds by the ID alone, whatever the listing said.
Readable(id) ==
  CASE provider = "hermes" -> home /\ Current[id].here
    [] provider = "claude" \/ provider \in RowProviders -> home /\ native[id].dirs # {}
    [] provider = "grok" -> Stored(<<"directory", id>>) /\ native[id].header = "user"
    [] OTHER -> home /\ native[id].dirs # {} /\ native[id].header = "user"

\* An error of the read counts as an absence; Grok's directory is looked for besides.
\* Only then the index forgets the session.
ReadBack(p) ==
  /\ At(p, "read")
  /\ \E works \in BOOLEAN :
       LET id == reader[p].target
           found == \/ works /\ Readable(id)
                    \/ provider = "grok" /\ Stored(<<"directory", id>>)
       IN /\ Answers(p, "read",
               [unread |-> ~works, outcome |-> IF found THEN "not_removed" ELSE "deleted"])
          /\ rows' = IF found THEN rows ELSE rows \ {id}
  /\ UNCHANGED <<cachefile, stored>>
==============================================================================
