---------------------------- MODULE FileListings -----------------------------
(* How the adapters list and find sessions: Codex first, then the others.         *)
EXTENDS ListingState

-----------------------------------------------------------------------------
(* CodexAdapter: the bounded walk, the headers kept from the listing of an earlier *)
(* process, and what one adapter remembers of its own first listing.               *)

\* Sessions are newest first, within a directory and among the days; a directory has one
\* file of each.
NewestFirst(files) ==
  LET those(id) == {f \in files : f[2] = id}
      listed(id) == IF those(id) = {} THEN <<>> ELSE <<CHOOSE f \in files : f[2] = id>>
  IN listed(2) \o listed(1)

AtMost(k, files) == SubSeq(files, 1, IF k < Len(files) THEN k ELSE Len(files))

\* After the last directory; the archive is not looked at when the limit is exceeded.
WalkEnds(unit, found) ==
  unit = Len(Units.codex) \/ (unit = Len(Units.codex) - 1 /\ Len(found) > limit)

\* The scan is kept by the adapter; a second one, for an ID that the first one did not
\* find, is not, and nobody reads its notes.
AfterScan(p, found, noted) ==
  LET r == reader[p]
  IN [pc |-> IF r.then = "path" THEN "path" ELSE "titles",
      found |-> AtMost(limit, found), at |-> 1,
      noted |-> noted \/ Len(found) > limit,
      blind |-> r.blind \/ noted \/ Len(found) > limit,
      scanned |-> TRUE]

\* One directory is read, or cannot be; limit + 1 files are collected.
CodexWalk(p) ==
  /\ provider = "codex" /\ At(p, "walk")
  /\ \E readable \in BOOLEAN :
       LET r == reader[p]
           here == IF readable THEN {f \in Units.codex[r.unit] : Stored(f)} ELSE {}
           found == AtMost(limit + 1, r.found \o NewestFirst(here))
           noted == r.noted \/ ~readable
       IN IF WalkEnds(r.unit, found)
          THEN Moves(p, "walk", AfterScan(p, found, noted))
          ELSE Moves(p, "walk", [unit |-> r.unit + 1, found |-> found, noted |-> noted])
  /\ UNCHANGED <<cachefile, rows>>

\* session_index.jsonl only names sessions, but what is wrong with it is noted.
CodexTitles(p) ==
  /\ \E wrong \in BOOLEAN :
       Moves(p, "titles", [pc |-> "load", noted |-> reader[p].noted \/ wrong])
  /\ UNCHANGED <<cachefile, rows>>

\* A mutant of Usable: headers that another build parsed are used.
AnyFormat(build) == cachefile.format # "none"

Usable(build) == cachefile.format = build

CodexLoad(p) ==
  /\ Moves(p, "load",
       [pc |-> "open",
        previous |-> IF Usable(reader[p].build) THEN cachefile.headers ELSE <<>>,
        current |-> <<>>, parsed |-> FALSE])
  /\ UNCHANGED <<cachefile, rows>>

\* What a build makes of the first record of a rollout.
Parse(build, header) ==
  CASE header = "empty" -> "none"
    [] header = "subagent" /\ build = "old" -> "user"
    [] OTHER -> header

\* A file counts by its header: listed, passed over as a subagent's, or noted.
Counted(r, file, header) ==
  [pc |-> "open", at |-> r.at + 1,
   listed |-> IF header = "user" /\ file[2] \notin IdsOf(r.listed)
              THEN r.listed \cup {file} ELSE r.listed,
   noted |-> r.noted \/ header = "none"]

Without(headers, file) == [f \in DOMAIN headers \ {file} |-> headers[f]]
With(headers, file, entry) ==
  [f \in DOMAIN headers \cup {file} |-> IF f = file THEN entry ELSE headers[f]]

\* The file is looked at first, so that one written meanwhile is parsed again next time.
\* An entry that does not fit is dropped.
Hit(r, file) ==
  /\ file \in DOMAIN r.previous /\ Stored(file)
  /\ r.previous[file].stamp = native[file[2]].stamp

CodexOpen(p) ==
  /\ provider = "codex" /\ At(p, "open") /\ reader[p].at <= Len(reader[p].found)
  /\ LET r == reader[p]
         file == r.found[r.at]
     IN IF Hit(r, file)
        THEN LET entry == r.previous[file]
             IN Moves(p, "open",
                  Also([previous |-> Without(r.previous, file),
                        current |-> With(r.current, file, entry)],
                       Counted(r, file, entry.header)))
        ELSE Moves(p, "open",
                   [pc |-> "parse", stamp |-> IF Stored(file) THEN native[file[2]].stamp ELSE -1,
                    previous |-> IF Stored(file) THEN Without(r.previous, file)
                                 ELSE r.previous])
  /\ UNCHANGED <<cachefile, rows>>

\* A file that could not be looked at is read without the cache.
CodexParse(p) ==
  LET r == reader[p]
      file == r.found[r.at]
      header == Parse(r.build, native[file[2]].header)
      entry == [stamp |-> r.stamp, header |-> header]
  IN /\ At(p, "parse")
     /\ \/ /\ Stored(file)
           /\ Moves(p, "parse",
                Also([current |-> IF r.stamp = -1 THEN r.current
                                  ELSE With(r.current, file, entry),
                      parsed |-> r.parsed \/ r.stamp # -1],
                     Counted(r, file, header)))
        \/ Moves(p, "parse", [pc |-> "open", at |-> r.at + 1, noted |-> TRUE])
     /\ UNCHANGED <<cachefile, rows>>

\* The new file replaces the old one; whether it could be written is not looked at.
\* Files without one session listed are noted.
CodexSave(p) ==
  LET r == reader[p]
  IN /\ provider = "codex" /\ At(p, "open") /\ r.at > Len(r.found)
     /\ Moves(p, "open",
          [pc |-> r.then, known |-> TRUE,
           noted |-> r.noted \/ (r.found # <<>> /\ r.listed = {})])
     /\ \/ UNCHANGED cachefile
        \/ /\ r.parsed \/ r.previous # <<>>
           /\ cachefile' = [format |-> r.build, headers |-> r.current]
     /\ UNCHANGED rows

\* find_native_session and read_session: the path of an ID among those the adapter found,
\* else in a second walk; then that one file.
CodexPath(p) ==
  LET r == reader[p]
      paths == SelectSeq(r.found, LAMBDA f : f[2] = r.target)
  IN /\ At(p, "path")
     /\ IF paths = <<>> /\ ~r.again
        THEN Moves(p, "path", [pc |-> "walk", unit |-> 1, found |-> <<>>, again |-> TRUE])
        ELSE IF paths = <<>>
        THEN Moves(p, "path", [pc |-> "search", listed |-> {}])
        ELSE \/ /\ Stored(paths[1])
                /\ Moves(p, "path",
                     [pc |-> "search",
                      listed |-> IF native[r.target].header = "empty" THEN {}
                                 ELSE {paths[1]}])
             \/ Moves(p, "path", [pc |-> "search", outcome |-> "failed"])
     /\ UNCHANGED <<cachefile, rows>>

-----------------------------------------------------------------------------
(* The adapters that walk directories or read rows of a database or of a command's *)
(* output, and that never call their listings complete.                            *)

\* Claude keeps the files its first walk found.
Keeps == {"claude"}

\* A walk stops at its limit, whichever files it has by then, and says nothing.
Within(r, files) ==
  LET room == IF IsRow(CHOOSE f \in files : TRUE) THEN Cardinality(files)
              ELSE limit - Len(SelectSeq(r.found, LAMBDA f : ~IsRow(f)))
  IN IF Cardinality(files) <= room THEN {files}
     ELSE {some \in SUBSET files : Cardinality(some) = room}

\* A directory that cannot be read is passed over.  Rows come from a snapshot or a command,
\* and without them the listing fails, but not Grok's, which then has the summaries only.
Walk(p) ==
  LET r == reader[p]
      unit == Units[provider][r.unit]
      here == {f \in unit : Stored(f)}
      last == r.unit = Len(Units[provider])
      next(found, blind) ==
        [pc |-> IF last THEN "open" ELSE "walk", unit |-> r.unit + 1, at |-> 1,
         found |-> found, blind |-> r.blind \/ blind,
         scanned |-> last /\ provider \in Keeps]
  IN /\ provider \notin {"codex", "hermes"} /\ At(p, "walk")
     /\ \/ \E files \in IF here = {} THEN {{}} ELSE Within(r, here) :
             Moves(p, "walk", next(r.found \o NewestFirst(files), files # here))
        \/ provider \notin RowProviders /\ Moves(p, "walk", next(r.found, TRUE))
        \/ provider \in RowProviders /\ Moves(p, "walk", [pc |-> r.then, outcome |-> "failed"])
     /\ UNCHANGED <<cachefile, rows>>

\* OpenCode without the query over all projects, or with more than it returns, lists what
\* the current directory's project has, or the newest ones, and notes it.
OneProject(p) ==
  LET r == reader[p]
      here == {f \in Units.opencode[1] : Stored(f)}
  IN /\ provider = "opencode" /\ At(p, "walk")
     /\ \E some \in SUBSET here :
          Moves(p, "walk", [pc |-> "open", at |-> 1, found |-> NewestFirst(some),
                            blind |-> TRUE, noted |-> TRUE])
     /\ UNCHANGED <<cachefile, rows>>

\* What makes a file a listed session when it is opened.  A transcript of Claude's and a log
\* of Antigravity IDE are sessions by their names.
ByItsName(file) == Stored(file)

\* A Pi file has to begin with a header that can be read.
PiHeader(file) == Stored(file) /\ native[file[2]].header = "user"

CursorMetadata(file) == Stored(file) /\ native[file[2]].header = "user"

GrokSummary(file) == Stored(file) /\ native[file[2]].header = "user"

\* An archived conversation is hidden.
NotArchived(file) == Stored(file) /\ native[file[2]].header # "archived"

Counts(file) ==
  CASE IsRow(file) -> TRUE
    [] ~IsRow(file) /\ provider \in {"claude", "antigravity_ide"} -> ByItsName(file)
    [] provider = "pi" -> PiHeader(file)
    [] provider = "cursor_cli" -> CursorMetadata(file)
    [] ~IsRow(file) /\ provider = "grok" -> GrokSummary(file)
    [] provider = "antigravity_desktop" -> NotArchived(file)

\* A summary takes the place of Grok's catalog row.
Entered(r, file) ==
  {f \in r.listed : ~(IsRow(f) /\ f[2] = file[2])} \cup {file}

\* A log of Antigravity IDE that cannot be read fails the whole listing.
OpenFile(p) ==
  LET r == reader[p]
      file == r.found[r.at]
      next(listed) == [at |-> r.at + 1, listed |-> listed]
  IN /\ provider # "codex" /\ At(p, "open") /\ r.at <= Len(r.found)
     /\ \/ Counts(file) /\ Moves(p, "open", next(Entered(r, file)))
        \/ ~Counts(file) /\ Moves(p, "open", next(r.listed))
        \/ /\ provider = "antigravity_ide"
           /\ Moves(p, "open", [pc |-> r.then, outcome |-> "failed"])
     /\ UNCHANGED <<cachefile, rows>>

Opened(p) ==
  LET r == reader[p]
  IN /\ provider # "codex" /\ At(p, "open") /\ r.at > Len(r.found)
     /\ Moves(p, "open", [pc |-> r.then])
     /\ UNCHANGED <<cachefile, rows>>
==============================================================================
