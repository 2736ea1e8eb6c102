---------------------------- MODULE ListingState ----------------------------
(* What a provider has stored of its sessions, the omni processes that list them,  *)
(* and what omni keeps of earlier listings.                                        *)
EXTENDS Integers, Sequences, SequencesExt, FiniteSets

CONSTANTS
  Providers,   \* whose sessions are looked at
  Readers,     \* omni processes, each with one registry of adapters and one task
  Limits,      \* how many files a walk may collect, one of these
  Tries,       \* how often a database is copied again
  MaxChanges   \* bound on what each provider's own program and its user do

FileProviders == {"codex", "claude", "pi", "cursor_cli", "grok", "antigravity_ide",
                  "antigravity_desktop"}
RowProviders == {"opencode", "antigravity", "cursor_ide"}

ASSUME ListingsAssumption ==
  /\ Providers \subseteq FileProviders \cup RowProviders \cup {"hermes"}
  /\ Limits \subseteq Nat \ {0} /\ Tries \in Nat \ {0} /\ MaxChanges \in [Providers -> Nat]

VARIABLES
  provider,
  limit,
  home,       \* the provider's root, or Hermes' database, is where it should be
  native,     \* the files or rows of each session
  database,   \* Hermes' database file and its write-ahead log
  reader,     \* the local variables of each process
  cachefile,  \* Codex headers that an earlier listing kept
  rows,       \* the sessions in omni's own index
  steady,     \* what was there at every moment since a process began to look
  seen,       \* what was there at some moment since
  moments,    \* what Hermes' database showed at the moments since
  changes

listing == <<provider, limit, home, native, database, reader, cachefile, rows, steady,
             seen, moments, changes>>
watches == <<steady, seen, moments>>
stored == <<home, native, database, changes>>

\* Session 2 is newer than session 1.
Ids == 1..2

\* The directories or tables that are read at one moment each, in this order, and whose
\* entries they hold.  Codex has a directory per day and one for everything archived.
CodexUnits == <<{<<"sessions", 2>>}, {<<"sessions", 1>>}, {"archived"} \X Ids>>

\* Two projects' directories; a copied transcript has the same name in both.
ClaudeUnits == <<{"first"} \X Ids, {"second"} \X Ids>>
PiUnits == <<{"first"} \X Ids, {"second"} \X Ids>>
CursorUnits == <<{"first"} \X Ids, {"second"} \X Ids>>

\* The search catalog, then the sessions' own directories.
GrokUnits == <<{"catalog"} \X Ids, {"directory"} \X Ids>>

\* The logs in "brain", and the conversation databases; titles come from elsewhere.
IdeLogUnits == <<{"first"} \X Ids>>
DesktopUnits == <<{"first"} \X Ids>>

\* The summary database, Cursor's global state, and what OpenCode's own command prints.
SummaryUnits == <<{"rows"} \X Ids>>
CursorIdeUnits == <<{"rows"} \X Ids>>
OpenCodeUnits == <<{"rows"} \X Ids>>

Units ==
  [codex |-> CodexUnits, claude |-> ClaudeUnits, pi |-> PiUnits, cursor_cli |-> CursorUnits,
   grok |-> GrokUnits, antigravity_ide |-> IdeLogUnits, antigravity_desktop |-> DesktopUnits,
   opencode |-> OpenCodeUnits, antigravity |-> SummaryUnits, cursor_ide |-> CursorIdeUnits,
   hermes |-> <<>>]

Stored(file) == home /\ file[1] \in native[file[2]].dirs

\* Rows are read as they are; a file is opened after the walk that found it.
IsRow(file) == file[1] \in {"catalog", "rows"}

IdsOf(files) == {file[2] : file \in files}

\* Frames of a write-ahead log count up to the last one that commits.
Committed(main, wal) ==
  LET ends == {i \in DOMAIN wal : wal[i].last}
      upto(id) == {i \in DOMAIN wal : wal[i].row = id /\ \E e \in ends : i <= e}
  IN [id \in Ids |->
        IF upto(id) = {} THEN main[id]
        ELSE wal[CHOOSE i \in upto(id) : \A j \in upto(id) : j <= i].cell]

Current == Committed(database.main, database.wal)

RowsIn(cells) == {id \in Ids : cells[id].here}

\* The sessions an instant listing would show.
There ==
  IF ~home THEN {}
  ELSE CASE provider = "hermes" -> RowsIn(Current)
         [] provider \in {"claude", "antigravity_ide"} \cup RowProviders ->
              {id \in Ids : native[id].dirs # {}}
         [] provider = "grok" ->
              {id \in Ids : \/ "catalog" \in native[id].dirs
                            \/ "directory" \in native[id].dirs /\ native[id].header = "user"}
         [] OTHER -> {id \in Ids : native[id].dirs # {} /\ native[id].header = "user"}

\* What an exact ID reaches: Codex' subagent threads too, which listings hide; and what a
\* deletion has to remove: Grok's directory, whatever can be read in it.
ThereFor(then) ==
  IF ~home THEN {}
  ELSE CASE provider = "codex" /\ then = "path" ->
              {id \in Ids : native[id].dirs # {} /\ native[id].header # "empty"}
         [] provider = "grok" /\ then = "verify" -> {id \in Ids : "directory" \in native[id].dirs}
         [] OTHER -> There

-----------------------------------------------------------------------------
(* One process *)

\* Two builds of omni may read the headers of a rollout differently.
Builds == {"new", "old"}

NoCopy == [stamp |-> <<>>, shows |-> {}]

Fresh ==
  [pc |-> "off", task |-> "none", target |-> 1, other |-> "none", build |-> "new",
   unix |-> TRUE,    then |-> "none", unit |-> 1, found |-> <<>>, listed |-> {}, at |-> 1,
   noted |-> FALSE, blind |-> FALSE, scanned |-> FALSE, known |-> FALSE, again |-> FALSE,
   unread |-> FALSE,
   previous |-> <<>>, current |-> <<>>, parsed |-> FALSE, stamp |-> 0,
   reads |-> <<>>, try |-> 1, round |-> 1, stamps |-> <<>>, copy |-> NoCopy,
   watch |-> 0, outcome |-> "none"]

At(p, pc) == reader[p].pc = pc

\* These fields, and those of the others that they leave open.
Also(fields, others) ==
  [x \in DOMAIN fields \cup DOMAIN others |->
     IF x \in DOMAIN fields THEN fields[x] ELSE others[x]]

\* The process p, now at step "pc", changes these of its variables.
Moves(p, pc, changed) ==
  /\ At(p, pc)
  /\ reader' = [reader EXCEPT ![p] = [x \in DOMAIN Fresh |->
                  IF x \in DOMAIN changed THEN changed[x] ELSE reader[p][x]]]

\* The process prints its answer and ends.
Answers(p, pc, answer) ==
  LET r == reader[p]
  IN /\ At(p, pc)
     /\ reader' = [reader EXCEPT ![p] =
          Also(answer,
            [Fresh EXCEPT !.pc = "done", !.task = r.task, !.then = r.then, !.target = r.target,
                          !.watch = r.watch, !.blind = r.blind, !.noted = r.noted])]

Ends(p, pc, outcome) == Answers(p, pc, [outcome |-> outcome])

Nothing == [dirs |-> {}, header |-> "user", stamp |-> 0]

\* What may have been stored of a session before: the older one of Codex was archived.
Before(id) ==
  {dir \in {"archived", "sessions", "first", "catalog", "rows"} :
     /\ dir = "archived" => id = 1
     /\ dir = "sessions" => id = 2
     /\ \E i \in DOMAIN Units[provider] : <<dir, id>> \in Units[provider][i]}

ListingInit ==
  /\ provider \in Providers
  /\ limit \in (IF provider \in FileProviders THEN Limits ELSE {1})
  /\ home = TRUE
  /\ native \in {[id \in Ids |-> IF id \in some THEN [Nothing EXCEPT !.dirs = Before(id)]
                                  ELSE Nothing] : some \in SUBSET Ids}
  /\ database = [main |-> [id \in Ids |-> [here |-> id = 1, at |-> 0]],
                 wal |-> <<>>, file |-> FALSE, writes |-> <<0, 0>>]
  /\ reader = [p \in Readers |-> Fresh]
  /\ cachefile = [format |-> "none", headers |-> <<>>]
  /\ rows = Ids
  /\ steady = [p \in Readers |-> {}] /\ seen = [p \in Readers |-> {}]
  /\ moments = [p \in Readers |-> {}]
  /\ changes = 0
==============================================================================
