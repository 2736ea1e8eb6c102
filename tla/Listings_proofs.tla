--------------------------- MODULE Listings_proofs ---------------------------
(***************************************************************************)
(* Proofs about Listings, for any number of processes and changes: the     *)
(* headers that Codex listings keep for each other, and what may leave the *)
(* index of omni while the providers go on writing.                        *)
(***************************************************************************)
EXTENDS Listings, SequenceTheorems, WellFoundedInduction, TLAPS

-----------------------------------------------------------------------------
(* The steps of a process and what they change                               *)

\* What the steps that concern Codex look at.
Looked == {"pc", "build", "previous", "current", "found", "unit", "at", "stamp", "then"}

\* One process moves, and keeps what it does not change.
LEMMA Stepped ==
  ASSUME NEW p \in Readers, reader = [q \in Readers |-> reader[q]],
         NEW pc, NEW changed, Moves(p, pc, changed)
  PROVE  /\ reader[p].pc = pc
         /\ \E new :
              /\ reader' = [reader EXCEPT ![p] = new]
              /\ \A x \in Looked :
                   new[x] = (IF x \in DOMAIN changed THEN changed[x] ELSE reader[p][x])
<1>1. reader[p].pc = pc
  BY DEF Moves, At
<1>2. PICK new : /\ reader' = [reader EXCEPT ![p] = new]
                 /\ new = [x \in DOMAIN Fresh |->
                      IF x \in DOMAIN changed THEN changed[x] ELSE reader[p][x]]
  BY DEF Moves
<1>3. Looked \subseteq DOMAIN Fresh
  BY DEF Looked, Fresh
<1> QED
  <2>1. reader[p].pc = pc
    BY <1>1
  <2>2. \A x \in Looked :
         new[x] = (IF x \in DOMAIN changed THEN changed[x] ELSE reader[p][x])
    BY <1>2, <1>3
  <2>3. reader' = [reader EXCEPT ![p] = new]
    BY <1>2
  <2> QED
    BY <2>1, <2>2, <2>3

\* A process that ends starts from nothing, but for its own task.
LEMMA Ended ==
  ASSUME NEW p \in Readers, reader = [q \in Readers |-> reader[q]],
         NEW pc, NEW answer, Answers(p, pc, answer), DOMAIN answer \cap Looked = {}
  PROVE  /\ reader[p].pc = pc
         /\ \E new :
              /\ reader' = [reader EXCEPT ![p] = new]
              /\ new.pc = "done" /\ new.then = reader[p].then
              /\ \A x \in Looked \ {"pc", "then"} : new[x] = Fresh[x]
<1> DEFINE end == [Fresh EXCEPT !.pc = "done", !.task = reader[p].task,
                     !.then = reader[p].then, !.target = reader[p].target,
                     !.watch = reader[p].watch, !.blind = reader[p].blind,
                     !.noted = reader[p].noted]
           next == Also(answer, end)
<1>1. reader[p].pc = pc /\ reader' = [reader EXCEPT ![p] = next]
  BY DEF Answers, At
<1>2. Looked \subseteq DOMAIN end
  BY DEF Looked, Fresh
<1>3. end.pc = "done" /\ end.then = reader[p].then
  BY DEF Fresh
<1>4. \A x \in Looked \ {"pc", "then"} : end[x] = Fresh[x]
  <2>1. \A x \in DOMAIN Fresh
                   \ {"pc", "task", "then", "target", "watch", "blind", "noted"} :
          end[x] = Fresh[x]
    OBVIOUS
  <2>2. Looked \ {"pc", "then"} \subseteq
          DOMAIN Fresh \ {"pc", "task", "then", "target", "watch", "blind", "noted"}
    BY DEF Looked, Fresh
  <2> QED
    BY <2>1, <2>2
<1> HIDE DEF end
<1>5. \A x \in Looked : next[x] = end[x]
  BY <1>2 DEF Also
<1>6. {"pc", "then"} \subseteq Looked
  BY DEF Looked
<1> HIDE DEF next
<1> QED
  BY <1>1, <1>3, <1>4, <1>5, <1>6

-----------------------------------------------------------------------------
(* Codex                                                                       *)

Files == {"sessions", "archived"} \X Ids

Typed(files) ==
  /\ files = [id \in Ids |-> files[id]]
  /\ \A id \in Ids :
       DOMAIN files[id] = {"dirs", "header", "stamp"} /\ files[id].stamp \in Nat

\* Headers that were parsed by this build, each when the file was as its stamp says, or
\* later.
Fit(build, headers, files) ==
  \A f \in DOMAIN headers :
    /\ f \in Files /\ headers[f].stamp \in Nat
    /\ headers[f].stamp <= files[f[2]].stamp
    /\ headers[f].stamp = files[f[2]].stamp
         => headers[f].header = Parse(build, files[f[2]].header)

Thens == {"none", "refresh", "path", "search", "unique", "verify"}

\* A process parses a file that it looked at before, or could not look at.
Stands(r, files) ==
  /\ r.found \in Seq(Files) /\ r.unit \in 1..3 /\ r.at \in Nat \ {0}
  /\ r.build \in Builds /\ r.then \in Thens /\ r.pc \notin {"stamp", "copy"}
  /\ Fit(r.build, r.previous, files) /\ Fit(r.build, r.current, files)
  /\ r.pc = "off" => DOMAIN r.previous = {} /\ DOMAIN r.current = {}
  /\ r.pc = "parse" =>
       /\ r.at <= Len(r.found)
       /\ r.stamp = -1 \/ (r.stamp \in Nat /\ r.stamp <= files[r.found[r.at][2]].stamp)

CacheRule(cache, files) ==
  cache.format \in Builds => Fit(cache.format, cache.headers, files)

CodexInv ==
  provider = "codex" =>
    /\ Typed(native) /\ limit \in Nat /\ CacheRule(cachefile, native)
    /\ reader = [p \in Readers |-> reader[p]]
    /\ \A p \in Readers : Stands(reader[p], native)

\* A file that is not the same has another stamp.
Grow(old, files) ==
  \A id \in Ids :
    /\ files[id].stamp >= old[id].stamp
    /\ files[id].stamp = old[id].stamp => files[id].header = old[id].header

\* Headers stay right while the files grow.
LEMMA FitGrows ==
  ASSUME NEW old, NEW files, Typed(old), Typed(files), Grow(old, files),
         NEW build, NEW headers, Fit(build, headers, old)
  PROVE  Fit(build, headers, files)
<1>1. ASSUME NEW f \in DOMAIN headers
      PROVE  /\ f \in Files /\ headers[f].stamp \in Nat
             /\ headers[f].stamp <= files[f[2]].stamp
             /\ headers[f].stamp = files[f[2]].stamp
                  => headers[f].header = Parse(build, files[f[2]].header)
  <2>1. f \in Files /\ f[2] \in Ids
    BY <1>1 DEF Fit, Files
  <2>2. old[f[2]].stamp \in Nat /\ files[f[2]].stamp \in Nat
    BY <2>1 DEF Typed
  <2>3. /\ files[f[2]].stamp >= old[f[2]].stamp
        /\ files[f[2]].stamp = old[f[2]].stamp => files[f[2]].header = old[f[2]].header
    BY <2>1 DEF Grow
  <2> QED
    BY <1>1, <2>1, <2>2, <2>3 DEF Fit
<1> QED
  BY <1>1 DEF Fit

\* And so do the rules of the processes.
LEMMA StandsGrows ==
  ASSUME NEW old, NEW files, Typed(old), Typed(files), Grow(old, files),
         NEW r, Stands(r, old)
  PROVE  Stands(r, files)
<1>1. Fit(r.build, r.previous, files) /\ Fit(r.build, r.current, files)
  BY FitGrows DEF Stands
<1>2. ASSUME r.pc = "parse", r.stamp \in Nat, r.stamp <= old[r.found[r.at][2]].stamp
      PROVE  r.stamp <= files[r.found[r.at][2]].stamp
  <2>1. r.found[r.at] \in Files
    BY <1>2 DEF Stands
  <2>2. r.found[r.at][2] \in Ids
    BY <2>1 DEF Files
  <2>3. old[r.found[r.at][2]].stamp \in Nat /\ files[r.found[r.at][2]].stamp \in Nat
    BY <2>2 DEF Typed
  <2> QED
    BY <1>2, <2>2, <2>3 DEF Grow
<1> QED
  BY <1>1, <1>2 DEF Stands

\* What does not change fits as before.
LEMMA Same ==
  ASSUME NEW old, Typed(old)
  PROVE  Grow(old, old)
BY DEF Typed, Grow

\* What the provider and its user do.
LEMMA ChangeGrows ==
  ASSUME Typed(native), NEW id \in Ids, NEW fields, Change(id, fields),
         DOMAIN fields \subseteq {"dirs", "header", "stamp"},
         \/ "stamp" \in DOMAIN fields /\ fields.stamp = native[id].stamp + 1
         \/ DOMAIN fields = {"dirs"}
  PROVE  Typed(native') /\ Grow(native, native')
<1>1. native' = [native EXCEPT ![id] = Also(fields, native[id])]
  BY DEF Change
<1>2. \A x \in Ids \ {id} : native'[x] = native[x]
  BY <1>1 DEF Typed
<1>3. native'[id] = Also(fields, native[id]) /\ native' = [x \in Ids |-> native'[x]]
  BY <1>1 DEF Typed
<1>4. DOMAIN native'[id] = {"dirs", "header", "stamp"}
  BY <1>3 DEF Also, Typed
<1>5. native[id].stamp \in Nat
  BY DEF Typed
<1>6. CASE "stamp" \in DOMAIN fields /\ fields.stamp = native[id].stamp + 1
  <2>1. native'[id].stamp = native[id].stamp + 1
    BY <1>3, <1>6 DEF Also
  <2> QED
    BY <1>2, <1>3, <1>4, <1>5, <2>1 DEF Typed, Grow
<1>7. CASE DOMAIN fields = {"dirs"}
  <2>1. native'[id].stamp = native[id].stamp /\ native'[id].header = native[id].header
    BY <1>3, <1>7 DEF Also, Typed
  <2> QED
    BY <1>2, <1>3, <1>4, <1>5, <2>1 DEF Typed, Grow
<1> QED
  BY <1>6, <1>7

\* Codex and its user give every rollout they write a new stamp.
LEMMA OutsideGrows ==
  ASSUME provider = "codex", Typed(native), Outside
  PROVE  Typed(native') /\ Grow(native, native')
<1>1. CASE UNCHANGED native
  BY <1>1 DEF Typed, Grow
<1>2. ASSUME NEW id \in Ids, Create(id) PROVE Typed(native') /\ Grow(native, native')
  <2>1. PICK header : Change(id, [dirs |-> {Home}, header |-> header,
                                  stamp |-> native[id].stamp + 1])
    BY <1>2 DEF Create
  <2> QED
    BY <2>1, ChangeGrows
<1>3. ASSUME NEW id \in Ids, Write(id) PROVE Typed(native') /\ Grow(native, native')
  <2>1. PICK header : Change(id, [header |-> header, stamp |-> native[id].stamp + 1])
    BY <1>3 DEF Write
  <2> QED
    BY <2>1, ChangeGrows
<1>4. ASSUME NEW id \in Ids, Erase(id) PROVE Typed(native') /\ Grow(native, native')
  BY <1>4, ChangeGrows DEF Erase
<1>5. ASSUME NEW id \in Ids, Duplicate(id) \/ Catalog(id) PROVE FALSE
  BY <1>5 DEF Duplicate, Catalog
<1>6. ASSUME NEW id \in Ids, Archive(id) \/ Unarchive(id)
      PROVE  Typed(native') /\ Grow(native, native')
  <2>1. PICK dirs : Change(id, [dirs |-> dirs, stamp |-> native[id].stamp + 1])
    BY <1>6 DEF Archive, Unarchive
  <2> QED
    BY <2>1, ChangeGrows
<1> QED
  BY <1>1, <1>2, <1>3, <1>4, <1>5, <1>6 DEF Outside, FileStep, DatabaseStep, HomeMoves

-----------------------------------------------------------------------------
(* One step of one process of omni                                             *)

\* What is left to show of a step is where the process stands then.
LEMMA StepKeeps ==
  ASSUME CodexInv, provider = "codex", UNCHANGED <<provider, limit>>,
         Typed(native'), Grow(native, native'), CacheRule(cachefile', native'),
         NEW p \in Readers, NEW new, reader' = [reader EXCEPT ![p] = new],
         Stands(new, native)
  PROVE  CodexInv'
<1>1. /\ Typed(native) /\ limit \in Nat /\ reader = [q \in Readers |-> reader[q]]
      /\ \A q \in Readers : Stands(reader[q], native)
  BY DEF CodexInv
<1>2. reader' = [q \in Readers |-> reader'[q]]
  BY <1>1
<1>3. \A q \in Readers : Stands(reader'[q], native)
  BY <1>1
<1>4. \A q \in Readers : Stands(reader'[q], native')
  BY <1>1, <1>3, StandsGrows
<1> QED
  BY <1>1, <1>2, <1>4 DEF CodexInv

\* Most steps leave the files and the cache alone.
LEMMA LooksKeep ==
  ASSUME CodexInv, provider = "codex", UNCHANGED <<provider, limit, native, cachefile>>,
         NEW p \in Readers, NEW new, reader' = [reader EXCEPT ![p] = new],
         Stands(new, native)
  PROVE  CodexInv'
<1>1. Typed(native) /\ CacheRule(cachefile, native)
  BY DEF CodexInv
<1>2. Grow(native, native)
  BY <1>1, Same
<1> QED
  BY <1>1, <1>2, StepKeeps

\* A process that ended stands well.
LEMMA EndStands ==
  ASSUME NEW files, NEW new, NEW then \in Thens, new.pc = "done", new.then = then,
         \A x \in Looked \ {"pc", "then"} : new[x] = Fresh[x]
  PROVE  Stands(new, files)
<1>1. /\ new.found = <<>> /\ new.unit = 1 /\ new.at = 1 /\ new.build = "new"
      /\ new.previous = <<>> /\ new.current = <<>>
  BY DEF Looked, Fresh
<1>2. <<>> \in Seq(Files) /\ DOMAIN <<>> = {}
  OBVIOUS
<1> QED
  BY <1>1, <1>2 DEF Stands, Fit, Builds

\* A process that ends changes nothing else that Codex' headers depend on.
LEMMA EndKeeps ==
  ASSUME CodexInv, provider = "codex", UNCHANGED <<provider, limit, cachefile>>,
         Typed(native'), Grow(native, native'),
         NEW p \in Readers, NEW pc, NEW answer, Answers(p, pc, answer),
         DOMAIN answer \cap Looked = {}
  PROVE  CodexInv'
<1>1. /\ reader = [q \in Readers |-> reader[q]] /\ Stands(reader[p], native)
      /\ Typed(native) /\ CacheRule(cachefile, native)
  BY DEF CodexInv
<1>2. PICK new : /\ reader' = [reader EXCEPT ![p] = new]
                 /\ new.pc = "done" /\ new.then = reader[p].then
                 /\ \A x \in Looked \ {"pc", "then"} : new[x] = Fresh[x]
  BY <1>1, Ended
<1>3. Stands(new, native)
  BY <1>1, <1>2, EndStands DEF Stands
<1>4. CacheRule(cachefile', native')
  BY <1>1, FitGrows DEF CacheRule
<1> QED
  BY <1>2, <1>3, <1>4, StepKeeps

-----------------------------------------------------------------------------
(* What Codex' walk finds are files of the right directories                   *)

\* What a directory shows, sorted, is a sequence of files.
LEMMA WalkFinds ==
  ASSUME NEW files \in SUBSET Files
  PROVE  NewestFirst(files) \in Seq(Files)
<1>1. ASSUME NEW id, NEW f \in files, f[2] = id
      PROVE  (CHOOSE g \in files : g[2] = id) \in Files
  BY <1>1
<1> DEFINE those(id) == {f \in files : f[2] = id}
           listed(id) == IF those(id) = {} THEN <<>> ELSE <<CHOOSE f \in files : f[2] = id>>
<1>2. ASSUME NEW id PROVE listed(id) \in Seq(Files)
  <2>1. CASE those(id) = {}
    BY <2>1
  <2>2. CASE those(id) # {}
    <3>1. (CHOOSE g \in files : g[2] = id) \in Files
      BY <1>1, <2>2
    <3>2. listed(id) = <<CHOOSE f \in files : f[2] = id>>
      BY <2>2
    <3> QED
      BY <3>1, <3>2
  <2> QED
    BY <2>1, <2>2
<1>3. NewestFirst(files) = listed(2) \o listed(1)
  BY DEF NewestFirst
<1> HIDE DEF listed
<1> QED
  BY <1>2, <1>3

\* And so is the part of it that the limit leaves.
LEMMA AtMostFits ==
  ASSUME NEW S, NEW k \in Nat, NEW files \in Seq(S)
  PROVE  AtMost(k, files) \in Seq(S)
<1>1. Len(files) \in Nat
  OBVIOUS
<1>2. CASE k < Len(files)
  BY <1>1, <1>2, SubSeqProperties DEF AtMost
<1>3. CASE ~(k < Len(files))
  BY <1>1, <1>3, SubSeqProperties DEF AtMost
<1> QED
  BY <1>2, <1>3

\* The walk reads three directories, which hold rollouts.
LEMMA CodexDirectories ==
  /\ Units.codex = CodexUnits /\ Len(Units.codex) = 3
  /\ \A unit \in 1..3 : Units.codex[unit] \subseteq Files
<1>1. Units.codex = CodexUnits
  BY DEF Units
<1>2. Len(CodexUnits) = 3
  BY DEF CodexUnits
<1>3. ASSUME NEW unit \in 1..3 PROVE CodexUnits[unit] \subseteq Files
  <2>1. CASE unit = 1
    BY <2>1 DEF CodexUnits, Files, Ids
  <2>2. CASE unit = 2
    BY <2>2 DEF CodexUnits, Files, Ids
  <2>3. CASE unit = 3
    BY <2>3 DEF CodexUnits, Files, Ids
  <2> QED
    BY <2>1, <2>2, <2>3
<1> QED
  BY <1>1, <1>2, <1>3

-----------------------------------------------------------------------------
(* The steps                                                                   *)

\* The walk (CodexWalk) finds files; the headers are not touched.
LEMMA WalkKeeps ==
  ASSUME CodexInv, NEW p \in Readers, CodexWalk(p), UNCHANGED <<provider, limit, native>>
  PROVE  CodexInv'
<1>1. /\ provider = "codex" /\ cachefile' = cachefile
      /\ reader = [q \in Readers |-> reader[q]] /\ Stands(reader[p], native)
      /\ limit \in Nat
  BY DEF CodexInv, CodexWalk
<1> DEFINE r == reader[p]
<1>2. PICK readable \in BOOLEAN :
        LET here == IF readable THEN {f \in Units.codex[r.unit] : Stored(f)} ELSE {}
            found == AtMost(limit + 1, r.found \o NewestFirst(here))
            noted == r.noted \/ ~readable
        IN IF WalkEnds(r.unit, found)
           THEN Moves(p, "walk", AfterScan(p, found, noted))
           ELSE Moves(p, "walk", [unit |-> r.unit + 1, found |-> found, noted |-> noted])
  BY DEF CodexWalk
<1> DEFINE here == IF readable THEN {f \in Units.codex[r.unit] : Stored(f)} ELSE {}
           found == AtMost(limit + 1, r.found \o NewestFirst(here))
           noted == r.noted \/ ~readable
<1>3. r.unit \in 1..3 /\ r.found \in Seq(Files)
  BY <1>1 DEF Stands
<1>4. found \in Seq(Files) /\ AtMost(limit, found) \in Seq(Files)
  <2>1. here \in SUBSET Files
    BY <1>3, CodexDirectories
  <2>2. r.found \o NewestFirst(here) \in Seq(Files)
    BY <1>3, <2>1, WalkFinds
  <2>3. limit + 1 \in Nat
    BY <1>1
  <2>4. found \in Seq(Files)
    BY <2>2, <2>3, AtMostFits
  <2> QED
    BY <1>1, <2>4, AtMostFits
<1>5. CASE WalkEnds(r.unit, found)
  <2>1. Moves(p, "walk", AfterScan(p, found, noted))
    BY <1>2, <1>5
  <2> HIDE DEF found, noted
  <2>2. PICK new :
          /\ reader' = [reader EXCEPT ![p] = new]
          /\ \A x \in Looked : new[x] = (IF x \in DOMAIN AfterScan(p, found, noted)
                                         THEN AfterScan(p, found, noted)[x] ELSE r[x])
    BY <1>1, <2>1, Stepped
  <2>3. /\ new.pc \in {"path", "titles"} /\ new.found = AtMost(limit, found) /\ new.at = 1
        /\ new.unit = r.unit /\ new.build = r.build /\ new.then = r.then
        /\ new.previous = r.previous /\ new.current = r.current
    BY <2>2 DEF Looked, AfterScan
  <2>4. Stands(new, native)
    BY <1>1, <1>4, <2>3 DEF Stands
  <2> QED
    BY <1>1, <2>2, <2>4, LooksKeep
<1>6. CASE ~WalkEnds(r.unit, found)
  <2> DEFINE changed == [unit |-> r.unit + 1, found |-> found, noted |-> noted]
  <2>1. reader[p].pc = "walk" /\ Moves(p, "walk", changed)
    BY <1>1, <1>2, <1>6 DEF CodexWalk, At
  <2> HIDE DEF found, noted
  <2>2. PICK new :
          /\ reader' = [reader EXCEPT ![p] = new]
          /\ \A x \in Looked : new[x] = (IF x \in DOMAIN changed THEN changed[x] ELSE r[x])
    BY <1>1, <2>1, Stepped
  <2>3. /\ new.pc = "walk" /\ new.found = found /\ new.unit = r.unit + 1 /\ new.at = r.at
        /\ new.build = r.build /\ new.then = r.then
        /\ new.previous = r.previous /\ new.current = r.current
    BY <2>1, <2>2 DEF Looked
  <2>4. r.unit # 3
    BY <1>6, CodexDirectories DEF WalkEnds
  <2>5. Stands(new, native)
    BY <1>1, <1>3, <1>4, <2>3, <2>4 DEF Stands
  <2> QED
    BY <1>1, <2>2, <2>5, LooksKeep
<1> QED
  BY <1>5, <1>6

\* Steps that only go on to another step.
LEMMA MoveStands ==
  ASSUME NEW files, NEW p \in Readers, reader = [q \in Readers |-> reader[q]],
         Stands(reader[p], files), NEW pc, NEW changed, Moves(p, pc, changed),
         "pc" \in DOMAIN changed, DOMAIN changed \cap Looked \subseteq {"pc", "at"},
         changed.pc \notin {"off", "parse", "stamp", "copy"},
         "at" \in DOMAIN changed => changed.at \in Nat \ {0}
  PROVE  \E new : reader' = [reader EXCEPT ![p] = new] /\ Stands(new, files)
<1>1. PICK new :
        /\ reader' = [reader EXCEPT ![p] = new]
        /\ \A x \in Looked :
             new[x] = (IF x \in DOMAIN changed THEN changed[x] ELSE reader[p][x])
  BY Stepped
<1>2. /\ new.pc = changed.pc /\ new.found = reader[p].found /\ new.unit = reader[p].unit
      /\ new.at = (IF "at" \in DOMAIN changed THEN changed.at ELSE reader[p].at)
      /\ new.build = reader[p].build /\ new.then = reader[p].then
      /\ new.previous = reader[p].previous /\ new.current = reader[p].current
  BY <1>1 DEF Looked
<1>3. Stands(new, files)
  BY <1>2 DEF Stands
<1> QED
  BY <1>1, <1>3

\* Such a step keeps the invariant when it leaves the files and the cache alone.
LEMMA MoveKeeps ==
  ASSUME CodexInv, provider = "codex", UNCHANGED <<provider, limit, native, cachefile>>,
         NEW p \in Readers, NEW pc, NEW changed, Moves(p, pc, changed),
         "pc" \in DOMAIN changed, DOMAIN changed \cap Looked \subseteq {"pc", "at"},
         changed.pc \notin {"off", "parse", "stamp", "copy"},
         "at" \in DOMAIN changed => changed.at \in Nat \ {0}
  PROVE  CodexInv'
<1>1. reader = [q \in Readers |-> reader[q]] /\ Stands(reader[p], native)
  BY DEF CodexInv
<1>2. PICK new : reader' = [reader EXCEPT ![p] = new] /\ Stands(new, native)
  BY <1>1, MoveStands
<1> QED
  BY <1>2, LooksKeep

\* session_index.jsonl has no part in the headers.
LEMMA TitlesKeep ==
  ASSUME CodexInv, provider = "codex", NEW p \in Readers, CodexTitles(p),
         UNCHANGED <<provider, limit, native>>
  PROVE  CodexInv'
<1>1. PICK wrong \in BOOLEAN :
        Moves(p, "titles", [pc |-> "load", noted |-> reader[p].noted \/ wrong])
  BY DEF CodexTitles
<1>2. cachefile' = cachefile
  BY DEF CodexTitles
<1> DEFINE changed == [pc |-> "load", noted |-> reader[p].noted \/ wrong]
<1>3. /\ Moves(p, "titles", changed) /\ DOMAIN changed = {"pc", "noted"}
      /\ changed.pc = "load"
  BY <1>1
<1>4. DOMAIN changed \cap Looked \subseteq {"pc", "at"}
  BY <1>3 DEF Looked
<1> HIDE DEF changed
<1> QED
  BY <1>2, <1>3, <1>4, MoveKeeps

\* Only headers that the same build parsed are taken from the file.
LEMMA LoadKeeps ==
  ASSUME CodexInv, provider = "codex", NEW p \in Readers, CodexLoad(p),
         UNCHANGED <<provider, limit, native>>
  PROVE  CodexInv'
<1> DEFINE r == reader[p]
           taken == IF Usable(r.build) THEN cachefile.headers ELSE <<>>
           changed == [pc |-> "open", previous |-> taken, current |-> <<>>,
                       parsed |-> FALSE]
<1>1. Moves(p, "load", changed) /\ cachefile' = cachefile
  BY DEF CodexLoad
<1>2. /\ reader = [q \in Readers |-> reader[q]] /\ Stands(reader[p], native)
      /\ CacheRule(cachefile, native)
  BY DEF CodexInv
<1>3. Fit(r.build, taken, native)
  <2>1. CASE Usable(r.build)
    BY <1>2, <2>1 DEF Stands, CacheRule, Usable
  <2>2. CASE ~Usable(r.build)
    BY <2>2 DEF Fit
  <2> QED
    BY <2>1, <2>2
<1> HIDE DEF taken
<1>4. PICK new :
        /\ reader' = [reader EXCEPT ![p] = new]
        /\ \A x \in Looked : new[x] = (IF x \in DOMAIN changed THEN changed[x] ELSE r[x])
  BY <1>1, <1>2, Stepped
<1>5. /\ new.pc = "open" /\ new.found = r.found /\ new.unit = r.unit /\ new.at = r.at
      /\ new.build = r.build /\ new.then = r.then
      /\ new.previous = taken /\ new.current = <<>>
  BY <1>4 DEF Looked
<1>6. Fit(r.build, <<>>, native)
  BY DEF Fit
<1>7. Stands(new, native)
  BY <1>2, <1>3, <1>5, <1>6 DEF Stands
<1> QED
  BY <1>1, <1>4, <1>7, LooksKeep

\* Headers without that of one file fit like those with it.
LEMMA WithoutFits ==
  ASSUME NEW build, NEW headers, NEW files, Fit(build, headers, files), NEW file
  PROVE  Fit(build, Without(headers, file), files)
BY DEF Fit, Without

\* And so do headers with one more that fits.
LEMMA WithFits ==
  ASSUME NEW build, NEW headers, NEW files, Fit(build, headers, files),
         NEW file \in Files, NEW entry, entry.stamp \in Nat,
         entry.stamp <= files[file[2]].stamp,
         entry.stamp = files[file[2]].stamp
           => entry.header = Parse(build, files[file[2]].header)
  PROVE  Fit(build, With(headers, file, entry), files)
BY DEF Fit, With

\* An entry that is still right moves to the headers that will be saved; for any other
\* file the stamp is taken before it is read.
LEMMA OpenKeeps ==
  ASSUME CodexInv, NEW p \in Readers, CodexOpen(p), UNCHANGED <<provider, limit, native>>
  PROVE  CodexInv'
<1> DEFINE r == reader[p]
           file == r.found[r.at]
<1>1. /\ provider = "codex" /\ cachefile' = cachefile
      /\ reader = [q \in Readers |-> reader[q]] /\ Stands(r, native)
      /\ Typed(native) /\ r.pc = "open" /\ r.at <= Len(r.found)
  BY DEF CodexInv, CodexOpen, At
<1>2. /\ r.found \in Seq(Files) /\ r.at \in Nat \ {0}
      /\ Fit(r.build, r.previous, native) /\ Fit(r.build, r.current, native)
  BY <1>1 DEF Stands
<1>3. file \in Files
  BY <1>1, <1>2
<1>4. CASE Hit(r, file)
  <2> DEFINE entry == r.previous[file]
             counted == Counted(r, file, entry.header)
             changed == Also([previous |-> Without(r.previous, file),
                              current |-> With(r.current, file, entry)], counted)
  <2>1. Moves(p, "open", changed)
    BY <1>4 DEF CodexOpen
  <2>2. /\ DOMAIN changed = {"previous", "current", "pc", "at", "listed", "noted"}
        /\ changed.previous = Without(r.previous, file)
        /\ changed.current = With(r.current, file, entry)
        /\ changed.pc = "open" /\ changed.at = r.at + 1
    BY DEF Also, Counted
  <2>3. Fit(r.build, Without(r.previous, file), native)
    BY <1>2, WithoutFits
  <2>4. Fit(r.build, With(r.current, file, entry), native)
    <3>1. /\ entry.stamp \in Nat /\ entry.stamp <= native[file[2]].stamp
          /\ entry.stamp = native[file[2]].stamp
               => entry.header = Parse(r.build, native[file[2]].header)
      BY <1>2, <1>4 DEF Fit, Hit
    <3> QED
      BY <1>2, <1>3, <3>1, WithFits
  <2> HIDE DEF changed, entry
  <2>5. PICK new :
          /\ reader' = [reader EXCEPT ![p] = new]
          /\ \A x \in Looked : new[x] = (IF x \in DOMAIN changed THEN changed[x] ELSE r[x])
    BY <1>1, <2>1, Stepped
  <2>6. /\ new.pc = "open" /\ new.found = r.found /\ new.unit = r.unit /\ new.at = r.at + 1
        /\ new.build = r.build /\ new.then = r.then
        /\ new.previous = Without(r.previous, file)
        /\ new.current = With(r.current, file, entry)
    BY <2>2, <2>5 DEF Looked
  <2>7. Stands(new, native)
    BY <1>1, <1>2, <2>3, <2>4, <2>6 DEF Stands
  <2> QED
    BY <1>1, <2>5, <2>7, LooksKeep
<1>5. CASE ~Hit(r, file)
  <2> DEFINE looked == IF Stored(file) THEN native[file[2]].stamp ELSE -1
             left == IF Stored(file) THEN Without(r.previous, file) ELSE r.previous
             changed == [pc |-> "parse", stamp |-> looked, previous |-> left]
  <2>1. Moves(p, "open", changed)
    BY <1>5 DEF CodexOpen
  <2>2. /\ DOMAIN changed = {"pc", "stamp", "previous"}
        /\ changed.pc = "parse" /\ changed.stamp = looked /\ changed.previous = left
    OBVIOUS
  <2>3. Fit(r.build, left, native)
    BY <1>2, WithoutFits
  <2>4. looked = -1 \/ (looked \in Nat /\ looked <= native[file[2]].stamp)
    <3>1. file[2] \in Ids
      BY <1>3 DEF Files
    <3>2. native[file[2]].stamp \in Nat
      BY <1>1, <3>1 DEF Typed
    <3> HIDE DEF file
    <3> QED
      BY <3>2
  <2> HIDE DEF changed, looked, left
  <2>5. PICK new :
          /\ reader' = [reader EXCEPT ![p] = new]
          /\ \A x \in Looked : new[x] = (IF x \in DOMAIN changed THEN changed[x] ELSE r[x])
    BY <1>1, <2>1, Stepped
  <2>6. /\ new.pc = "parse" /\ new.found = r.found /\ new.unit = r.unit /\ new.at = r.at
        /\ new.build = r.build /\ new.then = r.then /\ new.stamp = looked
        /\ new.previous = left /\ new.current = r.current
    BY <2>2, <2>5 DEF Looked
  <2>7. Stands(new, native)
    BY <1>1, <1>2, <2>3, <2>4, <2>6 DEF Stands
  <2> QED
    BY <1>1, <2>5, <2>7, LooksKeep
<1> QED
  BY <1>4, <1>5

\* What is read now is kept under the stamp from before: if the file changed in between,
\* the entry will not fit.
LEMMA ParseKeeps ==
  ASSUME CodexInv, provider = "codex", NEW p \in Readers, CodexParse(p),
         UNCHANGED <<provider, limit, native>>
  PROVE  CodexInv'
<1> DEFINE r == reader[p]
           file == r.found[r.at]
           header == Parse(r.build, native[file[2]].header)
           entry == [stamp |-> r.stamp, header |-> header]
           counted == Counted(r, file, header)
           now == IF r.stamp = -1 THEN r.current ELSE With(r.current, file, entry)
           changed == Also([current |-> now, parsed |-> r.parsed \/ r.stamp # -1], counted)
           skipped == [pc |-> "open", at |-> r.at + 1, noted |-> TRUE]
<1>1. /\ cachefile' = cachefile
      /\ reader = [q \in Readers |-> reader[q]] /\ Stands(r, native) /\ r.pc = "parse"
  BY DEF CodexInv, CodexParse, At
<1>2. /\ r.found \in Seq(Files) /\ r.at \in Nat \ {0} /\ r.at <= Len(r.found)
      /\ Fit(r.build, r.previous, native) /\ Fit(r.build, r.current, native)
      /\ r.stamp = -1 \/ (r.stamp \in Nat /\ r.stamp <= native[file[2]].stamp)
  BY <1>1 DEF Stands
<1>3. file \in Files
  BY <1>2
<1>4. CASE Moves(p, "parse", changed)
  <2>1. /\ DOMAIN changed = {"current", "parsed", "pc", "at", "listed", "noted"}
        /\ changed.current = now /\ changed.pc = "open" /\ changed.at = r.at + 1
    BY DEF Also, Counted
  <2>2. Fit(r.build, now, native)
    <3>1. CASE r.stamp = -1
      BY <1>2, <3>1
    <3>2. CASE r.stamp # -1
      <4>1. entry.stamp = r.stamp /\ entry.header = header
        OBVIOUS
      <4> HIDE DEF entry
      <4> QED
        BY <1>2, <1>3, <3>2, <4>1, WithFits
    <3> QED
      BY <3>1, <3>2
  <2> HIDE DEF changed, now
  <2>3. PICK new :
          /\ reader' = [reader EXCEPT ![p] = new]
          /\ \A x \in Looked : new[x] = (IF x \in DOMAIN changed THEN changed[x] ELSE r[x])
    BY <1>1, <1>4, Stepped
  <2>4. /\ new.pc = "open" /\ new.found = r.found /\ new.unit = r.unit /\ new.at = r.at + 1
        /\ new.build = r.build /\ new.then = r.then
        /\ new.previous = r.previous /\ new.current = now
    BY <2>1, <2>3 DEF Looked
  <2>5. Stands(new, native)
    BY <1>1, <1>2, <2>2, <2>4 DEF Stands
  <2> QED
    BY <1>1, <2>3, <2>5, LooksKeep
<1>5. CASE Moves(p, "parse", skipped)
  <2>1. /\ DOMAIN skipped = {"pc", "at", "noted"} /\ skipped.pc = "open"
        /\ skipped.at \in Nat \ {0}
    BY <1>2
  <2>2. DOMAIN skipped \cap Looked \subseteq {"pc", "at"}
    BY <2>1 DEF Looked
  <2> HIDE DEF skipped
  <2> QED
    BY <1>1, <1>5, <2>1, <2>2, MoveKeeps
<1> QED
  BY <1>4, <1>5 DEF CodexParse

\* The saved file names the build whose headers it holds.
LEMMA SaveKeeps ==
  ASSUME CodexInv, NEW p \in Readers, CodexSave(p), UNCHANGED <<provider, limit, native>>
  PROVE  CodexInv'
<1> DEFINE r == reader[p]
           changed == [pc |-> r.then, known |-> TRUE,
                       noted |-> r.noted \/ (r.found # <<>> /\ r.listed = {})]
<1>1. /\ provider = "codex" /\ Moves(p, "open", changed)
      /\ \/ UNCHANGED cachefile
         \/ cachefile' = [format |-> r.build, headers |-> r.current]
  BY DEF CodexSave
<1>2. /\ reader = [q \in Readers |-> reader[q]] /\ Stands(reader[p], native)
      /\ Typed(native) /\ CacheRule(cachefile, native)
  BY <1>1 DEF CodexInv
<1>3. r.then \in Thens /\ Fit(r.build, r.current, native)
  BY <1>2 DEF Stands
<1>4. CacheRule(cachefile', native')
  BY <1>1, <1>2, <1>3 DEF CacheRule
<1>5. Grow(native, native)
  BY <1>2, Same
<1>6. DOMAIN changed = {"pc", "known", "noted"} /\ changed.pc = r.then
  OBVIOUS
<1>7. /\ DOMAIN changed \cap Looked \subseteq {"pc", "at"}
      /\ changed.pc \notin {"off", "parse", "stamp", "copy"}
  BY <1>3, <1>6 DEF Looked, Thens
<1> HIDE DEF changed
<1>8. PICK new : reader' = [reader EXCEPT ![p] = new] /\ Stands(new, native)
  BY <1>1, <1>2, <1>6, <1>7, MoveStands
<1> QED
  BY <1>1, <1>2, <1>4, <1>5, <1>8, StepKeeps

\* A second walk begins at the first directory with nothing found.
LEMMA PathKeeps ==
  ASSUME CodexInv, provider = "codex", NEW p \in Readers, CodexPath(p),
         UNCHANGED <<provider, limit, native>>
  PROVE  CodexInv'
<1> DEFINE walk == [pc |-> "walk", unit |-> 1, found |-> <<>>, again |-> TRUE]
           read(listed) == [pc |-> "search", listed |-> listed]
           failed == [pc |-> "search", outcome |-> "failed"]
<1>1. cachefile' = cachefile
  BY DEF CodexPath
<1>2. \/ Moves(p, "path", walk)
      \/ \E listed : Moves(p, "path", read(listed))
      \/ Moves(p, "path", failed)
  BY DEF CodexPath
<1>3. CASE Moves(p, "path", walk)
  <2>1. reader = [q \in Readers |-> reader[q]] /\ Stands(reader[p], native)
    BY DEF CodexInv
  <2>2. PICK new :
          /\ reader' = [reader EXCEPT ![p] = new]
          /\ \A x \in Looked :
               new[x] = (IF x \in DOMAIN walk THEN walk[x] ELSE reader[p][x])
    BY <1>3, <2>1, Stepped
  <2>3. /\ new.pc = "walk" /\ new.found = <<>> /\ new.unit = 1 /\ new.at = reader[p].at
        /\ new.build = reader[p].build /\ new.then = reader[p].then
        /\ new.previous = reader[p].previous /\ new.current = reader[p].current
    BY <2>2 DEF Looked
  <2>4. Stands(new, native)
    BY <2>1, <2>3 DEF Stands
  <2> QED
    BY <1>1, <2>2, <2>4, LooksKeep
<1>4. ASSUME NEW listed, Moves(p, "path", read(listed)) PROVE CodexInv'
  <2>1. DOMAIN read(listed) = {"pc", "listed"} /\ read(listed).pc = "search"
    OBVIOUS
  <2>2. DOMAIN read(listed) \cap Looked \subseteq {"pc", "at"}
    BY <2>1 DEF Looked
  <2> HIDE DEF read
  <2> QED
    BY <1>1, <1>4, <2>1, <2>2, MoveKeeps
<1>5. CASE Moves(p, "path", failed)
  <2>1. DOMAIN failed = {"pc", "outcome"} /\ failed.pc = "search"
    OBVIOUS
  <2>2. DOMAIN failed \cap Looked \subseteq {"pc", "at"}
    BY <2>1 DEF Looked
  <2> HIDE DEF failed
  <2> QED
    BY <1>1, <1>5, <2>1, <2>2, MoveKeeps
<1> QED
  BY <1>2, <1>3, <1>4, <1>5

\* A process of either build begins with no headers at all.
LEMMA StartKeeps ==
  ASSUME CodexInv, provider = "codex", NEW p \in Readers, Start(p),
         UNCHANGED <<provider, limit>>
  PROVE  CodexInv'
<1>1. /\ UNCHANGED <<native, cachefile>>
      /\ reader = [q \in Readers |-> reader[q]] /\ Stands(reader[p], native)
  BY DEF CodexInv, Start, stored
<1>2. PICK t \in Tasks, target \in Ids, build \in Builds, unix \in BOOLEAN :
        Moves(p, "off", [pc |-> "walk", task |-> t.task, then |-> t.then,
                         target |-> target, build |-> build, unix |-> unix, watch |-> 1])
  BY DEF Start
<1> DEFINE changed == [pc |-> "walk", task |-> t.task, then |-> t.then,
                       target |-> target, build |-> build, unix |-> unix, watch |-> 1]
<1>3. t.then \in Thens
  BY DEF Tasks, Thens
<1>4. PICK new :
        /\ reader[p].pc = "off"
        /\ reader' = [reader EXCEPT ![p] = new]
        /\ \A x \in Looked :
             new[x] = (IF x \in DOMAIN changed THEN changed[x] ELSE reader[p][x])
  BY <1>1, <1>2, Stepped
<1>5. /\ new.pc = "walk" /\ new.found = reader[p].found /\ new.unit = reader[p].unit
      /\ new.at = reader[p].at /\ new.build = build /\ new.then = t.then
      /\ new.previous = reader[p].previous /\ new.current = reader[p].current
  BY <1>4 DEF Looked
<1>6. DOMAIN reader[p].previous = {} /\ DOMAIN reader[p].current = {}
  BY <1>1, <1>4 DEF Stands
<1>7. Fit(build, reader[p].previous, native) /\ Fit(build, reader[p].current, native)
  BY <1>6 DEF Fit
<1>8. Stands(new, native)
  BY <1>1, <1>3, <1>5, <1>7 DEF Stands
<1> QED
  BY <1>1, <1>4, <1>8, LooksKeep

\* A process that brought the index up to date has ended.
LEMMA RefreshKeeps ==
  ASSUME CodexInv, provider = "codex", NEW p \in Readers, Refresh(p),
         UNCHANGED <<provider, limit>>
  PROVE  CodexInv'
<1> DEFINE new == [Fresh EXCEPT !.pc = "done"]
<1>1. UNCHANGED <<native, cachefile>> /\ reader' = [reader EXCEPT ![p] = new]
  BY DEF Refresh, stored
<1>2. /\ new.pc = "done" /\ new.then = "none"
      /\ \A x \in DOMAIN Fresh \ {"pc"} : new[x] = Fresh[x]
  BY DEF Fresh
<1>3. Looked \subseteq DOMAIN Fresh
  BY DEF Looked, Fresh
<1> HIDE DEF new
<1>4. Stands(new, native)
  BY <1>2, <1>3, EndStands DEF Thens
<1> QED
  BY <1>1, <1>4, LooksKeep

\* The other ends, in which no file changes.
LEMMA AnswerKeeps ==
  ASSUME CodexInv, provider = "codex", UNCHANGED <<provider, limit, native, cachefile>>,
         NEW p \in Readers, NEW pc, NEW answer, Answers(p, pc, answer),
         DOMAIN answer \subseteq {"other", "unread", "outcome"}
  PROVE  CodexInv'
<1>1. Typed(native) /\ Grow(native, native)
  BY Same DEF CodexInv
<1>2. DOMAIN answer \cap Looked = {}
  BY DEF Looked
<1> QED
  BY <1>1, <1>2, EndKeeps

\* A process that resolved an ID has ended.
LEMMA ResolveKeeps ==
  ASSUME CodexInv, provider = "codex", NEW p \in Readers, Resolve(p),
         UNCHANGED <<provider, limit>>
  PROVE  CodexInv'
<1>1. UNCHANGED <<native, cachefile>>
  BY DEF Resolve, stored
<1>2. \E other, outcome : Answers(p, "search", [other |-> other, outcome |-> outcome])
  BY DEF Resolve
<1>3. PICK other, outcome :
        Answers(p, "search", [other |-> other, outcome |-> outcome])
  BY <1>2
<1> DEFINE answer == [other |-> other, outcome |-> outcome]
<1>4. Answers(p, "search", answer) /\ DOMAIN answer = {"other", "outcome"}
  BY <1>3
<1> HIDE DEF answer
<1> QED
  BY <1>1, <1>4, AnswerKeeps

\* A process that verified a deletion has ended.
LEMMA ReadBackKeeps ==
  ASSUME CodexInv, provider = "codex", NEW p \in Readers, ReadBack(p),
         UNCHANGED <<provider, limit>>
  PROVE  CodexInv'
<1>1. UNCHANGED <<native, cachefile>>
  BY DEF ReadBack, stored
<1>2. \E unread, outcome : Answers(p, "read", [unread |-> unread, outcome |-> outcome])
  BY DEF ReadBack
<1>3. PICK unread, outcome :
        Answers(p, "read", [unread |-> unread, outcome |-> outcome])
  BY <1>2
<1> DEFINE answer == [unread |-> unread, outcome |-> outcome]
<1>4. Answers(p, "read", answer) /\ DOMAIN answer = {"unread", "outcome"}
  BY <1>3
<1> HIDE DEF answer
<1> QED
  BY <1>1, <1>4, AnswerKeeps

\* Before and after a deletion a process only looks at what it listed.
LEMMA UniqueVerifyKeep ==
  ASSUME CodexInv, provider = "codex", NEW p \in Readers, Unique(p) \/ Verify(p),
         UNCHANGED <<provider, limit>>
  PROVE  CodexInv'
<1>1. UNCHANGED <<native, cachefile>>
  BY DEF Unique, Verify, stored
<1> DEFINE answer(outcome) == [outcome |-> outcome]
           changed(pc) == [pc |-> pc]
<1>2. \/ \E pc, outcome : Answers(p, pc, answer(outcome))
      \/ \E pc : \E to \in {"command", "read"} : Moves(p, pc, changed(to))
  BY DEF Unique, Verify, Ends
<1>3. ASSUME NEW pc, NEW outcome, Answers(p, pc, answer(outcome)) PROVE CodexInv'
  <2>1. DOMAIN answer(outcome) = {"outcome"}
    OBVIOUS
  <2> HIDE DEF answer
  <2> QED
    BY <1>1, <1>3, <2>1, AnswerKeeps
<1>4. ASSUME NEW pc, NEW to \in {"command", "read"}, Moves(p, pc, changed(to))
      PROVE  CodexInv'
  <2>1. DOMAIN changed(to) = {"pc"} /\ changed(to).pc = to
    OBVIOUS
  <2> HIDE DEF changed
  <2> QED
    BY <1>1, <1>4, <2>1, MoveKeeps
<1> QED
  BY <1>2, <1>3, <1>4

\* codex delete removes the files of a thread, and changes no others.
LEMMA CommandKeeps ==
  ASSUME CodexInv, provider = "codex", NEW p \in Readers, RunCommand(p),
         UNCHANGED <<provider, limit>>
  PROVE  CodexInv'
<1> DEFINE r == reader[p]
           id == r.target
           begun == BeginListing(r, "verify")
           changed == Also([then |-> "verify", watch |-> 2], begun)
<1>1. /\ cachefile' = cachefile /\ Typed(native) /\ CacheRule(cachefile, native)
      /\ reader = [q \in Readers |-> reader[q]] /\ Stands(r, native)
  BY DEF CodexInv, RunCommand
<1>2. PICK gone : native' = [native EXCEPT ![id].dirs = @ \ gone]
  BY DEF RunCommand, Removed
<1>3. ASSUME NEW x \in Ids
      PROVE  /\ DOMAIN native'[x] = {"dirs", "header", "stamp"}
             /\ native'[x].stamp = native[x].stamp /\ native'[x].header = native[x].header
  BY <1>1, <1>2 DEF Typed
<1>4. native' = [x \in Ids |-> native'[x]]
  BY <1>1, <1>2 DEF Typed
<1>5. Typed(native') /\ Grow(native, native')
  BY <1>1, <1>3, <1>4 DEF Typed, Grow
<1>6. CASE Moves(p, "command", changed)
  <2>1. /\ "pc" \in DOMAIN begun /\ begun.pc \in {"verify", "open", "walk"}
        /\ "then" \notin DOMAIN begun
        /\ DOMAIN begun \cap Looked \subseteq {"pc", "at", "unit", "found"}
        /\ "at" \in DOMAIN begun => begun.at = 1
        /\ "unit" \in DOMAIN begun => begun.unit = 1
        /\ "found" \in DOMAIN begun => begun.found = <<>>
    <3>1. CASE r.known
      BY <3>1 DEF BeginListing, Looked
    <3>2. CASE ~r.known /\ r.scanned
      BY <3>2 DEF BeginListing, Looked
    <3>3. CASE ~r.known /\ ~r.scanned
      BY <3>3 DEF BeginListing, Looked
    <3> QED
      BY <3>1, <3>2, <3>3
  <2> HIDE DEF begun
  <2>2. /\ DOMAIN changed = {"then", "watch"} \cup DOMAIN begun
        /\ changed.then = "verify" /\ changed.pc = begun.pc
        /\ \A x \in {"at", "unit", "found"} \cap DOMAIN begun : changed[x] = begun[x]
    BY <2>1 DEF Also
  <2> HIDE DEF changed
  <2>3. PICK new :
          /\ reader' = [reader EXCEPT ![p] = new]
          /\ \A x \in Looked : new[x] = (IF x \in DOMAIN changed THEN changed[x] ELSE r[x])
    BY <1>1, <1>6, Stepped
  <2>4. /\ new.pc = begun.pc /\ new.then = "verify"
        /\ new.at = r.at \/ new.at = 1
        /\ new.unit = r.unit \/ new.unit = 1
        /\ new.found = r.found \/ new.found = <<>>
    BY <2>1, <2>2, <2>3 DEF Looked
  <2>5. {"build", "previous", "current"} \cap DOMAIN changed = {}
    BY <2>1, <2>2 DEF Looked
  <2>6. /\ new.build = r.build /\ new.previous = r.previous /\ new.current = r.current
    BY <2>3, <2>5 DEF Looked
  <2>7. Stands(new, native)
    <3>1. new.pc \notin {"off", "parse", "stamp", "copy"}
      BY <2>1, <2>4
    <3>2. new.found \in Seq(Files) /\ new.unit \in 1..3 /\ new.at \in Nat \ {0}
      <4>1. r.found \in Seq(Files) /\ r.unit \in 1..3 /\ r.at \in Nat \ {0}
        BY <1>1 DEF Stands
      <4>2. <<>> \in Seq(Files)
        OBVIOUS
      <4>3. new.found \in Seq(Files)
        BY <2>4, <4>1, <4>2
      <4>4. new.unit \in 1..3
        BY <2>4, <4>1
      <4>5. new.at \in Nat \ {0}
        BY <2>4, <4>1
      <4> QED
        BY <4>3, <4>4, <4>5
    <3>3. new.then \in Thens
      BY <2>4 DEF Thens
    <3> QED
      BY <1>1, <2>6, <3>1, <3>2, <3>3 DEF Stands
  <2>8. CacheRule(cachefile', native')
    BY <1>1, <1>5, FitGrows DEF CacheRule
  <2> QED
    BY <1>5, <2>3, <2>7, <2>8, StepKeeps
<1>7. CASE Ends(p, "command", "failed")
  <2> DEFINE answer == [outcome |-> "failed"]
  <2>1. Answers(p, "command", answer) /\ DOMAIN answer = {"outcome"}
    BY <1>7 DEF Ends
  <2>2. DOMAIN answer \cap Looked = {}
    BY <2>1 DEF Looked
  <2> HIDE DEF answer
  <2> QED
    BY <1>1, <1>5, <2>1, <2>2, EndKeeps
<1> QED
  BY <1>6, <1>7 DEF RunCommand, Verifies

\* The steps of the other providers' listings are not taken for Codex.
LEMMA CodexSteps ==
  ASSUME CodexInv, provider = "codex", NEW p \in Readers, Process(p)
  PROVE  \/ Start(p) \/ Refresh(p) \/ Resolve(p) \/ Unique(p) \/ Verify(p)
         \/ RunCommand(p) \/ ReadBack(p)
         \/ /\ UNCHANGED native
            /\ \/ CodexWalk(p) \/ CodexTitles(p) \/ CodexLoad(p) \/ CodexOpen(p)
               \/ CodexParse(p) \/ CodexSave(p) \/ CodexPath(p)
<1>1. reader[p].pc \notin {"stamp", "copy"}
  BY DEF CodexInv, Stands
<1>2. ~ReadStamp(p) /\ ~CompareStamps(p) /\ ~CopyDatabase(p) /\ ~FindDatabase(p)
  BY <1>1 DEF ReadStamp, CompareStamps, CopyDatabase, FindDatabase, At
<1>3. ~Walk(p) /\ ~OneProject(p) /\ ~OpenFile(p) /\ ~Opened(p) /\ ~RemoveListed(p)
  BY DEF Walk, OneProject, OpenFile, Opened, RemoveListed, Privately
<1>4. CASE Look(p)
  BY <1>2, <1>3, <1>4 DEF Look, stored
<1> QED
  BY <1>3, <1>4 DEF Process

\* Every step of a process keeps the invariant.
LEMMA ProcessKeeps ==
  ASSUME CodexInv, provider = "codex", NEW p \in Readers, Process(p),
         UNCHANGED <<provider, limit>>
  PROVE  CodexInv'
<1>1. CASE \/ Start(p) \/ Refresh(p) \/ Resolve(p) \/ Unique(p) \/ Verify(p)
           \/ RunCommand(p) \/ ReadBack(p)
  BY <1>1, StartKeeps, RefreshKeeps, ResolveKeeps, UniqueVerifyKeep, CommandKeeps,
     ReadBackKeeps
<1>2. CASE UNCHANGED native /\ (CodexWalk(p) \/ CodexTitles(p) \/ CodexLoad(p))
  BY <1>2, WalkKeeps, TitlesKeep, LoadKeeps
<1>3. CASE UNCHANGED native /\ (\/ CodexOpen(p) \/ CodexParse(p) \/ CodexSave(p)
                                \/ CodexPath(p))
  BY <1>3, OpenKeeps, ParseKeeps, SaveKeeps, PathKeeps
<1> QED
  BY <1>1, <1>2, <1>3, CodexSteps

\* And so does every step of Codex and its user.
LEMMA OutsideKeeps ==
  ASSUME CodexInv, provider = "codex", Outside, UNCHANGED <<provider, limit>>
  PROVE  CodexInv'
<1>1. /\ Typed(native) /\ limit \in Nat /\ CacheRule(cachefile, native)
      /\ reader = [p \in Readers |-> reader[p]]
      /\ \A p \in Readers : Stands(reader[p], native)
  BY DEF CodexInv
<1>2. Typed(native') /\ Grow(native, native') /\ UNCHANGED <<reader, cachefile>>
  BY <1>1, OutsideGrows DEF Outside
<1>3. CacheRule(cachefile, native')
  BY <1>1, <1>2, FitGrows DEF CacheRule
<1>4. \A p \in Readers : Stands(reader[p], native')
  BY <1>1, <1>2, StandsGrows
<1> QED
  BY <1>1, <1>2, <1>3, <1>4 DEF CodexInv

\* At first there are no headers at all.
LEMMA InitiallyFresh ==
  ASSUME ListingInit
  PROVE  CodexInv
<1> SUFFICES ASSUME provider = "codex" PROVE CodexInv
  BY DEF CodexInv
<1>1. PICK some \in SUBSET Ids :
        native = [id \in Ids |-> IF id \in some THEN [Nothing EXCEPT !.dirs = Before(id)]
                                 ELSE Nothing]
  BY DEF ListingInit
<1>2. Typed(native)
  BY <1>1 DEF Typed, Nothing
<1>3. limit \in Nat
  BY ListingsAssumption DEF ListingInit
<1>4. cachefile.format \notin Builds
  BY DEF ListingInit, Builds
<1>5. Stands(Fresh, native)
  BY DEF Stands, Fresh, Fit, Builds, Thens
<1> QED
  BY <1>2, <1>3, <1>4, <1>5 DEF ListingInit, CodexInv, CacheRule

-----------------------------------------------------------------------------

\* Whatever Codex and its user do with the rollouts while any number of processes list
\* them, and whichever builds of omni they are, a header that a process keeps for a file
\* as it is now is the one it would read in it (rollout_cache.rs:3).
THEOREM HeadersStayFresh == ListingSpec => []CacheIsFresh
<1>1. ListingInit => CodexInv
  BY InitiallyFresh
<1>2. CodexInv /\ [ListingNext]_listing => CodexInv'
  <2> SUFFICES ASSUME CodexInv, [ListingNext]_listing PROVE CodexInv'
    OBVIOUS
  <2>1. CASE provider # "codex"
    BY <2>1 DEF CodexInv, ListingNext, listing
  <2>2. CASE provider = "codex" /\ UNCHANGED listing
    BY <2>2 DEF CodexInv, listing
  <2>3. CASE provider = "codex" /\ ListingNext
    BY <2>3, OutsideKeeps, ProcessKeeps DEF ListingNext
  <2> QED
    BY <2>1, <2>2, <2>3
<1>3. CodexInv => CacheIsFresh
  BY DEF CodexInv, CacheIsFresh, Stands, Fit
<1> QED
  BY <1>1, <1>2, <1>3, PTL DEF ListingSpec

-----------------------------------------------------------------------------
(* What every process knows of its own task, whatever the provider             *)

\* All that a step changes.
LEMMA SteppedAll ==
  ASSUME NEW p \in Readers, reader = [q \in Readers |-> reader[q]],
         NEW pc, NEW changed, Moves(p, pc, changed)
  PROVE  /\ reader[p].pc = pc
         /\ \E new :
              /\ reader' = [reader EXCEPT ![p] = new]
              /\ \A x \in DOMAIN Fresh :
                   new[x] = (IF x \in DOMAIN changed THEN changed[x] ELSE reader[p][x])
<1>1. reader[p].pc = pc
  BY DEF Moves, At
<1>2. PICK new : /\ reader' = [reader EXCEPT ![p] = new]
                 /\ new = [x \in DOMAIN Fresh |->
                      IF x \in DOMAIN changed THEN changed[x] ELSE reader[p][x]]
  BY DEF Moves
<1>3. \A x \in DOMAIN Fresh :
        new[x] = (IF x \in DOMAIN changed THEN changed[x] ELSE reader[p][x])
  BY <1>2
<1> QED
  BY <1>1, <1>2, <1>3

\* And all that its end leaves.
LEMMA EndedAll ==
  ASSUME NEW p \in Readers, reader = [q \in Readers |-> reader[q]],
         NEW pc, NEW answer, Answers(p, pc, answer),
         DOMAIN answer \subseteq {"other", "unread", "outcome"}
  PROVE  /\ reader[p].pc = pc
         /\ \E new :
              /\ reader' = [reader EXCEPT ![p] = new]
              /\ new.pc = "done" /\ new.then = reader[p].then /\ new.task = reader[p].task
              /\ new.watch = reader[p].watch
              /\ \A x \in DOMAIN answer : new[x] = answer[x]
              /\ \A x \in DOMAIN Fresh
                   \ {"pc", "task", "then", "target", "watch", "blind", "noted",
                      "other", "unread", "outcome"} : new[x] = Fresh[x]
<1> DEFINE end == [Fresh EXCEPT !.pc = "done", !.task = reader[p].task,
                     !.then = reader[p].then, !.target = reader[p].target,
                     !.watch = reader[p].watch, !.blind = reader[p].blind,
                     !.noted = reader[p].noted]
           kept == {"pc", "task", "then", "target", "watch", "blind", "noted"}
           next == Also(answer, end)
<1>1. reader[p].pc = pc /\ reader' = [reader EXCEPT ![p] = next]
  BY DEF Answers, At
<1>2. DOMAIN end = DOMAIN Fresh /\ kept \subseteq DOMAIN Fresh
  BY DEF Fresh
<1>3. /\ end.pc = "done" /\ end.then = reader[p].then /\ end.task = reader[p].task
      /\ end.watch = reader[p].watch
  BY DEF Fresh
<1>4. \A x \in DOMAIN Fresh \ kept : end[x] = Fresh[x]
  OBVIOUS
<1> HIDE DEF end
<1>5. /\ \A x \in DOMAIN answer : next[x] = answer[x]
      /\ \A x \in DOMAIN Fresh \ DOMAIN answer : next[x] = end[x]
  BY <1>2 DEF Also
<1>6. {"pc", "then", "task", "watch"} \subseteq DOMAIN Fresh \ DOMAIN answer
  BY <1>2
<1> HIDE DEF next
<1>7. \A x \in DOMAIN Fresh
          \ {"pc", "task", "then", "target", "watch", "blind", "noted",
             "other", "unread", "outcome"} : next[x] = Fresh[x]
  <2> SUFFICES ASSUME NEW x \in DOMAIN Fresh
                        \ {"pc", "task", "then", "target", "watch", "blind", "noted",
                           "other", "unread", "outcome"}
               PROVE  next[x] = Fresh[x]
    OBVIOUS
  <2>1. x \in DOMAIN Fresh \ kept /\ x \in DOMAIN Fresh \ DOMAIN answer
    OBVIOUS
  <2> QED
    BY <1>4, <1>5, <2>1
<1>8. /\ next.pc = "done" /\ next.then = reader[p].then /\ next.task = reader[p].task
      /\ next.watch = reader[p].watch
  BY <1>3, <1>5, <1>6
<1>9. \A x \in DOMAIN answer : next[x] = answer[x]
  BY <1>5
<1> HIDE DEF kept
<1> QED
  BY <1>1, <1>7, <1>8, <1>9

\* What a process decides is what its listing was for.
Phase(r) ==
  /\ r.then \in Thens
  /\ r.pc = "refresh" => r.then = "refresh"
  /\ r.pc \in {"unique", "command"} => r.then = "unique"
  /\ r.pc \in {"verify", "read"} => r.then = "verify"
  /\ r.then \in {"unique", "verify"} => r.task = "delete"
  /\ r.pc = "off" => r.task = "none" /\ r.watch = 0 /\ r.unit = 1

\* What was there at every moment is there now.
WatchRule ==
  /\ reader = [p \in Readers |-> reader[p]]
  /\ steady = [p \in Readers |-> steady[p]] /\ moments = [p \in Readers |-> moments[p]]
  /\ \A p \in Readers :
       /\ Phase(reader[p])
       /\ steady[p] \subseteq ThereFor(reader[p].then)
       /\ reader[p].task = "none" => steady[p] = {} /\ moments[p] = {}

\* The places where a task decides something.
Deciding == {"refresh", "unique", "command", "verify", "read"}

\* A step within a listing goes to the place where its task decides something, or to none.
LEMMA PhaseMoves ==
  ASSUME NEW p \in Readers, reader = [q \in Readers |-> reader[q]], Phase(reader[p]),
         NEW pc, NEW changed, Moves(p, pc, changed), pc # "off",
         DOMAIN changed \cap {"then", "task", "watch"} = {},
         "pc" \in DOMAIN changed =>
           \/ changed.pc \notin {"off"} \cup Deciding
           \/ changed.pc = reader[p].then
           \/ pc = "unique" /\ changed.pc = "command"
           \/ pc = "verify" /\ changed.pc = "read"
  PROVE  \E new : reader' = [reader EXCEPT ![p] = new] /\ Phase(new)
<1>1. PICK new :
        /\ reader[p].pc = pc
        /\ reader' = [reader EXCEPT ![p] = new]
        /\ \A x \in DOMAIN Fresh :
             new[x] = (IF x \in DOMAIN changed THEN changed[x] ELSE reader[p][x])
  BY SteppedAll
<1>2. {"pc", "then", "task", "watch"} \subseteq DOMAIN Fresh
  BY DEF Fresh
<1>3. /\ new.then = reader[p].then /\ new.task = reader[p].task
      /\ new.pc = (IF "pc" \in DOMAIN changed THEN changed.pc ELSE pc)
  BY <1>1, <1>2
<1>4. Phase(new)
  BY <1>1, <1>3 DEF Phase, Thens, Deciding
<1> QED
  BY <1>1, <1>4

\* A process that has ended decides nothing any more.
LEMMA PhaseEnds ==
  ASSUME NEW p \in Readers, reader = [q \in Readers |-> reader[q]], Phase(reader[p]),
         NEW pc, NEW answer, Answers(p, pc, answer),
         DOMAIN answer \subseteq {"other", "unread", "outcome"}
  PROVE  \E new : reader' = [reader EXCEPT ![p] = new] /\ Phase(new)
<1>1. PICK new :
        /\ reader' = [reader EXCEPT ![p] = new]
        /\ new.pc = "done" /\ new.then = reader[p].then /\ new.task = reader[p].task
  BY EndedAll
<1> QED
  BY <1>1 DEF Phase

\* What the steps of a listing change of a process.
Inside(r, pc, changed) ==
  /\ pc # "off" /\ DOMAIN changed \cap {"then", "task", "watch"} = {}
  /\ "pc" \in DOMAIN changed =>
       \/ changed.pc \notin {"off"} \cup Deciding
       \/ changed.pc = r.then
       \/ pc = "unique" /\ changed.pc = "command"
       \/ pc = "verify" /\ changed.pc = "read"

\* Each step of a listing stays inside of it.
LEMMA CodexInside ==
  ASSUME NEW p \in Readers, \/ CodexWalk(p) \/ CodexTitles(p) \/ CodexLoad(p) \/ CodexOpen(p)
                            \/ CodexParse(p) \/ CodexSave(p) \/ CodexPath(p)
  PROVE  \E pc, changed : Moves(p, pc, changed) /\ Inside(reader[p], pc, changed)
<1>1. CASE CodexWalk(p)
  <2>1. \/ \E found, noted : Moves(p, "walk", AfterScan(p, found, noted))
        \/ \E unit, found, noted :
             Moves(p, "walk", [unit |-> unit, found |-> found, noted |-> noted])
    BY <1>1 DEF CodexWalk
  <2>2. ASSUME NEW found, NEW noted
        PROVE  Inside(reader[p], "walk", AfterScan(p, found, noted))
    BY DEF Inside, AfterScan, Deciding
  <2>3. ASSUME NEW unit, NEW found, NEW noted
        PROVE  Inside(reader[p], "walk", [unit |-> unit, found |-> found, noted |-> noted])
    BY DEF Inside
  <2> QED
    BY <2>1, <2>2, <2>3
<1>2. CASE CodexTitles(p)
  <2>1. \E noted : Moves(p, "titles", [pc |-> "load", noted |-> noted])
    BY <1>2 DEF CodexTitles
  <2>2. ASSUME NEW noted
        PROVE  Inside(reader[p], "titles", [pc |-> "load", noted |-> noted])
    BY DEF Inside, Deciding
  <2> QED
    BY <2>1, <2>2
<1>3. CASE CodexLoad(p)
  <2>1. \E previous, current :
          Moves(p, "load", [pc |-> "open", previous |-> previous, current |-> current,
                            parsed |-> FALSE])
    BY <1>3 DEF CodexLoad
  <2>2. ASSUME NEW previous, NEW current
        PROVE  Inside(reader[p], "load",
                      [pc |-> "open", previous |-> previous, current |-> current,
                       parsed |-> FALSE])
    BY DEF Inside, Deciding
  <2> QED
    BY <2>1, <2>2
<1>4. CASE CodexOpen(p)
  <2>1. \/ \E previous, current, file, header :
             Moves(p, "open", Also([previous |-> previous, current |-> current],
                                   Counted(reader[p], file, header)))
        \/ \E stamp, previous :
             Moves(p, "open", [pc |-> "parse", stamp |-> stamp, previous |-> previous])
    BY <1>4 DEF CodexOpen
  <2>2. ASSUME NEW previous, NEW current, NEW file, NEW header
        PROVE  Inside(reader[p], "open", Also([previous |-> previous, current |-> current],
                                              Counted(reader[p], file, header)))
    BY DEF Inside, Deciding, Also, Counted
  <2>3. ASSUME NEW stamp, NEW previous
        PROVE  Inside(reader[p], "open",
                      [pc |-> "parse", stamp |-> stamp, previous |-> previous])
    BY DEF Inside, Deciding
  <2> QED
    BY <2>1, <2>2, <2>3
<1>5. CASE CodexParse(p)
  <2>1. \/ \E current, parsed, file, header :
             Moves(p, "parse", Also([current |-> current, parsed |-> parsed],
                                    Counted(reader[p], file, header)))
        \/ \E at : Moves(p, "parse", [pc |-> "open", at |-> at, noted |-> TRUE])
    BY <1>5 DEF CodexParse
  <2>2. ASSUME NEW current, NEW parsed, NEW file, NEW header
        PROVE  Inside(reader[p], "parse", Also([current |-> current, parsed |-> parsed],
                                               Counted(reader[p], file, header)))
    BY DEF Inside, Deciding, Also, Counted
  <2>3. ASSUME NEW at
        PROVE  Inside(reader[p], "parse", [pc |-> "open", at |-> at, noted |-> TRUE])
    BY DEF Inside, Deciding
  <2> QED
    BY <2>1, <2>2, <2>3
<1>6. CASE CodexSave(p)
  <2>1. \E noted : Moves(p, "open", [pc |-> reader[p].then, known |-> TRUE, noted |-> noted])
    BY <1>6 DEF CodexSave
  <2>2. ASSUME NEW noted
        PROVE  Inside(reader[p], "open",
                      [pc |-> reader[p].then, known |-> TRUE, noted |-> noted])
    BY DEF Inside
  <2> QED
    BY <2>1, <2>2
<1>7. CASE CodexPath(p)
  <2>1. \/ Moves(p, "path", [pc |-> "walk", unit |-> 1, found |-> <<>>, again |-> TRUE])
        \/ \E listed : Moves(p, "path", [pc |-> "search", listed |-> listed])
        \/ Moves(p, "path", [pc |-> "search", outcome |-> "failed"])
    BY <1>7 DEF CodexPath
  <2>2. /\ Inside(reader[p], "path",
                  [pc |-> "walk", unit |-> 1, found |-> <<>>, again |-> TRUE])
        /\ Inside(reader[p], "path", [pc |-> "search", outcome |-> "failed"])
    BY DEF Inside, Deciding
  <2>3. ASSUME NEW listed
        PROVE  Inside(reader[p], "path", [pc |-> "search", listed |-> listed])
    BY DEF Inside, Deciding
  <2> QED
    BY <2>1, <2>2, <2>3
<1> QED
  BY <1>1, <1>2, <1>3, <1>4, <1>5, <1>6, <1>7

\* And so do those of the other adapters.
LEMMA WalksInside ==
  ASSUME NEW p \in Readers, Walk(p) \/ OneProject(p) \/ OpenFile(p) \/ Opened(p)
  PROVE  \E pc, changed : Moves(p, pc, changed) /\ Inside(reader[p], pc, changed)
<1> DEFINE to == reader[p].then
<1>1. CASE Walk(p)
  <2> DEFINE went(pc, unit, found, blind, scanned) ==
        [pc |-> pc, unit |-> unit, at |-> 1, found |-> found, blind |-> blind,
         scanned |-> scanned]
  <2>1. \/ \E pc \in {"open", "walk"} : \E unit, found, blind, scanned :
             Moves(p, "walk", went(pc, unit, found, blind, scanned))
        \/ Moves(p, "walk", [pc |-> to, outcome |-> "failed"])
    BY <1>1 DEF Walk
  <2>2. ASSUME NEW pc \in {"open", "walk"}, NEW unit, NEW found, NEW blind, NEW scanned
        PROVE  Inside(reader[p], "walk", went(pc, unit, found, blind, scanned))
    BY DEF Inside, Deciding
  <2>3. Inside(reader[p], "walk", [pc |-> to, outcome |-> "failed"])
    BY DEF Inside
  <2> HIDE DEF went
  <2> QED
    BY <2>1, <2>2, <2>3
<1>2. CASE OneProject(p)
  <2>1. \E found : Moves(p, "walk", [pc |-> "open", at |-> 1, found |-> found,
                                     blind |-> TRUE, noted |-> TRUE])
    BY <1>2 DEF OneProject
  <2>2. ASSUME NEW found
        PROVE  Inside(reader[p], "walk", [pc |-> "open", at |-> 1, found |-> found,
                                          blind |-> TRUE, noted |-> TRUE])
    BY DEF Inside, Deciding
  <2> QED
    BY <2>1, <2>2
<1>3. CASE OpenFile(p)
  <2>1. \/ \E at, listed : Moves(p, "open", [at |-> at, listed |-> listed])
        \/ Moves(p, "open", [pc |-> to, outcome |-> "failed"])
    BY <1>3 DEF OpenFile
  <2>2. ASSUME NEW at, NEW listed
        PROVE  Inside(reader[p], "open", [at |-> at, listed |-> listed])
    BY DEF Inside
  <2>3. Inside(reader[p], "open", [pc |-> to, outcome |-> "failed"])
    BY DEF Inside
  <2> QED
    BY <2>1, <2>2, <2>3
<1>4. CASE Opened(p)
  <2>1. Moves(p, "open", [pc |-> to])
    BY <1>4 DEF Opened
  <2>2. Inside(reader[p], "open", [pc |-> to])
    BY DEF Inside
  <2> QED
    BY <2>1, <2>2
<1> QED
  BY <1>1, <1>2, <1>3, <1>4

\* Hermes' snapshot too.
LEMMA SnapshotInside ==
  ASSUME NEW p \in Readers, FindDatabase(p) \/ ReadStamp(p) \/ CompareStamps(p) \/ CopyDatabase(p)
  PROVE  \E pc, changed : Moves(p, pc, changed) /\ Inside(reader[p], pc, changed)
<1> DEFINE to == reader[p].then
           failed == [pc |-> to, outcome |-> "failed"]
<1>1. Inside(reader[p], "stamp", failed) /\ Inside(reader[p], "copy", failed)
  BY DEF Inside
<1>2. CASE FindDatabase(p)
  <2>1. \/ \E pc \in {"stamp", "copy"} :
             Moves(p, "walk", [pc |-> pc, stamps |-> <<>>, round |-> 1, try |-> 1])
        \/ Moves(p, "walk", [pc |-> to, listed |-> {}])
    BY <1>2 DEF FindDatabase
  <2>2. ASSUME NEW pc \in {"stamp", "copy"}
        PROVE  Inside(reader[p], "walk",
                      [pc |-> pc, stamps |-> <<>>, round |-> 1, try |-> 1])
    BY DEF Inside, Deciding
  <2>3. Inside(reader[p], "walk", [pc |-> to, listed |-> {}])
    BY DEF Inside
  <2> QED
    BY <2>1, <2>2, <2>3
<1>3. CASE ReadStamp(p)
  <2>1. \/ \E stamps : Moves(p, "stamp", [stamps |-> stamps])
        \/ \E listed : Moves(p, "stamp", [pc |-> to, listed |-> listed])
        \/ \E stamps : Moves(p, "stamp", [pc |-> "copy", stamps |-> stamps, copy |-> NoCopy,
                                          reads |-> <<>>, try |-> 1])
        \/ Moves(p, "stamp", failed)
    BY <1>3 DEF ReadStamp, SnapshotFails
  <2>2. ASSUME NEW stamps
        PROVE  /\ Inside(reader[p], "stamp", [stamps |-> stamps])
               /\ Inside(reader[p], "stamp",
                         [pc |-> "copy", stamps |-> stamps, copy |-> NoCopy,
                          reads |-> <<>>, try |-> 1])
    BY DEF Inside, Deciding
  <2>3. ASSUME NEW listed
        PROVE  Inside(reader[p], "stamp", [pc |-> to, listed |-> listed])
    BY DEF Inside
  <2> HIDE DEF failed
  <2> QED
    BY <1>1, <2>1, <2>2, <2>3
<1>4. CASE CompareStamps(p)
  <2>1. \/ \E listed, copy : Moves(p, "stamp", [pc |-> to, listed |-> listed, copy |-> copy])
        \/ \E round : Moves(p, "stamp", [stamps |-> <<>>, round |-> round, copy |-> NoCopy])
        \/ Moves(p, "stamp", failed)
    BY <1>4 DEF CompareStamps, SnapshotFails
  <2>2. ASSUME NEW listed, NEW copy
        PROVE  Inside(reader[p], "stamp", [pc |-> to, listed |-> listed, copy |-> copy])
    BY DEF Inside
  <2>3. ASSUME NEW round
        PROVE  Inside(reader[p], "stamp",
                      [stamps |-> <<>>, round |-> round, copy |-> NoCopy])
    BY DEF Inside
  <2> HIDE DEF failed
  <2> QED
    BY <1>1, <2>1, <2>2, <2>3
<1>5. CASE CopyDatabase(p)
  <2>1. \/ \E reads : Moves(p, "copy", [reads |-> reads])
        \/ \E copy : Moves(p, "copy", [pc |-> "stamp", reads |-> <<>>, copy |-> copy])
        \/ \E listed : Moves(p, "copy", [pc |-> to, reads |-> <<>>, listed |-> listed])
        \/ \E try : Moves(p, "copy", [reads |-> <<>>, try |-> try])
        \/ Moves(p, "copy", failed)
    BY <1>5 DEF CopyDatabase, SnapshotFails
  <2>2. ASSUME NEW value
        PROVE  /\ Inside(reader[p], "copy", [reads |-> value])
               /\ Inside(reader[p], "copy", [reads |-> <<>>, try |-> value])
               /\ Inside(reader[p], "copy", [pc |-> "stamp", reads |-> <<>>, copy |-> value])
    BY DEF Inside, Deciding
  <2>3. ASSUME NEW listed
        PROVE  Inside(reader[p], "copy", [pc |-> to, reads |-> <<>>, listed |-> listed])
    BY DEF Inside
  <2> HIDE DEF failed
  <2> QED
    BY <1>1, <2>1, <2>2, <2>3
<1> QED
  BY <1>2, <1>3, <1>4, <1>5

\* A process changes itself alone, and knows its task.
LEMMA PhaseSteps ==
  ASSUME WatchRule, NEW p \in Readers, Process(p)
  PROVE  \E new : reader' = [reader EXCEPT ![p] = new] /\ Phase(new)
<1>1. reader = [q \in Readers |-> reader[q]] /\ Phase(reader[p])
  BY DEF WatchRule
<1>2. CASE \E pc, changed : Moves(p, pc, changed) /\ Inside(reader[p], pc, changed)
  BY <1>1, <1>2, PhaseMoves DEF Inside
<1>3. CASE \E pc, answer : /\ Answers(p, pc, answer)
                           /\ DOMAIN answer \subseteq {"other", "unread", "outcome"}
  BY <1>1, <1>3, PhaseEnds
<1>4. CASE Look(p)
  BY <1>2, <1>4, CodexInside, WalksInside, SnapshotInside DEF Look
<1>5. CASE Start(p)
  <2>1. PICK t \in Tasks, target \in Ids, build \in Builds, unix \in BOOLEAN :
          Moves(p, "off", [pc |-> "walk", task |-> t.task, then |-> t.then,
                           target |-> target, build |-> build, unix |-> unix, watch |-> 1])
    BY <1>5 DEF Start
  <2> DEFINE changed == [pc |-> "walk", task |-> t.task, then |-> t.then,
                         target |-> target, build |-> build, unix |-> unix, watch |-> 1]
  <2>2. PICK new :
          /\ reader' = [reader EXCEPT ![p] = new]
          /\ \A x \in DOMAIN Fresh :
               new[x] = (IF x \in DOMAIN changed THEN changed[x] ELSE reader[p][x])
    BY <1>1, <2>1, SteppedAll
  <2>3. new.pc = "walk" /\ new.then = t.then /\ new.task = t.task
    BY <2>2 DEF Fresh
  <2>4. t.then \in Thens /\ (t.then \in {"unique", "verify"} => t.task = "delete")
    BY DEF Tasks, Thens
  <2> QED
    BY <2>2, <2>3, <2>4 DEF Phase
<1>6. CASE Refresh(p)
  <2>1. reader' = [reader EXCEPT ![p] = [Fresh EXCEPT !.pc = "done"]]
    BY <1>6 DEF Refresh
  <2>2. Phase([Fresh EXCEPT !.pc = "done"])
    BY DEF Phase, Fresh, Thens
  <2> QED
    BY <2>1, <2>2
<1>7. CASE Resolve(p)
  <2>1. \E other, outcome : Answers(p, "search", [other |-> other, outcome |-> outcome])
    BY <1>7 DEF Resolve
  <2>2. ASSUME NEW other, NEW outcome
        PROVE  DOMAIN [other |-> other, outcome |-> outcome]
                 \subseteq {"other", "unread", "outcome"}
    OBVIOUS
  <2> QED
    BY <1>3, <2>1, <2>2
<1>8. ASSUME NEW pc, NEW outcome, Ends(p, pc, outcome)
      PROVE  \E new : reader' = [reader EXCEPT ![p] = new] /\ Phase(new)
  <2>1. Answers(p, pc, [outcome |-> outcome])
    BY <1>8 DEF Ends
  <2>2. DOMAIN [outcome |-> outcome] \subseteq {"other", "unread", "outcome"}
    OBVIOUS
  <2> QED
    BY <1>3, <2>1, <2>2
<1>9. CASE Unique(p) \/ Verify(p)
  <2>1. \/ \E pc, outcome : Ends(p, pc, outcome)
        \/ Moves(p, "unique", [pc |-> "command"])
        \/ Moves(p, "verify", [pc |-> "read"])
    BY <1>9 DEF Unique, Verify
  <2>2. /\ Inside(reader[p], "unique", [pc |-> "command"])
        /\ Inside(reader[p], "verify", [pc |-> "read"])
    BY DEF Inside
  <2> QED
    BY <1>2, <1>8, <2>1, <2>2
<1>10. CASE Verifies(p)
  <2> DEFINE begun == BeginListing(reader[p], "verify")
             changed == Also([then |-> "verify", watch |-> 2], begun)
  <2>1. Moves(p, "command", changed)
    BY <1>10 DEF Verifies
  <2>2. begun.pc \in {"verify", "open", "walk"} /\ "pc" \in DOMAIN begun
        /\ DOMAIN begun \cap {"then", "task"} = {}
    BY DEF BeginListing
  <2> HIDE DEF begun
  <2>3. /\ "pc" \in DOMAIN changed /\ changed.pc = begun.pc
        /\ "then" \in DOMAIN changed /\ changed.then = "verify" /\ "task" \notin DOMAIN changed
    BY <2>2 DEF Also
  <2> HIDE DEF changed
  <2>4. PICK new :
          /\ reader[p].pc = "command"
          /\ reader' = [reader EXCEPT ![p] = new]
          /\ \A x \in DOMAIN Fresh :
               new[x] = (IF x \in DOMAIN changed THEN changed[x] ELSE reader[p][x])
    BY <1>1, <2>1, SteppedAll
  <2>5. {"pc", "then", "task"} \subseteq DOMAIN Fresh
    BY DEF Fresh
  <2>6. new.pc \in {"verify", "open", "walk"} /\ new.then = "verify" /\ new.task = reader[p].task
    BY <2>2, <2>3, <2>4, <2>5
  <2>7. reader[p].task = "delete"
    BY <1>1, <2>4 DEF Phase
  <2> QED
    BY <2>4, <2>6, <2>7 DEF Phase, Thens
<1>11. CASE RemoveListed(p) \/ RunCommand(p)
  BY <1>8, <1>10, <1>11 DEF RemoveListed, RunCommand
<1>12. CASE ReadBack(p)
  <2>1. \E unread, outcome : Answers(p, "read", [unread |-> unread, outcome |-> outcome])
    BY <1>12 DEF ReadBack
  <2>2. ASSUME NEW unread, NEW outcome
        PROVE  DOMAIN [unread |-> unread, outcome |-> outcome]
                 \subseteq {"other", "unread", "outcome"}
    OBVIOUS
  <2> QED
    BY <1>3, <2>1, <2>2
<1> QED
  BY <1>4, <1>5, <1>6, <1>7, <1>9, <1>11, <1>12 DEF Process

\* The watch is kept by every step.
LEMMA WatchKept ==
  ASSUME WatchRule, ListingNext
  PROVE  WatchRule'
<1>1. /\ reader' = [q \in Readers |-> reader'[q]]
      /\ \A q \in Readers : Phase(reader'[q])
  <2>1. CASE UNCHANGED reader
    BY <2>1 DEF WatchRule
  <2>2. ASSUME NEW p \in Readers, Process(p)
        PROVE  /\ reader' = [q \in Readers |-> reader'[q]]
               /\ \A q \in Readers : Phase(reader'[q])
    <3>1. PICK new : reader' = [reader EXCEPT ![p] = new] /\ Phase(new)
      BY <2>2, PhaseSteps
    <3> QED
      BY <3>1 DEF WatchRule
  <2> QED
    BY <2>1, <2>2 DEF ListingNext, Outside
<1>2. /\ steady' = [q \in Readers |-> steady'[q]] /\ moments' = [q \in Readers |-> moments'[q]]
      /\ \A q \in Readers :
           /\ steady'[q] \subseteq ThereFor(reader[q].then)'
           /\ reader'[q].task = "none" => steady'[q] = {} /\ moments'[q] = {}
  <2>1. Watch
    BY DEF ListingNext
  <2> QED
    BY <2>1 DEF Watch
<1> QED
  BY <1>1, <1>2 DEF WatchRule

\* At first nobody has a task.
LEMMA WatchBegins ==
  ASSUME ListingInit
  PROVE  WatchRule
<1>1. Phase(Fresh) /\ Fresh.task = "none"
  BY DEF Phase, Fresh, Thens
<1> QED
  BY <1>1 DEF ListingInit, WatchRule

-----------------------------------------------------------------------------
(* Codex: what is not noted is seen                                            *)

\* The walk has a file of the session, or comes to a directory with one.
Gathered(found, id) == \E i \in 1..Len(found) : found[i][2] = id

Ahead(unit, id, files) ==
  \E k \in unit..3 : \E dir \in files[id].dirs : <<dir, id>> \in CodexUnits[k]

\* A session that is there all the time is in the list, in what the walk found, or in a
\* directory that it has still to read, unless something was noted.
Covers(r, id, files) ==
  \/ r.noted
  \/ /\ r.pc = "walk" =>
          Len(r.found) > limit \/ Gathered(r.found, id) \/ Ahead(r.unit, id, files)
     /\ r.pc \in {"titles", "load"} => r.at = 1 /\ Gathered(r.found, id)
     /\ r.pc \in {"open", "parse"} =>
          id \in IdsOf(r.listed) \/ \E i \in r.at..Len(r.found) : r.found[i][2] = id
     /\ r.pc = "refresh" => id \in IdsOf(r.listed)

\* Rollouts are in directories that the walk reads.
Placed(files) == \A id \in Ids : files[id].dirs \subseteq {"sessions", "archived"}

\* So it is for every process whose listing refreshes the index.
CoverInv ==
  provider = "codex" =>
    /\ Placed(native)
    /\ \A p \in Readers : reader[p].then = "refresh" =>
         \A id \in steady[p] : Covers(reader[p], id, native)

\* Whatever is in one of Codex' directories is in one that the walk reads.
LEMMA UnitsHold ==
  ASSUME NEW id \in Ids, NEW dir \in {"sessions", "archived"}
  PROVE  /\ \E k \in 1..3 : <<dir, id>> \in CodexUnits[k]
         /\ <<"archived", id>> \in CodexUnits[3]
<1>1. <<"sessions", 2>> \in CodexUnits[1] /\ <<"sessions", 1>> \in CodexUnits[2]
  BY DEF CodexUnits
<1>2. <<"archived", id>> \in CodexUnits[3]
  BY DEF CodexUnits
<1>3. id = 1 \/ id = 2
  BY DEF Ids
<1>4. \E k \in 1..3 : <<dir, id>> \in CodexUnits[k]
  BY <1>1, <1>2, <1>3
<1> QED
  BY <1>2, <1>4

\* A new rollout is in one of them.
LEMMA HomeIs ==
  ASSUME provider = "codex"
  PROVE  Home \in {"sessions", "archived"}
<1> DEFINE Holds(dir) == \E i \in DOMAIN Units[provider] :
                           \E f \in Units[provider][i] : f[1] = dir
<1>1. Units[provider] = CodexUnits /\ DOMAIN CodexUnits = 1..3
  BY DEF Units, CodexUnits
<1>2. <<"sessions", 2>> \in CodexUnits[1]
  BY DEF CodexUnits
<1>3. Holds("sessions")
  BY <1>1, <1>2
<1>4. \A dir : Holds(dir) => dir \in {"sessions", "archived"}
  BY <1>1, CodexDirectories DEF Files
<1>5. Home = CHOOSE dir \in {"sessions", "first", "directory", "rows"} : Holds(dir)
  BY DEF Home
<1> HIDE DEF Holds
<1>6. Holds(Home)
  BY <1>3, <1>5
<1> QED
  BY <1>4, <1>6

\* So is one that was there before.
LEMMA BeforeIs ==
  ASSUME provider = "codex", NEW id \in Ids
  PROVE  Before(id) \subseteq {"sessions", "archived"}
<1>1. Units[provider] = CodexUnits /\ DOMAIN CodexUnits = 1..3
  BY DEF Units, CodexUnits
<1> QED
  BY <1>1, CodexDirectories DEF Before, Files

\* How a session's files may move at one step.
Settles(id) ==
  \/ id \in Back \/ native[id].dirs = {}
  \/ native'[id].dirs \in {native[id].dirs, {}, {"archived"}}

\* What is done to one session moves its files in such a way.
LEMMA ChangeSettles ==
  ASSUME Typed(native), Placed(native), NEW id \in Ids, NEW fields, Change(id, fields),
         "dirs" \in DOMAIN fields =>
           /\ fields.dirs \subseteq {"sessions", "archived"}
           /\ \/ native[id].dirs = {} \/ fields.dirs \in {{}, {"archived"}}
              \/ native[id].dirs = {"archived"} /\ "archived" \notin fields.dirs
  PROVE  Placed(native') /\ \A x \in Ids : Settles(x)
<1>1. native' = [native EXCEPT ![id] = Also(fields, native[id])]
  BY DEF Change
<1>2. \A x \in Ids \ {id} : native'[x] = native[x]
  BY <1>1 DEF Typed
<1>3. native'[id] = Also(fields, native[id]) /\ "dirs" \in DOMAIN native[id]
  BY <1>1 DEF Typed
<1>4. native'[id].dirs = (IF "dirs" \in DOMAIN fields THEN fields.dirs ELSE native[id].dirs)
  BY <1>3 DEF Also
<1> QED
  BY <1>2, <1>4 DEF Placed, Settles, Back

\* So does whatever Codex and its user do.
LEMMA OutsideSettles ==
  ASSUME provider = "codex", Typed(native), Placed(native), Outside
  PROVE  Placed(native') /\ \A x \in Ids : Settles(x)
<1>1. CASE UNCHANGED native
  BY <1>1 DEF Placed, Settles
<1>2. ASSUME NEW id \in Ids, Create(id) PROVE Placed(native') /\ \A x \in Ids : Settles(x)
  <2>1. PICK header : Change(id, [dirs |-> {Home}, header |-> header,
                                  stamp |-> native[id].stamp + 1])
    BY <1>2 DEF Create
  <2>2. native[id].dirs = {} /\ Home \in {"sessions", "archived"}
    BY <1>2, HomeIs DEF Create
  <2> QED
    BY <2>1, <2>2, ChangeSettles
<1>3. ASSUME NEW id \in Ids, Write(id) PROVE Placed(native') /\ \A x \in Ids : Settles(x)
  <2>1. PICK header : Change(id, [header |-> header, stamp |-> native[id].stamp + 1])
    BY <1>3 DEF Write
  <2> QED
    BY <2>1, ChangeSettles
<1>4. ASSUME NEW id \in Ids, Erase(id) PROVE Placed(native') /\ \A x \in Ids : Settles(x)
  BY <1>4, ChangeSettles DEF Erase
<1>5. ASSUME NEW id \in Ids, Duplicate(id) \/ Catalog(id) PROVE FALSE
  BY <1>5 DEF Duplicate, Catalog
<1>6. ASSUME NEW id \in Ids, Archive(id)
      PROVE  Placed(native') /\ \A x \in Ids : Settles(x)
  <2>1. Change(id, [dirs |-> {"archived"}, stamp |-> native[id].stamp + 1])
    BY <1>6 DEF Archive
  <2> QED
    BY <2>1, ChangeSettles
<1>7. ASSUME NEW id \in Ids, Unarchive(id)
      PROVE  Placed(native') /\ \A x \in Ids : Settles(x)
  <2>1. Change(id, [dirs |-> {"sessions"}, stamp |-> native[id].stamp + 1])
    BY <1>7 DEF Unarchive
  <2>2. native[id].dirs = {"archived"}
    BY <1>7 DEF Unarchive
  <2> QED
    BY <2>1, <2>2, ChangeSettles
<1> QED
  BY <1>1, <1>2, <1>3, <1>4, <1>5, <1>6, <1>7
     DEF Outside, FileStep, DatabaseStep, HomeMoves

\* codex delete removes all files of a thread, or none.
LEMMA CommandSettles ==
  ASSUME provider = "codex", Typed(native), Placed(native), NEW p \in Readers, RunCommand(p)
  PROVE  Placed(native') /\ \A x \in Ids : Settles(x)
<1> DEFINE id == reader[p].target
<1>1. PICK gone : /\ native' = [native EXCEPT ![id].dirs = @ \ gone]
                  /\ gone \in {{}, native[id].dirs}
  BY DEF RunCommand, Removed
<1>2. ASSUME NEW x \in Ids PROVE native'[x].dirs \in {native[x].dirs, {}}
  BY <1>1, <1>2 DEF Typed
<1> QED
  BY <1>2 DEF Placed, Settles

\* A session that stays is covered as before, when its files move.
LEMMA CoversStays ==
  ASSUME provider = "codex", Placed(native), NEW id \in Ids, Settles(id), id \notin Back,
         native[id].dirs # {}, native'[id].dirs # {},
         NEW r, r.unit \in 1..3, Covers(r, id, native)
  PROVE  Covers(r, id, native')
<1>1. ASSUME Ahead(r.unit, id, native) PROVE Ahead(r.unit, id, native')
  <2>1. CASE native'[id].dirs = native[id].dirs
    BY <1>1, <2>1 DEF Ahead
  <2>2. CASE native'[id].dirs = {"archived"}
    <3>1. <<"archived", id>> \in CodexUnits[3]
      BY UnitsHold
    <3>2. 3 \in r.unit..3 /\ "archived" \in native'[id].dirs
      BY <2>2
    <3> QED
      BY <3>1, <3>2 DEF Ahead
  <2> QED
    BY <2>1, <2>2 DEF Settles
<1> QED
  BY <1>1 DEF Covers

\* The walk does not lose what a directory shows.
LEMMA NewestHas ==
  ASSUME NEW files \in SUBSET Files, NEW f \in files
  PROVE  Gathered(NewestFirst(files), f[2])
<1> DEFINE those(id) == {g \in files : g[2] = id}
           one(id) == CHOOSE g \in files : g[2] = id
           listed(id) == IF those(id) = {} THEN <<>> ELSE <<one(id)>>
<1>1. NewestFirst(files) = listed(2) \o listed(1)
  BY DEF NewestFirst
<1>2. f[2] \in {1, 2}
  BY DEF Files, Ids
<1>3. ASSUME NEW id PROVE listed(id) = <<>> \/ listed(id) = <<one(id)>>
  OBVIOUS
<1>4. listed(f[2]) = <<one(f[2])>> /\ one(f[2])[2] = f[2]
  BY those(f[2]) # {}
<1> HIDE DEF listed, one
<1>5. CASE f[2] = 2
  <2>1. /\ Len(NewestFirst(files)) >= 1 /\ Len(NewestFirst(files)) \in Nat
        /\ NewestFirst(files)[1] = one(2)
    BY <1>1, <1>3, <1>4, <1>5
  <2> QED
    BY <1>4, <1>5, <2>1 DEF Gathered
<1>6. CASE f[2] = 1
  <2>1. CASE listed(2) = <<>>
    <3>1. Len(NewestFirst(files)) = 1 /\ NewestFirst(files)[1] = one(1)
      BY <1>1, <1>4, <1>6, <2>1
    <3> QED
      BY <1>4, <1>6, <3>1 DEF Gathered
  <2>2. CASE listed(2) = <<one(2)>>
    <3>1. listed(1) = <<one(1)>>
      BY <1>4, <1>6
    <3>2. NewestFirst(files) = <<one(2)>> \o <<one(1)>>
      BY <1>1, <2>2, <3>1
    <3>3. Len(NewestFirst(files)) = 2 /\ NewestFirst(files)[2] = one(1)
      BY <3>2
    <3> QED
      BY <1>4, <1>6, <3>3 DEF Gathered
  <2> QED
    BY <1>3, <2>1, <2>2
<1> QED
  BY <1>2, <1>5, <1>6

\* A walk that is cut off has more than its limit.
LEMMA AtMostCuts ==
  ASSUME NEW S, NEW k \in Nat, NEW files \in Seq(S)
  PROVE  /\ AtMost(k + 1, files) = files \/ Len(AtMost(k + 1, files)) > k
         /\ Len(files) > k => Len(AtMost(k + 1, files)) > k
         /\ Len(files) <= k => AtMost(k, files) = files
<1>1. Len(files) \in Nat
  OBVIOUS
<1>2. ASSUME NEW m \in Nat, m < Len(files)
      PROVE  Len(AtMost(m, files)) = m
  <2>1. AtMost(m, files) = SubSeq(files, 1, m)
    BY <1>2 DEF AtMost
  <2> QED
    BY <1>1, <1>2, <2>1, SubSeqProperties
<1>3. ASSUME NEW m \in Nat, ~(m < Len(files))
      PROVE  AtMost(m, files) = files
  <2>1. AtMost(m, files) = SubSeq(files, 1, Len(files))
    BY <1>3 DEF AtMost
  <2> QED
    BY <2>1
<1>4. AtMost(k + 1, files) = files \/ Len(AtMost(k + 1, files)) > k
  <2>1. k + 1 \in Nat /\ k + 1 > k
    OBVIOUS
  <2> QED
    BY <1>1, <1>2, <1>3, <2>1
<1>5. ASSUME Len(files) > k PROVE Len(AtMost(k + 1, files)) > k
  BY <1>1, <1>4, <1>5
<1>6. ASSUME Len(files) <= k PROVE AtMost(k, files) = files
  BY <1>1, <1>3, <1>6
<1> QED
  BY <1>4, <1>5, <1>6

\* What was found stays found.
LEMMA GatheredStays ==
  ASSUME NEW S, NEW s \in Seq(S), NEW t \in Seq(S), NEW id, Gathered(s, id) \/ Gathered(t, id)
  PROVE  Gathered(s \o t, id)
<1>1. /\ Len(s) \in Nat /\ Len(t) \in Nat /\ Len(s \o t) = Len(s) + Len(t)
      /\ \A i \in 1..Len(s) : (s \o t)[i] = s[i]
      /\ \A i \in 1..Len(t) : (s \o t)[Len(s) + i] = t[i]
  OBVIOUS
<1>2. CASE Gathered(s, id)
  <2>1. PICK i \in 1..Len(s) : s[i][2] = id
    BY <1>2 DEF Gathered
  <2>2. i \in 1..Len(s \o t) /\ (s \o t)[i][2] = id
    BY <1>1, <2>1
  <2> QED
    BY <2>2 DEF Gathered
<1>3. CASE Gathered(t, id)
  <2>1. PICK i \in 1..Len(t) : t[i][2] = id
    BY <1>3 DEF Gathered
  <2>2. Len(s) + i \in 1..Len(s \o t) /\ (s \o t)[Len(s) + i][2] = id
    BY <1>1, <2>1
  <2> QED
    BY <2>2 DEF Gathered
<1> QED
  BY <1>2, <1>3

\* One directory of the walk.
LEMMA WalkCovers ==
  ASSUME CodexInv, provider = "codex", Placed(native), NEW p \in Readers, CodexWalk(p),
         reader[p].then # "path", NEW id \in Ids, home,
         Covers(reader[p], id, native),
         NEW new, reader' = [reader EXCEPT ![p] = new]
  PROVE  Covers(new, id, native)
<1> DEFINE r == reader[p]
<1>1. /\ reader = [q \in Readers |-> reader[q]] /\ Stands(reader[p], native)
      /\ limit \in Nat /\ r.pc = "walk"
  BY DEF CodexInv, CodexWalk, At
<1>2. PICK readable \in BOOLEAN :
        LET here == IF readable THEN {f \in Units.codex[r.unit] : Stored(f)} ELSE {}
            found == AtMost(limit + 1, r.found \o NewestFirst(here))
            noted == r.noted \/ ~readable
        IN IF WalkEnds(r.unit, found)
           THEN Moves(p, "walk", AfterScan(p, found, noted))
           ELSE Moves(p, "walk", [unit |-> r.unit + 1, found |-> found, noted |-> noted])
  BY DEF CodexWalk
<1> DEFINE here == IF readable THEN {f \in Units.codex[r.unit] : Stored(f)} ELSE {}
           all == r.found \o NewestFirst(here)
           found == AtMost(limit + 1, all)
           noted == r.noted \/ ~readable
<1>3. r.unit \in 1..3 /\ r.found \in Seq(Files)
  BY <1>1 DEF Stands
<1>4. here \in SUBSET Files
  BY <1>3, CodexDirectories
<1>5. NewestFirst(here) \in Seq(Files) /\ all \in Seq(Files)
  BY <1>3, <1>4, WalkFinds
<1>6. limit + 1 \in Nat
  BY <1>1
<1>7. found \in Seq(Files)
  BY <1>5, <1>6, AtMostFits
<1>8. /\ found = all \/ Len(found) > limit
      /\ Len(all) > limit => Len(found) > limit
  <2> HIDE DEF all
  <2> QED
    BY <1>1, <1>5, AtMostCuts
<1>9. Len(r.found) > limit => Len(all) > limit
  <2>1. /\ Len(r.found) \in Nat /\ Len(NewestFirst(here)) \in Nat
        /\ Len(all) = Len(r.found) + Len(NewestFirst(here))
    BY <1>3, <1>5
  <2> HIDE DEF all, here, r
  <2>2. limit \in Nat
    BY <1>1
  <2> QED
    BY <2>1, <2>2
\* Where the session is after this directory.
<1>10. \/ noted \/ Len(found) > limit \/ Gathered(found, id)
       \/ \E k \in r.unit + 1..3 : \E dir \in native[id].dirs : <<dir, id>> \in CodexUnits[k]
  <2>1. CASE r.noted \/ Len(r.found) > limit
    BY <1>8, <1>9, <2>1
  <2>2. CASE Gathered(r.found, id)
    <3>1. Gathered(all, id)
      BY <1>3, <1>5, <2>2, GatheredStays
    <3> HIDE DEF found, all
    <3> QED
      BY <1>8, <3>1
  <2>3. ASSUME NEW k \in r.unit..3, NEW dir \in native[id].dirs, <<dir, id>> \in CodexUnits[k]
        PROVE  \/ noted \/ Len(found) > limit \/ Gathered(found, id)
               \/ \E j \in r.unit + 1..3 : \E d \in native[id].dirs : <<d, id>> \in CodexUnits[j]
    <3>1. CASE k = r.unit /\ readable
      <4>1. <<dir, id>> \in here
        BY <2>3, <3>1, CodexDirectories DEF Stored
      <4>2. Gathered(NewestFirst(here), <<dir, id>>[2])
        BY <1>4, <4>1, NewestHas
      <4>3. Gathered(all, id)
        BY <1>3, <1>5, <4>2, GatheredStays
      <4> HIDE DEF found, all
      <4> QED
        BY <1>8, <4>3
    <3>2. CASE k = r.unit /\ ~readable
      BY <3>2
    <3>3. CASE k # r.unit
      BY <1>3, <2>3, <3>3
    <3> QED
      BY <3>1, <3>2, <3>3
  <2> QED
    BY <1>1, <2>1, <2>2, <2>3 DEF Covers, Ahead
<1>11. CASE WalkEnds(r.unit, found)
  <2> DEFINE changed == AfterScan(p, found, noted)
  <2>1. Moves(p, "walk", changed)
    BY <1>2, <1>11
  <2>2. noted \/ Len(found) > limit \/ Gathered(found, id)
    <3>1. r.unit = 3 \/ Len(found) > limit
      BY <1>3, <1>11, CodexDirectories DEF WalkEnds
    <3> HIDE DEF found, noted
    <3> QED
      BY <1>3, <1>10, <3>1
  <2>3. Len(found) <= limit => AtMost(limit, found) = found
    BY <1>1, <1>7, AtMostCuts
  <2>4. Len(found) \in Nat
    BY <1>7
  <2> HIDE DEF found, noted
  <2>5. PICK it :
          /\ reader' = [reader EXCEPT ![p] = it]
          /\ \A x \in DOMAIN Fresh : it[x] = (IF x \in DOMAIN changed THEN changed[x] ELSE r[x])
    BY <1>1, <2>1, SteppedAll
  <2>6. it = new
    BY <1>1, <2>5
  <2>7. /\ new.pc = "titles" /\ new.at = 1 /\ new.found = AtMost(limit, found)
        /\ new.noted = (noted \/ Len(found) > limit)
    BY <2>5, <2>6 DEF Fresh, AfterScan
  <2>8. CASE noted \/ Len(found) > limit
    BY <2>7, <2>8 DEF Covers
  <2>9. CASE ~noted /\ ~(Len(found) > limit)
    <3>1. Len(found) <= limit
      BY <1>1, <2>4, <2>9
    <3>2. Gathered(new.found, id)
      BY <2>2, <2>3, <2>7, <2>9, <3>1
    <3> QED
      BY <2>7, <3>2 DEF Covers
  <2> QED
    BY <2>8, <2>9
<1>12. CASE ~WalkEnds(r.unit, found)
  <2> DEFINE changed == [unit |-> r.unit + 1, found |-> found, noted |-> noted]
  <2>1. Moves(p, "walk", changed)
    BY <1>2, <1>12
  <2> HIDE DEF found, noted, changed
  <2>2. PICK it :
          /\ reader' = [reader EXCEPT ![p] = it]
          /\ \A x \in DOMAIN Fresh : it[x] = (IF x \in DOMAIN changed THEN changed[x] ELSE r[x])
    BY <1>1, <2>1, SteppedAll
  <2>3. it = new
    BY <1>1, <2>2
  <2>4. /\ new.pc = "walk" /\ new.found = found /\ new.unit = r.unit + 1 /\ new.noted = noted
    BY <1>1, <2>2, <2>3 DEF Fresh, changed
  <2> QED
    BY <1>10, <2>4 DEF Covers, Ahead
<1> QED
  BY <1>11, <1>12


\* The state of a process after a step.
LEMMA SteppedTo ==
  ASSUME NEW p \in Readers, reader = [q \in Readers |-> reader[q]],
         NEW pc, NEW changed, Moves(p, pc, changed),
         NEW new, reader' = [reader EXCEPT ![p] = new]
  PROVE  /\ reader[p].pc = pc
         /\ \A x \in DOMAIN Fresh :
              new[x] = (IF x \in DOMAIN changed THEN changed[x] ELSE reader[p][x])
<1>1. /\ reader[p].pc = pc
      /\ \E it :
           /\ reader' = [reader EXCEPT ![p] = it]
           /\ \A x \in DOMAIN Fresh :
                it[x] = (IF x \in DOMAIN changed THEN changed[x] ELSE reader[p][x])
  BY SteppedAll
<1>2. PICK it :
        /\ reader' = [reader EXCEPT ![p] = it]
        /\ \A x \in DOMAIN Fresh :
             it[x] = (IF x \in DOMAIN changed THEN changed[x] ELSE reader[p][x])
  BY <1>1
<1>3. it = new
  BY <1>2
<1> QED
  BY <1>1, <1>2, <1>3

\* And after its end.
LEMMA EndedTo ==
  ASSUME NEW p \in Readers, reader = [q \in Readers |-> reader[q]],
         NEW pc, NEW answer, Answers(p, pc, answer),
         DOMAIN answer \subseteq {"other", "unread", "outcome"},
         NEW new, reader' = [reader EXCEPT ![p] = new]
  PROVE  /\ new.pc = "done" /\ new.then = reader[p].then /\ new.task = reader[p].task
         /\ new.watch = reader[p].watch
<1>1. \E it :
        /\ reader' = [reader EXCEPT ![p] = it]
        /\ it.pc = "done" /\ it.then = reader[p].then /\ it.task = reader[p].task
        /\ it.watch = reader[p].watch
  BY ONLY EndedAll, p \in Readers, reader = [q \in Readers |-> reader[q]],
          Answers(p, pc, answer), DOMAIN answer \subseteq {"other", "unread", "outcome"}
<1>2. PICK it :
        /\ reader' = [reader EXCEPT ![p] = it]
        /\ it.pc = "done" /\ it.then = reader[p].then /\ it.task = reader[p].task
        /\ it.watch = reader[p].watch
  BY <1>1
<1>3. it = new
  BY <1>2
<1> QED
  BY <1>2, <1>3

\* Reading the titles and the cache changes nothing of the list.
LEMMA TitlesCover ==
  ASSUME CodexInv, provider = "codex", NEW p \in Readers, CodexTitles(p) \/ CodexLoad(p),
         NEW id \in Ids, Covers(reader[p], id, native),
         NEW new, reader' = [reader EXCEPT ![p] = new]
  PROVE  Covers(new, id, native)
<1> DEFINE r == reader[p]
<1>1. reader = [q \in Readers |-> reader[q]] /\ Stands(r, native)
  BY DEF CodexInv
<1>2. CASE CodexTitles(p)
  <2>1. PICK wrong \in BOOLEAN :
          Moves(p, "titles", [pc |-> "load", noted |-> reader[p].noted \/ wrong])
    BY <1>2 DEF CodexTitles
  <2> DEFINE changed == [pc |-> "load", noted |-> reader[p].noted \/ wrong]
  <2>2. /\ r.pc = "titles"
        /\ \A x \in DOMAIN Fresh :
             new[x] = (IF x \in DOMAIN changed THEN changed[x] ELSE r[x])
    BY <1>1, <2>1, SteppedTo
  <2>3. /\ new.pc = "load" /\ new.at = r.at /\ new.found = r.found
        /\ new.noted = (r.noted \/ wrong)
    BY <2>2 DEF Fresh
  <2> QED
    BY <2>2, <2>3 DEF Covers
<1>3. CASE CodexLoad(p)
  <2>1. PICK previous, current :
          Moves(p, "load", [pc |-> "open", previous |-> previous, current |-> current,
                            parsed |-> FALSE])
    BY <1>3 DEF CodexLoad
  <2> DEFINE changed == [pc |-> "open", previous |-> previous, current |-> current,
                         parsed |-> FALSE]
  <2>2. /\ r.pc = "load"
        /\ \A x \in DOMAIN Fresh :
             new[x] = (IF x \in DOMAIN changed THEN changed[x] ELSE r[x])
    BY <1>1, <2>1, SteppedTo
  <2>3. /\ new.pc = "open" /\ new.at = r.at /\ new.found = r.found
        /\ new.noted = r.noted /\ new.listed = r.listed
    BY <2>2 DEF Fresh
  <2> QED
    BY <2>2, <2>3 DEF Covers, Gathered
<1> QED
  BY <1>2, <1>3

\* A file that counts as its header says is listed when it is a user's.
LEMMA CountedCovers ==
  ASSUME NEW r, r.at \in Nat \ {0}, Len(r.found) \in Nat, NEW id, NEW files,
         Covers(r, id, files), r.pc \in {"open", "parse"}, r.at <= Len(r.found),
         NEW header, r.found[r.at][2] = id => header \in {"user", "none"},
         NEW new, new.pc = "open", new.at = r.at + 1, new.found = r.found,
         LET counted == Counted(r, r.found[r.at], header)
         IN new.noted = counted.noted /\ new.listed = counted.listed
  PROVE  Covers(new, id, files)
<1> DEFINE file == r.found[r.at]
<1>1. /\ new.noted = (r.noted \/ header = "none")
      /\ new.listed = IF header = "user" /\ file[2] \notin IdsOf(r.listed)
                      THEN r.listed \cup {file} ELSE r.listed
  BY DEF Counted
<1>2. CASE r.noted \/ header = "none"
  BY <1>1, <1>2 DEF Covers
<1>3. CASE id \in IdsOf(r.listed)
  <2>1. id \in IdsOf(new.listed)
    BY <1>1, <1>3 DEF IdsOf
  <2> QED
    BY <2>1 DEF Covers
<1>4. CASE file[2] = id /\ header = "user"
  <2>1. id \in IdsOf(new.listed)
    BY <1>1, <1>4 DEF IdsOf
  <2> QED
    BY <2>1 DEF Covers
<1>5. ASSUME NEW i \in r.at..Len(r.found), r.found[i][2] = id, i # r.at
      PROVE  Covers(new, id, files)
  <2>1. i \in new.at..Len(new.found) /\ new.found[i][2] = id
    BY <1>5
  <2> QED
    BY <2>1 DEF Covers
<1> QED
  <2>1. CASE \E i \in r.at..Len(r.found) : r.found[i][2] = id
    BY <1>2, <1>4, <1>5, <2>1
  <2> QED
    BY <1>2, <1>3, <2>1 DEF Covers

\* What was kept of a file as it is now, or is read in it, says that it is a user's.
LEMMA OpenCovers ==
  ASSUME CodexInv, provider = "codex", NEW p \in Readers, CodexOpen(p) \/ CodexParse(p),
         NEW id \in Ids, native[id].header = "user", Covers(reader[p], id, native),
         NEW new, reader' = [reader EXCEPT ![p] = new]
  PROVE  Covers(new, id, native)
<1> DEFINE r == reader[p]
           file == r.found[r.at]
<1>1. reader = [q \in Readers |-> reader[q]] /\ Stands(r, native)
  BY DEF CodexInv
<1>2. r.at \in Nat \ {0} /\ Len(r.found) \in Nat /\ r.found \in Seq(Files)
  BY <1>1 DEF Stands
<1>3. ASSUME NEW build PROVE Parse(build, "user") = "user"
  BY DEF Parse
<1>4. CASE CodexOpen(p)
  <2>1. r.at <= Len(r.found) /\ r.pc = "open"
    BY <1>4 DEF CodexOpen, At
  <2>2. CASE Hit(r, file)
    <3> DEFINE entry == r.previous[file]
    <3>1. PICK previous, current :
            Moves(p, "open", Also([previous |-> previous, current |-> current],
                                  Counted(r, file, entry.header)))
      BY <1>4, <2>2 DEF CodexOpen
    <3> DEFINE changed == Also([previous |-> previous, current |-> current],
                               Counted(r, file, entry.header))
    <3>2. \A x \in DOMAIN Fresh : new[x] = (IF x \in DOMAIN changed THEN changed[x] ELSE r[x])
      <4>1. Moves(p, "open", changed)
        BY <3>1
      <4> HIDE DEF changed
      <4> QED
        BY <1>1, <4>1, SteppedTo
    <3>3. /\ DOMAIN changed = {"previous", "current", "pc", "at", "listed", "noted"}
          /\ changed.pc = "open" /\ changed.at = r.at + 1
          /\ changed.listed = Counted(r, file, entry.header).listed
          /\ changed.noted = Counted(r, file, entry.header).noted
      BY DEF Also, Counted
    <3> HIDE DEF changed
    <3>4. /\ new.pc = "open" /\ new.at = r.at + 1 /\ new.found = r.found
          /\ new.listed = Counted(r, file, entry.header).listed
          /\ new.noted = Counted(r, file, entry.header).noted
      BY <3>2, <3>3 DEF Fresh
    <3>5. file[2] = id => entry.header = "user"
      BY <1>1, <1>3, <2>2 DEF Hit, Stands, Fit
    <3> HIDE DEF entry
    <3> QED
      BY <1>2, <2>1, <3>4, <3>5, CountedCovers
  <2>3. CASE ~Hit(r, file)
    <3>1. PICK stamp, previous :
            Moves(p, "open", [pc |-> "parse", stamp |-> stamp, previous |-> previous])
      BY <1>4, <2>3 DEF CodexOpen
    <3> DEFINE changed == [pc |-> "parse", stamp |-> stamp, previous |-> previous]
    <3>2. \A x \in DOMAIN Fresh : new[x] = (IF x \in DOMAIN changed THEN changed[x] ELSE r[x])
      BY <1>1, <3>1, SteppedTo
    <3>3. /\ new.pc = "parse" /\ new.at = r.at /\ new.found = r.found
          /\ new.listed = r.listed /\ new.noted = r.noted
      BY <3>2 DEF Fresh
    <3> QED
      BY <2>1, <3>3 DEF Covers
  <2> QED
    BY <2>2, <2>3
<1>5. CASE CodexParse(p)
  <2>1. r.at <= Len(r.found) /\ r.pc = "parse"
    BY <1>1, <1>5 DEF CodexParse, At, Stands
  <2> DEFINE header == Parse(r.build, native[file[2]].header)
  <2>2. \/ \E current, parsed :
             Moves(p, "parse", Also([current |-> current, parsed |-> parsed],
                                    Counted(r, file, header)))
        \/ Moves(p, "parse", [pc |-> "open", at |-> r.at + 1, noted |-> TRUE])
    BY <1>5 DEF CodexParse
  <2>3. ASSUME NEW current, NEW parsed,
               Moves(p, "parse", Also([current |-> current, parsed |-> parsed],
                                      Counted(r, file, header)))
        PROVE  Covers(new, id, native)
    <3> DEFINE changed == Also([current |-> current, parsed |-> parsed],
                               Counted(r, file, header))
    <3> HIDE DEF header
    <3>1. Moves(p, "parse", changed)
      BY <2>3
    <3>2. /\ DOMAIN changed = {"parsed", "current", "pc", "at", "listed", "noted"}
          /\ changed.pc = "open" /\ changed.at = r.at + 1
          /\ changed.listed = Counted(r, file, header).listed
          /\ changed.noted = Counted(r, file, header).noted
      BY DEF Also, Counted
    <3> HIDE DEF changed
    <3>3. \A x \in DOMAIN Fresh : new[x] = (IF x \in DOMAIN changed THEN changed[x] ELSE r[x])
      BY <1>1, <3>1, SteppedTo
    <3>4. /\ new.pc = "open" /\ new.at = r.at + 1 /\ new.found = r.found
          /\ new.listed = Counted(r, file, header).listed
          /\ new.noted = Counted(r, file, header).noted
      BY <3>2, <3>3 DEF Fresh
    <3>5. file[2] = id => header = "user"
      BY <1>3 DEF header
    <3> QED
      BY <1>2, <2>1, <3>4, <3>5, CountedCovers
  <2>4. CASE Moves(p, "parse", [pc |-> "open", at |-> r.at + 1, noted |-> TRUE])
    <3> DEFINE changed == [pc |-> "open", at |-> r.at + 1, noted |-> TRUE]
    <3>1. \A x \in DOMAIN Fresh : new[x] = (IF x \in DOMAIN changed THEN changed[x] ELSE r[x])
      BY <1>1, <2>4, SteppedTo
    <3>2. new.noted
      BY <3>1 DEF Fresh
    <3> QED
      BY <3>2 DEF Covers
  <2> HIDE DEF header
  <2> QED
    BY <2>2, <2>3, <2>4
<1> QED
  BY <1>4, <1>5

\* The list is done when every file was opened.
LEMMA SaveCovers ==
  ASSUME CodexInv, provider = "codex", NEW p \in Readers, CodexSave(p),
         reader[p].then = "refresh",
         NEW id \in Ids, Covers(reader[p], id, native),
         NEW new, reader' = [reader EXCEPT ![p] = new]
  PROVE  Covers(new, id, native)
<1> DEFINE r == reader[p]
<1>1. /\ reader = [q \in Readers |-> reader[q]] /\ Stands(r, native)
      /\ r.at > Len(r.found)
  BY DEF CodexInv, CodexSave
<1>2. r.at \in Nat \ {0} /\ Len(r.found) \in Nat
  BY <1>1 DEF Stands
<1>3. PICK wrong \in BOOLEAN :
        Moves(p, "open", [pc |-> r.then, known |-> TRUE, noted |-> r.noted \/ wrong])
  BY DEF CodexSave
<1> DEFINE changed == [pc |-> r.then, known |-> TRUE, noted |-> r.noted \/ wrong]
<1>4. /\ r.pc = "open"
      /\ \A x \in DOMAIN Fresh : new[x] = (IF x \in DOMAIN changed THEN changed[x] ELSE r[x])
  BY <1>1, <1>3, SteppedTo
<1>5. new.pc = "refresh" /\ new.listed = r.listed /\ new.noted = (r.noted \/ wrong)
  BY <1>4 DEF Fresh
<1>6. r.noted \/ id \in IdsOf(r.listed)
  <2>1. ~ \E i \in r.at..Len(r.found) : r.found[i][2] = id
    BY <1>1, <1>2
  <2> QED
    BY <1>4, <2>1 DEF Covers
<1> QED
  BY <1>5, <1>6 DEF Covers

\* At the start every directory is ahead.
LEMMA StartCovers ==
  ASSUME CodexInv, WatchRule, provider = "codex", Placed(native), NEW p \in Readers, Start(p),
         NEW id \in Ids, native[id].dirs # {},
         NEW new, reader' = [reader EXCEPT ![p] = new]
  PROVE  Covers(new, id, native)
<1>1. reader = [q \in Readers |-> reader[q]]
  BY DEF CodexInv
<1>2. PICK t \in Tasks, target \in Ids, build \in Builds, unix \in BOOLEAN :
        Moves(p, "off", [pc |-> "walk", task |-> t.task, then |-> t.then,
                         target |-> target, build |-> build, unix |-> unix, watch |-> 1])
  BY DEF Start
<1> DEFINE changed == [pc |-> "walk", task |-> t.task, then |-> t.then,
                       target |-> target, build |-> build, unix |-> unix, watch |-> 1]
<1>3. /\ reader[p].pc = "off"
      /\ \A x \in DOMAIN Fresh :
           new[x] = (IF x \in DOMAIN changed THEN changed[x] ELSE reader[p][x])
  BY <1>1, <1>2, SteppedTo
<1>4. new.pc = "walk" /\ new.unit = reader[p].unit
  BY <1>3 DEF Fresh
<1>5. reader[p].unit = 1
  BY <1>3 DEF WatchRule, Phase
<1>6. PICK dir \in native[id].dirs : dir \in {"sessions", "archived"}
  BY DEF Placed
<1>7. \E k \in 1..3 : <<dir, id>> \in CodexUnits[k]
  BY <1>6, UnitsHold
<1>8. Ahead(new.unit, id, native)
  BY <1>4, <1>5, <1>6, <1>7 DEF Ahead
<1> QED
  BY <1>4, <1>8 DEF Covers

\* What is not being listed covers everything.
LEMMA ElsewhereCovers ==
  ASSUME NEW r, r.pc \notin {"walk", "titles", "load", "open", "parse", "refresh"},
         NEW id, NEW files
  PROVE  Covers(r, id, files)
BY DEF Covers

\* One step of a process that lists Codex' sessions for the index.
LEMMA CodexCovers ==
  ASSUME CodexInv, WatchRule, provider = "codex", Placed(native),
         NEW p \in Readers, Process(p), NEW new, reader' = [reader EXCEPT ![p] = new],
         new.then = "refresh",
         NEW id \in Ids, home, native[id].dirs # {}, native[id].header = "user",
         Start(p) \/ (reader[p].then = "refresh" /\ Covers(reader[p], id, native))
  PROVE  Covers(new, id, native)
<1> DEFINE r == reader[p]
<1>1. reader = [q \in Readers |-> reader[q]] /\ p \in Readers
  BY DEF CodexInv
<1>2. CASE Start(p)
  BY <1>2, StartCovers
<1>3. ASSUME ~Start(p) PROVE r.then = "refresh" /\ Covers(r, id, native)
  BY <1>3
<1>4. ASSUME NEW pc, NEW answer, Answers(p, pc, answer),
             DOMAIN answer \subseteq {"other", "unread", "outcome"}
      PROVE  Covers(new, id, native)
  <2>1. new.pc = "done"
    BY <1>1, <1>4, EndedTo
  <2> QED
    BY <2>1, ElsewhereCovers
<1>5. ASSUME NEW pc, NEW to \in {"command", "read"}, Moves(p, pc, [pc |-> to])
      PROVE  Covers(new, id, native)
  <2> DEFINE changed == [pc |-> to]
  <2>1. \A x \in DOMAIN Fresh : new[x] = (IF x \in DOMAIN changed THEN changed[x] ELSE r[x])
    BY <1>1, <1>5, SteppedTo
  <2>2. new.pc = to
    BY <2>1 DEF Fresh
  <2> QED
    BY <2>2, ElsewhereCovers
<1>6. CASE Refresh(p)
  <2>1. reader' = [reader EXCEPT ![p] = [Fresh EXCEPT !.pc = "done"]]
    BY <1>6 DEF Refresh
  <2>2. new = [Fresh EXCEPT !.pc = "done"]
    BY <1>1, <2>1
  <2>3. new.pc = "done"
    BY <2>2 DEF Fresh
  <2> QED
    BY <2>3, ElsewhereCovers
<1>7. CASE Resolve(p)
  <2>1. PICK other, outcome : Answers(p, "search", [other |-> other, outcome |-> outcome])
    BY <1>7 DEF Resolve
  <2>2. DOMAIN [other |-> other, outcome |-> outcome] \subseteq {"other", "unread", "outcome"}
    OBVIOUS
  <2> QED
    BY <1>4, <2>1, <2>2
<1>8. CASE ReadBack(p)
  <2>1. PICK unread, outcome : Answers(p, "read", [unread |-> unread, outcome |-> outcome])
    BY <1>8 DEF ReadBack
  <2>2. DOMAIN [unread |-> unread, outcome |-> outcome]
          \subseteq {"other", "unread", "outcome"}
    OBVIOUS
  <2> QED
    BY <1>4, <2>1, <2>2
<1>9. ASSUME NEW pc, NEW outcome, Ends(p, pc, outcome)
      PROVE  Covers(new, id, native)
  <2>1. DOMAIN [outcome |-> outcome] \subseteq {"other", "unread", "outcome"}
    OBVIOUS
  <2> QED
    BY <1>4, <1>9, <2>1 DEF Ends
<1>10. CASE Unique(p) \/ Verify(p)
  <2>1. \/ \E pc, outcome : Ends(p, pc, outcome)
        \/ \E pc : \E to \in {"command", "read"} : Moves(p, pc, [pc |-> to])
    BY <1>10 DEF Unique, Verify
  <2> QED
    BY <1>5, <1>9, <2>1
<1>11. CASE RunCommand(p)
  <2>1. CASE Verifies(p)
    <3> DEFINE begun == BeginListing(r, "verify")
               changed == Also([then |-> "verify", watch |-> 2], begun)
    <3>1. Moves(p, "command", changed)
      BY <2>1 DEF Verifies
    <3>2. \A x \in DOMAIN Fresh : new[x] = (IF x \in DOMAIN changed THEN changed[x] ELSE r[x])
      BY <1>1, <3>1, SteppedTo
    <3>3. "then" \in DOMAIN changed /\ changed.then = "verify"
      BY DEF Also
    <3> HIDE DEF changed
    <3>4. new.then = "verify"
      BY <3>2, <3>3 DEF Fresh
    <3> QED
      BY <3>4
  <2>2. CASE Ends(p, "command", "failed")
    BY <1>9, <2>2
  <2> QED
    BY <1>11, <2>1, <2>2 DEF RunCommand
<1>12. CASE CodexPath(p) /\ ~Start(p)
  <2>1. r.pc = "path"
    BY <1>12 DEF CodexPath, Moves, At
  <2>2. \/ Moves(p, "path", [pc |-> "walk", unit |-> 1, found |-> <<>>, again |-> TRUE])
        \/ \E listed : Moves(p, "path", [pc |-> "search", listed |-> listed])
        \/ Moves(p, "path", [pc |-> "search", outcome |-> "failed"])
    BY <1>12 DEF CodexPath
  <2>3. CASE Moves(p, "path", [pc |-> "walk", unit |-> 1, found |-> <<>>, again |-> TRUE])
    <3> DEFINE changed == [pc |-> "walk", unit |-> 1, found |-> <<>>, again |-> TRUE]
    <3>1. \A x \in DOMAIN Fresh : new[x] = (IF x \in DOMAIN changed THEN changed[x] ELSE r[x])
      BY <1>1, <2>3, SteppedTo
    <3>2. new.pc = "walk" /\ new.unit = 1
      BY <3>1 DEF Fresh
    <3>3. PICK dir \in native[id].dirs : dir \in {"sessions", "archived"}
      BY DEF Placed
    <3>4. \E k \in 1..3 : <<dir, id>> \in CodexUnits[k]
      BY <3>3, UnitsHold
    <3>5. Ahead(new.unit, id, native)
      BY <3>2, <3>3, <3>4 DEF Ahead
    <3> QED
      BY <3>2, <3>5 DEF Covers
  <2>4. ASSUME NEW listed, Moves(p, "path", [pc |-> "search", listed |-> listed])
        PROVE  Covers(new, id, native)
    <3> DEFINE changed == [pc |-> "search", listed |-> listed]
    <3>1. \A x \in DOMAIN Fresh : new[x] = (IF x \in DOMAIN changed THEN changed[x] ELSE r[x])
      BY <1>1, <2>4, SteppedTo
    <3>2. new.pc = "search"
      BY <3>1 DEF Fresh
    <3> QED
      BY <3>2, ElsewhereCovers
  <2>5. CASE Moves(p, "path", [pc |-> "search", outcome |-> "failed"])
    <3> DEFINE changed == [pc |-> "search", outcome |-> "failed"]
    <3>1. \A x \in DOMAIN Fresh : new[x] = (IF x \in DOMAIN changed THEN changed[x] ELSE r[x])
      BY <1>1, <2>5, SteppedTo
    <3>2. new.pc = "search"
      BY <3>1 DEF Fresh
    <3> QED
      BY <3>2, ElsewhereCovers
  <2> QED
    BY <2>2, <2>3, <2>4, <2>5
<1>13. CASE CodexWalk(p) /\ ~Start(p)
  BY <1>3, <1>13, WalkCovers
<1>14. CASE (CodexTitles(p) \/ CodexLoad(p)) /\ ~Start(p)
  BY <1>3, <1>14, TitlesCover
<1>15. CASE (CodexOpen(p) \/ CodexParse(p)) /\ ~Start(p)
  BY <1>3, <1>15, OpenCovers
<1>16. CASE CodexSave(p) /\ ~Start(p)
  BY <1>3, <1>16, SaveCovers
<1> QED
  BY <1>2, <1>6, <1>7, <1>8, <1>10, <1>11, <1>12, <1>13, <1>14, <1>15, <1>16, CodexSteps

\* A task lasts until it ends, or until its deletion is to be verified.
LEMMA Lasts ==
  ASSUME WatchRule, NEW p \in Readers, Process(p), ~Start(p),
         NEW new, reader' = [reader EXCEPT ![p] = new]
  PROVE  \/ Refresh(p) /\ new.then = "none" /\ new.pc = "done" /\ new.task = "none"
         \/ /\ new.then = "verify" /\ reader[p].pc = "command"
            /\ new.task = reader[p].task
         \/ /\ new.then = reader[p].then /\ new.watch = reader[p].watch
            /\ new.task = reader[p].task
<1> DEFINE r == reader[p]
<1>1. reader = [q \in Readers |-> reader[q]]
  BY DEF WatchRule
<1>2. ASSUME NEW pc, NEW changed, Moves(p, pc, changed), Inside(r, pc, changed)
      PROVE  new.then = r.then /\ new.watch = r.watch /\ new.task = r.task
  <2>1. \A x \in DOMAIN Fresh : new[x] = (IF x \in DOMAIN changed THEN changed[x] ELSE r[x])
    BY <1>1, <1>2, SteppedTo
  <2>2. DOMAIN changed \cap {"then", "task", "watch"} = {}
    BY <1>2 DEF Inside
  <2>3. {"then", "task", "watch"} \subseteq DOMAIN Fresh
    BY DEF Fresh
  <2> QED
    BY <2>1, <2>2, <2>3
<1>3. ASSUME NEW pc, NEW answer, Answers(p, pc, answer),
             DOMAIN answer \subseteq {"other", "unread", "outcome"}
      PROVE  new.then = r.then /\ new.watch = r.watch /\ new.task = r.task
  BY <1>1, <1>3, EndedTo
<1>4. ASSUME NEW pc, NEW outcome, Ends(p, pc, outcome)
      PROVE  new.then = r.then /\ new.watch = r.watch /\ new.task = r.task
  <2>1. DOMAIN [outcome |-> outcome] \subseteq {"other", "unread", "outcome"}
    OBVIOUS
  <2> QED
    BY <1>3, <1>4, <2>1 DEF Ends
<1>5. CASE Look(p)
  BY <1>2, <1>5, CodexInside, WalksInside, SnapshotInside DEF Look
<1>6. CASE Refresh(p)
  <2>1. reader' = [reader EXCEPT ![p] = [Fresh EXCEPT !.pc = "done"]]
    BY <1>6 DEF Refresh
  <2>2. new = [Fresh EXCEPT !.pc = "done"]
    BY <1>1, <2>1
  <2>3. new.pc = "done" /\ new.then = "none" /\ new.task = "none"
    BY <2>2 DEF Fresh
  <2> QED
    BY <1>6, <2>3
<1>7. CASE Resolve(p)
  <2>1. PICK other, outcome : Answers(p, "search", [other |-> other, outcome |-> outcome])
    BY <1>7 DEF Resolve
  <2>2. DOMAIN [other |-> other, outcome |-> outcome] \subseteq {"other", "unread", "outcome"}
    OBVIOUS
  <2> QED
    BY <1>3, <2>1, <2>2
<1>8. CASE ReadBack(p)
  <2>1. PICK unread, outcome : Answers(p, "read", [unread |-> unread, outcome |-> outcome])
    BY <1>8 DEF ReadBack
  <2>2. DOMAIN [unread |-> unread, outcome |-> outcome]
          \subseteq {"other", "unread", "outcome"}
    OBVIOUS
  <2> QED
    BY <1>3, <2>1, <2>2
<1>9. CASE Unique(p) \/ Verify(p)
  <2>1. \/ \E pc, outcome : Ends(p, pc, outcome)
        \/ Moves(p, "unique", [pc |-> "command"])
        \/ Moves(p, "verify", [pc |-> "read"])
    BY <1>9 DEF Unique, Verify
  <2>2. /\ Inside(r, "unique", [pc |-> "command"])
        /\ Inside(r, "verify", [pc |-> "read"])
    BY DEF Inside
  <2> QED
    BY <1>2, <1>4, <2>1, <2>2
<1>10. CASE RemoveListed(p) \/ RunCommand(p)
  <2>1. CASE Verifies(p)
    <3> DEFINE begun == BeginListing(r, "verify")
               changed == Also([then |-> "verify", watch |-> 2], begun)
    <3>1. Moves(p, "command", changed)
      BY <2>1 DEF Verifies
    <3>2. /\ r.pc = "command"
          /\ \A x \in DOMAIN Fresh :
               new[x] = (IF x \in DOMAIN changed THEN changed[x] ELSE r[x])
      BY <1>1, <3>1, SteppedTo
    <3>3. "task" \notin DOMAIN begun
      BY DEF BeginListing
    <3> HIDE DEF begun
    <3>4. /\ "then" \in DOMAIN changed /\ changed.then = "verify"
          /\ "task" \notin DOMAIN changed
      BY <3>3 DEF Also
    <3> HIDE DEF changed
    <3>5. new.then = "verify" /\ new.task = r.task
      BY <3>2, <3>4 DEF Fresh
    <3> QED
      BY <3>2, <3>5
  <2>2. CASE Ends(p, "command", "failed")
    BY <1>4, <2>2
  <2> QED
    BY <1>10, <2>1, <2>2 DEF RemoveListed, RunCommand
<1> QED
  BY <1>5, <1>6, <1>7, <1>8, <1>9, <1>10 DEF Process

\* What a listing for the index watches is there to be listed.
LEMMA SteadyIs ==
  ASSUME WatchRule, provider = "codex", NEW p \in Readers, reader[p].then = "refresh",
         NEW id \in steady[p]
  PROVE  home /\ id \in Ids /\ native[id].dirs # {} /\ native[id].header = "user"
<1>1. id \in ThereFor("refresh")
  BY DEF WatchRule
<1>2. ThereFor("refresh") = IF ~home THEN {} ELSE There
  BY DEF ThereFor
<1>3. id \in There /\ home
  BY <1>1, <1>2
<1>4. There = {x \in Ids : native[x].dirs # {} /\ native[x].header = "user"}
  BY <1>3 DEF There, RowProviders
<1> QED
  BY <1>3, <1>4

\* What a listing still watches it watched before.
LEMMA WatchShrinks ==
  ASSUME Watch, NEW p \in Readers, reader'[p].watch = reader[p].watch, NEW id \in steady'[p]
  PROVE  id \in steady[p] /\ id \notin Back
BY DEF Watch

\* Every step of Codex' listings keeps the headers fresh.
LEMMA CodexKept ==
  ASSUME CodexInv, ListingNext
  PROVE  CodexInv'
<1>1. CASE provider # "codex"
  BY <1>1 DEF CodexInv, ListingNext
<1>2. CASE provider = "codex"
  BY <1>2, OutsideKeeps, ProcessKeeps DEF ListingNext
<1> QED
  BY <1>1, <1>2

\* However the files of Codex move in one step, they move as described.
LEMMA StepSettles ==
  ASSUME CodexInv, provider = "codex", Placed(native), ListingNext
  PROVE  Placed(native') /\ \A x \in Ids : Settles(x)
<1>1. Typed(native)
  BY DEF CodexInv
<1>2. CASE UNCHANGED native
  BY <1>2 DEF Placed, Settles
<1>3. CASE Outside
  BY <1>1, <1>3, OutsideSettles
<1>4. ASSUME NEW p \in Readers, Process(p) PROVE RunCommand(p) \/ UNCHANGED native
  BY <1>4, CodexSteps DEF Start, Refresh, Resolve, Unique, Verify, ReadBack, stored
<1>5. ASSUME NEW p \in Readers, RunCommand(p)
      PROVE  Placed(native') /\ \A x \in Ids : Settles(x)
  BY <1>1, <1>5, CommandSettles
<1> QED
  BY <1>2, <1>3, <1>4, <1>5 DEF ListingNext

\* What is not noted is seen, whatever happens.
LEMMA CoverKept ==
  ASSUME CodexInv, WatchRule, CoverInv, ListingNext
  PROVE  CoverInv'
<1> SUFFICES ASSUME provider = "codex"
             PROVE  CoverInv'
  BY DEF CoverInv, ListingNext
<1>1. Placed(native) /\ Watch /\ reader = [q \in Readers |-> reader[q]]
  BY DEF CoverInv, ListingNext, WatchRule
<1>2. Placed(native') /\ \A x \in Ids : Settles(x)
  BY <1>1, StepSettles
<1>3. WatchRule' /\ CodexInv' /\ provider' = "codex"
  BY WatchKept, CodexKept DEF ListingNext
<1>4. ASSUME NEW p \in Readers, reader'[p].then = "refresh", NEW id \in steady'[p]
      PROVE  home' /\ id \in Ids /\ native'[id].dirs # {} /\ native'[id].header = "user"
  <2>1. id \in ThereFor("refresh")'
    BY <1>3, <1>4 DEF WatchRule
  <2>2. ThereFor("refresh")' = IF ~home' THEN {} ELSE There'
    BY <1>3 DEF ThereFor
  <2>3. id \in There' /\ home'
    BY <2>1, <2>2
  <2>4. There' = {x \in Ids : native'[x].dirs # {} /\ native'[x].header = "user"}
    BY <1>3, <2>3 DEF There, RowProviders
  <2> QED
    BY <2>3, <2>4
<1>5. ASSUME NEW p \in Readers, reader'[p].then = "refresh", NEW id \in steady'[p],
             reader'[p].watch = reader[p].watch, reader[p].then = "refresh",
             Covers(reader'[p], id, native)
      PROVE  Covers(reader'[p], id, native')
  <2>1. id \in steady[p] /\ id \notin Back
    BY <1>1, <1>5, WatchShrinks
  <2>2. id \in Ids /\ native[id].dirs # {} /\ native'[id].dirs # {}
    BY <1>4, <1>5, <2>1, SteadyIs
  <2>3. reader'[p].unit \in 1..3
    BY <1>3 DEF CodexInv, Stands
  <2> QED
    BY <1>1, <1>2, <1>5, <2>1, <2>2, <2>3, CoversStays
<1>6. ASSUME NEW p \in Readers, reader'[p] = reader[p], reader'[p].then = "refresh",
             NEW id \in steady'[p]
      PROVE  Covers(reader'[p], id, native')
  <2>1. id \in steady[p]
    BY <1>1, <1>6, WatchShrinks
  <2>2. Covers(reader[p], id, native)
    BY <1>6, <2>1 DEF CoverInv
  <2> QED
    BY <1>5, <1>6, <2>2
<1>7. ASSUME NEW p \in Readers, Process(p), reader'[p].then = "refresh", NEW id \in steady'[p]
      PROVE  Covers(reader'[p], id, native')
  <2>1. PICK new : reader' = [reader EXCEPT ![p] = new]
    BY <1>7, PhaseSteps
  <2>2. reader'[p] = new
    BY <1>1, <2>1
  <2>3. home' /\ id \in Ids /\ native'[id].dirs # {} /\ native'[id].header = "user"
    BY <1>4, <1>7
  <2>4. CASE Start(p)
    <3>1. home' = home /\ native' = native
      BY <2>4 DEF Start, stored
    <3>2. Covers(new, id, native)
      BY <1>1, <1>7, <2>1, <2>2, <2>3, <2>4, <3>1, CodexCovers
    <3> QED
      BY <2>2, <3>1, <3>2
  <2>5. CASE ~Start(p)
    <3>1. reader[p].then = "refresh" /\ new.watch = reader[p].watch
      BY <1>7, <2>1, <2>2, <2>5, Lasts
    <3>2. id \in steady[p]
      BY <1>1, <2>2, <3>1, WatchShrinks
    <3>3. home /\ native[id].dirs # {} /\ native[id].header = "user"
      BY <3>1, <3>2, SteadyIs
    <3>4. Covers(reader[p], id, native)
      BY <3>1, <3>2 DEF CoverInv
    <3>5. Covers(new, id, native)
      BY <1>1, <1>7, <2>1, <2>2, <2>3, <3>1, <3>3, <3>4, CodexCovers
    <3> QED
      BY <1>5, <1>7, <2>2, <3>1, <3>5
  <2> QED
    BY <2>4, <2>5
<1>8. ASSUME NEW p \in Readers, reader'[p].then = "refresh", NEW id \in steady'[p]
      PROVE  Covers(reader'[p], id, native')
  <2>1. CASE Outside
    BY <1>6, <1>8, <2>1 DEF Outside
  <2>2. ASSUME NEW q \in Readers, Process(q) PROVE Covers(reader'[p], id, native')
    <3>1. CASE q = p
      BY <1>7, <1>8, <2>2, <3>1
    <3>2. CASE q # p
      <4>1. PICK new : reader' = [reader EXCEPT ![q] = new]
        BY <2>2, PhaseSteps
      <4>2. reader'[p] = reader[p]
        BY <1>1, <3>2, <4>1
      <4> QED
        BY <1>6, <1>8, <4>2
    <3> QED
      BY <3>1, <3>2
  <2> QED
    BY <2>1, <2>2 DEF ListingNext
<1>9. ASSUME NEW p \in Readers, reader'[p].then = "refresh", NEW id \in steady'[p]
      PROVE  Covers(reader[p], id, native)'
  <2>1. Covers(reader'[p], id, native') /\ limit' = limit
    BY <1>8, <1>9 DEF ListingNext
  <2> QED
    BY <2>1 DEF Covers, Ahead
<1>10. Placed(native)'
  BY <1>2 DEF Placed
<1> QED
  BY <1>9, <1>10 DEF CoverInv

\* At first nobody looks for anything.
LEMMA CoverBegins ==
  ASSUME ListingInit
  PROVE  CoverInv
<1> SUFFICES ASSUME provider = "codex"
             PROVE  CoverInv
  BY DEF CoverInv
<1>1. PICK some \in SUBSET Ids :
        native = [id \in Ids |-> IF id \in some THEN [Nothing EXCEPT !.dirs = Before(id)]
                                 ELSE Nothing]
  BY DEF ListingInit
<1>2. ASSUME NEW id \in Ids PROVE native[id].dirs \subseteq {"sessions", "archived"}
  <2>1. Before(id) \subseteq {"sessions", "archived"}
    BY BeforeIs
  <2>2. native[id].dirs \in {Before(id), {}}
    BY <1>1 DEF Nothing
  <2> QED
    BY <2>1, <2>2
<1>3. \A p \in Readers : steady[p] = {}
  BY DEF ListingInit
<1> QED
  BY <1>2, <1>3 DEF CoverInv, Placed

-----------------------------------------------------------------------------
(* Hermes: pages of the database only grow newer                               *)

IsSeq(s) == Len(s) \in Nat /\ s = [i \in 1..Len(s) |-> s[i]]

\* The frame k of a log counts.
Commits(wal, k) == \E e \in 1..Len(wal) : wal[e].last /\ k <= e

\* The frames of the log are in the order in which they were written, and a page of the
\* database is older than its frames, or is one of them.
PagesAgree(main, wal, n) ==
  /\ IsSeq(wal) /\ main = [id \in Ids |-> main[id]]
  /\ \A id \in Ids : main[id].at \in 0..n
  /\ \A i \in 1..Len(wal) : wal[i].cell.at \in 1..n
  /\ \A i, j \in 1..Len(wal) : i < j => wal[i].cell.at < wal[j].cell.at
  /\ \A row \in Ids :
       \/ \A i \in 1..Len(wal) : wal[i].row = row => main[row].at < wal[i].cell.at
       \/ \E k \in 1..Len(wal) :
            wal[k].row = row /\ wal[k].cell = main[row] /\ Commits(wal, k)

\* A database that was removed has no log.
DatabaseRule ==
  /\ {"main", "wal", "file"} \subseteq DOMAIN database /\ changes \in Nat
  /\ PagesAgree(database.main, database.wal, changes)
  /\ ~database.file => database.wal = <<>>

\* Pages that did not change, or got newer.
Newer(old, main) ==
  \A id \in Ids :
    /\ old[id].at \in Nat /\ main[id].at \in Nat /\ main[id].at >= old[id].at
    /\ main[id].at = old[id].at => main[id] = old[id]

\* Numbers below a bound have a greatest element.
LEMMA GreatestIs ==
  ASSUME NEW n \in Nat, NEW S \in SUBSET (0..n), S # {}
  PROVE  \E i \in S : \A j \in S : j <= i
<1> DEFINE T == {n - i : i \in S}
           R == OpToRel(<, Nat)
<1>0. \A i \in S : i \in Nat /\ n - i \in Nat
  OBVIOUS
<1>1. T \subseteq Nat /\ T # {}
  BY <1>0
<1>2. PICK x \in T : \A y \in T : <<y, x>> \notin R
  <2>1. IsWellFoundedOn(R, Nat)
    BY NatLessThanWellFounded
  <2> HIDE DEF T, R
  <2> QED
    BY <1>1, <2>1, WFMin
<1>3. \A y \in T : x <= y
  <2> TAKE y \in T
  <2>1. x \in Nat /\ y \in Nat
    BY <1>1
  <2>2. <<y, x>> \in Nat \X Nat /\ <<y, x>> \notin {ss \in Nat \X Nat : ss[1] < ss[2]}
    BY <2>1, <1>2 DEF OpToRel
  <2>3. ~ (y < x)
    BY <2>2
  <2> QED
    BY <2>1, <2>3
<1>4. PICK i \in S : x = n - i
  OBVIOUS
<1>5. \A j \in S : n - i <= n - j
  BY <1>3, <1>4
<1> QED
  BY <1>5

\* A sequence with one more.
LEMMA AppendIs ==
  ASSUME NEW s, IsSeq(s), NEW x
  PROVE  /\ IsSeq(Append(s, x)) /\ Len(Append(s, x)) = Len(s) + 1
         /\ \A i \in 1..Len(s) : Append(s, x)[i] = s[i]
         /\ Append(s, x)[Len(s) + 1] = x
<1> DEFINE S == {s[i] : i \in 1..Len(s)} \cup {x}
<1>1. s \in Seq(S)
  <2>1. \A i \in 1..Len(s) : s[i] \in S
    OBVIOUS
  <2> HIDE DEF S
  <2>2. s \in [1..Len(s) -> S] /\ Len(s) \in Nat
    BY <2>1 DEF IsSeq
  <2>3. Seq(S) = UNION {[1..n -> S] : n \in Nat}
    BY SeqDef
  <2> QED
    BY <2>2, <2>3
<1>2. x \in S
  OBVIOUS
<1> HIDE DEF S
<1>3. /\ Append(s, x) \in Seq(S) /\ Len(Append(s, x)) = Len(s) + 1
      /\ \A i \in 1..Len(s) : Append(s, x)[i] = s[i]
      /\ Append(s, x)[Len(s) + 1] = x
  BY <1>1, <1>2, AppendProperties
<1>4. IsSeq(Append(s, x))
  BY <1>3, LenProperties DEF IsSeq
<1> QED
  BY <1>3, <1>4

\* What is committed of a row is its page, or a frame that counts and is no older.
LEMMA CommittedIs ==
  ASSUME NEW main, NEW wal, NEW n \in Nat, PagesAgree(main, wal, n), NEW row \in Ids
  PROVE  \/ Committed(main, wal)[row] = main[row]
         \/ \E k \in 1..Len(wal) :
              /\ wal[k].row = row /\ Commits(wal, k)
              /\ Committed(main, wal)[row] = wal[k].cell
              /\ wal[k].cell.at >= main[row].at
              /\ wal[k].cell.at = main[row].at => wal[k].cell = main[row]
<1> DEFINE ends == {i \in DOMAIN wal : wal[i].last}
           upto == {i \in DOMAIN wal : wal[i].row = row /\ \E e \in ends : i <= e}
           top == CHOOSE i \in upto : \A j \in upto : j <= i
<1>1. Committed(main, wal)[row] = IF upto = {} THEN main[row] ELSE wal[top].cell
  BY DEF Committed
<1>2. DOMAIN wal = 1..Len(wal) /\ Len(wal) \in Nat
  BY DEF PagesAgree, IsSeq
<1>3. \A i : i \in upto <=> i \in 1..Len(wal) /\ wal[i].row = row /\ Commits(wal, i)
  BY <1>2 DEF Commits
<1>4. CASE upto # {}
  <2>1. upto \in SUBSET (0..Len(wal))
    BY <1>2, <1>3
  <2>2. \E i \in upto : \A j \in upto : j <= i
    <3> HIDE DEF upto
    <3> QED
      BY <1>2, <1>4, <2>1, GreatestIs
  <2> HIDE DEF upto
  <2>3. top \in upto /\ \A j \in upto : j <= top
    BY <2>2
  <2> HIDE DEF top
  <2>4. top \in 1..Len(wal) /\ wal[top].row = row /\ Commits(wal, top)
    BY <1>3, <2>3
  <2>5. CASE \A i \in 1..Len(wal) : wal[i].row = row => main[row].at < wal[i].cell.at
    <3>1. wal[top].cell.at \in Nat /\ main[row].at \in Nat
      BY <1>2, <2>4 DEF PagesAgree
    <3>2. main[row].at < wal[top].cell.at
      BY <2>4, <2>5
    <3> QED
      BY <1>1, <1>4, <2>4, <3>1, <3>2
  <2>6. ASSUME NEW k \in 1..Len(wal), wal[k].row = row, wal[k].cell = main[row],
               Commits(wal, k)
        PROVE  /\ wal[top].cell.at >= main[row].at
               /\ wal[top].cell.at = main[row].at => wal[top].cell = main[row]
    <3>1. k \in upto
      BY <1>3, <2>6
    <3>2. k <= top
      BY <2>3, <3>1
    <3>3. wal[top].cell.at \in Nat /\ wal[k].cell.at \in Nat
      BY <1>2, <2>4 DEF PagesAgree
    <3>4. CASE k = top
      BY <2>6, <3>3, <3>4
    <3>5. CASE k < top
      <4>1. wal[k].cell.at < wal[top].cell.at
        BY <2>4, <3>5 DEF PagesAgree
      <4> QED
        BY <2>6, <3>3, <4>1
    <3> QED
      BY <1>2, <2>4, <3>2, <3>4, <3>5
  <2>7. \/ \A i \in 1..Len(wal) : wal[i].row = row => main[row].at < wal[i].cell.at
        \/ \E k \in 1..Len(wal) :
             wal[k].row = row /\ wal[k].cell = main[row] /\ Commits(wal, k)
    BY DEF PagesAgree
  <2> QED
    BY <1>1, <1>4, <2>4, <2>5, <2>6, <2>7
<1> QED
  BY <1>1, <1>4

\* A frame more, at the end of the log.
LEMMA AppendAgrees ==
  ASSUME NEW main, NEW wal, NEW n \in Nat, PagesAgree(main, wal, n),
         NEW frame, frame.cell.at = n + 1
  PROVE  PagesAgree(main, Append(wal, frame), n + 1)
<1> DEFINE more == Append(wal, frame)
<1>1. /\ IsSeq(more) /\ Len(more) = Len(wal) + 1 /\ Len(wal) \in Nat
      /\ \A i \in 1..Len(wal) : more[i] = wal[i]
      /\ more[Len(wal) + 1] = frame
  BY AppendIs DEF PagesAgree, IsSeq
<1> HIDE DEF more
<1>2. \A i \in 1..Len(more) : i \in 1..Len(wal) \/ i = Len(more)
  BY <1>1
<1>3. main = [id \in Ids |-> main[id]] /\ \A id \in Ids : main[id].at \in 0..n + 1
  BY DEF PagesAgree
<1>4. ASSUME NEW i \in 1..Len(more)
      PROVE  more[i].cell.at \in 1..n + 1
  <2>1. CASE i \in 1..Len(wal)
    <3>1. wal[i].cell.at \in 1..n
      BY <2>1 DEF PagesAgree
    <3> QED
      BY <1>1, <2>1, <3>1
  <2>2. CASE i = Len(more)
    <3>1. more[i].cell.at = n + 1
      BY <1>1, <2>2
    <3> QED
      BY <3>1
  <2> QED
    BY <1>2, <2>1, <2>2
<1>5. ASSUME NEW i \in 1..Len(more), NEW j \in 1..Len(more), i < j
      PROVE  more[i].cell.at < more[j].cell.at
  <2>1. i \in 1..Len(wal)
    BY <1>1, <1>5
  <2>2. wal[i].cell.at \in 1..n /\ more[i] = wal[i]
    BY <1>1, <2>1 DEF PagesAgree
  <2>3. CASE j \in 1..Len(wal)
    <3>1. wal[i].cell.at < wal[j].cell.at
      BY <1>5, <2>1, <2>3 DEF PagesAgree
    <3> QED
      BY <1>1, <2>1, <2>3, <3>1
  <2>4. CASE j = Len(more)
    <3>1. more[j].cell.at = n + 1
      BY <1>1, <2>4
    <3> QED
      BY <2>2, <3>1
  <2> QED
    BY <1>2, <2>3, <2>4
<1>6. ASSUME NEW row \in Ids
      PROVE  \/ \A i \in 1..Len(more) : more[i].row = row => main[row].at < more[i].cell.at
             \/ \E k \in 1..Len(more) :
                  more[k].row = row /\ more[k].cell = main[row] /\ Commits(more, k)
  <2>1. CASE \A i \in 1..Len(wal) : wal[i].row = row => main[row].at < wal[i].cell.at
    <3>1. main[row].at \in 0..n
      BY DEF PagesAgree
    <3>2. main[row].at < n + 1
      BY <3>1
    <3>3. ASSUME NEW i \in 1..Len(more), more[i].row = row
          PROVE  main[row].at < more[i].cell.at
      <4>1. CASE i \in 1..Len(wal)
        <5>1. more[i] = wal[i]
          BY <1>1, <4>1
        <5> QED
          BY <2>1, <3>3, <4>1, <5>1
      <4>2. CASE i = Len(more)
        <5>1. more[i].cell.at = n + 1
          BY <1>1, <4>2
        <5> QED
          BY <3>2, <5>1
      <4> QED
        BY <1>2, <4>1, <4>2
    <3> QED
      BY <3>3
  <2>2. ASSUME NEW k \in 1..Len(wal), wal[k].row = row, wal[k].cell = main[row],
               Commits(wal, k)
        PROVE  \E j \in 1..Len(more) :
                 more[j].row = row /\ more[j].cell = main[row] /\ Commits(more, j)
    <3>1. PICK e \in 1..Len(wal) : wal[e].last /\ k <= e
      BY <2>2 DEF Commits
    <3>2. e \in 1..Len(more) /\ k \in 1..Len(more) /\ more[e] = wal[e] /\ more[k] = wal[k]
      BY <1>1
    <3>3. Commits(more, k)
      BY <3>1, <3>2 DEF Commits
    <3> QED
      BY <2>2, <3>2, <3>3
  <2> QED
    BY <2>1, <2>2 DEF PagesAgree
<1>7. PagesAgree(main, more, n + 1)
  BY <1>1, <1>3, <1>4, <1>5, <1>6 DEF PagesAgree
<1> QED
  BY <1>7 DEF more

\* A log of one frame, or of none, agrees with any pages that are older.
LEMMA ShortAgrees ==
  ASSUME NEW main, NEW wal, NEW n \in Nat, PagesAgree(main, wal, n)
  PROVE  /\ PagesAgree(main, <<>>, n)
         /\ \A frame : frame.cell.at = n + 1
              => PagesAgree(main, <<frame>>, n + 1)
<1>1. IsSeq(<<>>) /\ Len(<<>>) = 0
  BY DEF IsSeq
<1>2. PagesAgree(main, <<>>, n)
  BY <1>1 DEF PagesAgree
<1>3. ASSUME NEW frame, frame.cell.at = n + 1
      PROVE  PagesAgree(main, <<frame>>, n + 1)
  <2>1. PagesAgree(main, Append(<<>>, frame), n + 1)
    BY <1>2, <1>3, AppendAgrees
  <2>2. Append(<<>>, frame) = <<frame>>
    OBVIOUS
  <2> QED
    BY <2>1, <2>2
<1> QED
  BY <1>2, <1>3

\* Numbers that go up do not change that either.
LEMMA LaterAgrees ==
  ASSUME NEW main, NEW wal, NEW n \in Nat, PagesAgree(main, wal, n)
  PROVE  PagesAgree(main, wal, n + 1)
<1>1. \A m \in 0..n : m \in 0..n + 1
  OBVIOUS
<1>2. \A m \in 1..n : m \in 1..n + 1
  OBVIOUS
<1> QED
  BY <1>1, <1>2 DEF PagesAgree

\* A transaction of Hermes, or its deletion of a session, writes a frame.
LEMMA FrameAgrees ==
  ASSUME DatabaseRule, NEW frame, frame.cell.at = changes + 1, changes' = changes + 1,
         NEW wal, wal \in {Append(database.wal, frame), <<frame>>},
         database'.main = database.main, database'.wal = wal, database'.file,
         {"main", "wal", "file"} \subseteq DOMAIN database'
  PROVE  DatabaseRule' /\ Newer(database.main, database'.main)
<1>1. PagesAgree(database.main, database.wal, changes) /\ changes \in Nat
  BY DEF DatabaseRule
<1>2. PagesAgree(database.main, wal, changes + 1)
  <2>1. CASE wal = Append(database.wal, frame)
    BY <1>1, <2>1, AppendAgrees
  <2>2. CASE wal = <<frame>>
    BY <1>1, <2>2, ShortAgrees
  <2> QED
    BY <2>1, <2>2
<1>3. Newer(database.main, database'.main)
  BY <1>1 DEF PagesAgree, Newer
<1>4. changes' \in Nat
  BY <1>1
<1> QED
  BY <1>2, <1>3, <1>4 DEF DatabaseRule

\* So does a transaction's action.
LEMMA AppendFrameAgrees ==
  ASSUME DatabaseRule, NEW row, NEW here, NEW last, AppendFrame(row, here, last)
  PROVE  DatabaseRule' /\ Newer(database.main, database'.main)
<1> DEFINE frame == [row |-> row, cell |-> [here |-> here, at |-> changes + 1], last |-> last]
<1>1. changes' = changes + 1
  BY DEF AppendFrame
<1>2. PICK wal \in {Append(database.wal, frame), <<frame>>} :
        database' = [database EXCEPT !.wal = wal, !.file = TRUE,
                                     !.writes[2] = database.writes[2] + 1]
  BY DEF AppendFrame
<1>3. frame.cell.at = changes + 1
  OBVIOUS
<1> HIDE DEF frame
<1>4. {"main", "wal", "file"} \subseteq DOMAIN database
  BY DEF DatabaseRule
<1>5. /\ database'.main = database.main /\ database'.wal = wal /\ database'.file
      /\ {"main", "wal", "file"} \subseteq DOMAIN database'
  BY <1>2, <1>4
<1> QED
  BY <1>1, <1>2, <1>3, <1>5, FrameAgrees

\* A checkpoint moves a page to what is committed of it, which is newer.
LEMMA CheckpointAgrees ==
  ASSUME DatabaseRule, Checkpoint
  PROVE  DatabaseRule' /\ Newer(database.main, database'.main)
<1> DEFINE main == database.main
           wal == database.wal
           n == changes
<1>1. PagesAgree(main, wal, n) /\ n \in Nat /\ {"main", "wal", "file"} \subseteq DOMAIN database
  BY DEF DatabaseRule
<1>2. PICK row \in Ids :
        /\ main[row] # Current[row]
        /\ database' = [database EXCEPT !.main[row] = Current[row],
                                        !.writes[1] = database.writes[1] + 1]
  BY DEF Checkpoint
<1>3. changes' = changes
  BY DEF Checkpoint
<1>4. PICK k \in 1..Len(wal) :
        /\ wal[k].row = row /\ Commits(wal, k) /\ Current[row] = wal[k].cell
        /\ wal[k].cell.at >= main[row].at
        /\ wal[k].cell.at = main[row].at => wal[k].cell = main[row]
  BY <1>1, <1>2, CommittedIs DEF Current
<1>5. /\ database'.wal = wal /\ database'.file = database.file
      /\ database'.main = [main EXCEPT ![row] = wal[k].cell]
      /\ {"main", "wal", "file"} \subseteq DOMAIN database'
  BY <1>1, <1>2, <1>4
<1> DEFINE next == database'.main
<1>6. main = [id \in Ids |-> main[id]]
  BY <1>1 DEF PagesAgree
<1>7. /\ next = [id \in Ids |-> next[id]] /\ next[row] = wal[k].cell
      /\ \A id \in Ids \ {row} : next[id] = main[id]
  BY <1>5, <1>6
<1>8. wal[k].cell.at \in 1..n
  BY <1>1 DEF PagesAgree
<1>9. \A id \in Ids : main[id].at \in 0..n
  BY <1>1 DEF PagesAgree
<1> HIDE DEF next, main, wal, n
<1>10. \A id \in Ids : next[id].at \in 0..n
  <2>1. wal[k].cell.at \in 0..n
    BY <1>8
  <2> QED
    BY <1>7, <1>9, <2>1
<1>11. ASSUME NEW r \in Ids
       PROVE  \/ \A i \in 1..Len(wal) : wal[i].row = r => next[r].at < wal[i].cell.at
              \/ \E j \in 1..Len(wal) :
                   wal[j].row = r /\ wal[j].cell = next[r] /\ Commits(wal, j)
  <2>1. CASE r = row
    BY <1>4, <1>7, <2>1
  <2>2. CASE r # row
    <3>1. next[r] = main[r]
      BY <1>7, <2>2
    <3> QED
      BY <1>1, <3>1 DEF PagesAgree
  <2> QED
    BY <2>1, <2>2
<1>12. PagesAgree(next, wal, n)
  BY <1>1, <1>7, <1>10, <1>11 DEF PagesAgree
<1>13. Newer(main, next)
  <2> SUFFICES ASSUME NEW id \in Ids
               PROVE  /\ main[id].at \in Nat /\ next[id].at \in Nat
                      /\ next[id].at >= main[id].at
                      /\ next[id].at = main[id].at => next[id] = main[id]
    BY DEF Newer
  <2>1. CASE id = row
    BY <1>4, <1>7, <1>8, <1>9, <2>1
  <2>2. CASE id # row
    <3>1. next[id] = main[id] /\ main[id].at \in 0..n
      BY <1>7, <1>9, <2>2
    <3> QED
      BY <1>1, <3>1
  <2> QED
    BY <2>1, <2>2
<1>14. DatabaseRule'
  <2>1. ~database'.file => database'.wal = <<>>
    BY <1>5 DEF DatabaseRule, wal
  <2>2. PagesAgree(database'.main, database'.wal, changes') /\ changes' \in Nat
    BY <1>1, <1>3, <1>5, <1>12 DEF next, n
  <2> QED
    BY <1>5, <2>1, <2>2 DEF DatabaseRule
<1> QED
  BY <1>13, <1>14 DEF next, main

\* The last connection takes a log with it that has been moved.
LEMMA CloseAgrees ==
  ASSUME DatabaseRule, CloseDatabase
  PROVE  DatabaseRule' /\ Newer(database.main, database'.main)
<1>1. /\ PagesAgree(database.main, database.wal, changes) /\ changes \in Nat
      /\ {"main", "wal", "file"} \subseteq DOMAIN database
  BY DEF DatabaseRule
<1>2. database' = [database EXCEPT !.wal = <<>>, !.file = FALSE] /\ changes' = changes
  BY DEF CloseDatabase
<1>3. /\ database'.main = database.main /\ database'.wal = <<>>
      /\ {"main", "wal", "file"} \subseteq DOMAIN database'
  BY <1>1, <1>2
<1>4. PagesAgree(database.main, <<>>, changes)
  BY <1>1, ShortAgrees
<1>5. Newer(database.main, database.main)
  BY <1>1 DEF PagesAgree, Newer
<1> QED
  BY <1>1, <1>2, <1>3, <1>4, <1>5 DEF DatabaseRule

\* What leaves the database alone keeps it so, also when something else changes.
LEMMA StillAgrees ==
  ASSUME DatabaseRule, database' = database, changes' \in {changes, changes + 1}
  PROVE  DatabaseRule' /\ Newer(database.main, database'.main)
<1>1. PagesAgree(database.main, database.wal, changes) /\ changes \in Nat
  BY DEF DatabaseRule
<1>2. PagesAgree(database.main, database.wal, changes + 1)
  BY <1>1, LaterAgrees
<1>3. Newer(database.main, database.main)
  BY <1>1 DEF PagesAgree, Newer
<1> QED
  BY <1>1, <1>2, <1>3 DEF DatabaseRule

\* hermes' own deletion is a transaction too, if it does anything.
LEMMA RemovedAgrees ==
  ASSUME DatabaseRule, provider = "hermes", NEW p \in Readers, RunCommand(p)
  PROVE  DatabaseRule' /\ Newer(database.main, database'.main)
<1>1. changes' = changes + 1
  BY DEF RunCommand
<1>2. PICK gone : Removed(reader[p].target, gone)
  BY DEF RunCommand
<1>3. CASE database' = database
  BY <1>1, <1>3, StillAgrees
<1>4. CASE database' # database
  <2> DEFINE frame == [row |-> reader[p].target, last |-> TRUE,
                       cell |-> [here |-> FALSE, at |-> changes + 1]]
  <2>1. database' = [database EXCEPT !.file = TRUE, !.writes[2] = database.writes[2] + 1,
                                     !.wal = Append(database.wal, frame)]
    BY <1>2, <1>4 DEF Removed
  <2>2. frame.cell.at = changes + 1
    OBVIOUS
  <2> HIDE DEF frame
  <2>3. {"main", "wal", "file"} \subseteq DOMAIN database
    BY DEF DatabaseRule
  <2>4. /\ database'.main = database.main /\ database'.wal = Append(database.wal, frame)
        /\ database'.file /\ {"main", "wal", "file"} \subseteq DOMAIN database'
    BY <2>1, <2>3
  <2> QED
    BY <1>1, <2>2, <2>4, FrameAgrees
<1> QED
  BY <1>3, <1>4

\* Every step keeps the pages in order.
LEMMA PagesKept ==
  ASSUME DatabaseRule, provider = "hermes", ListingNext
  PROVE  DatabaseRule' /\ Newer(database.main, database'.main)
<1>1. CASE DatabaseStep
  <2>1. CASE WriteRow
    BY <2>1, AppendFrameAgrees DEF WriteRow
  <2>2. CASE ReplaceRow
    BY <2>2, AppendFrameAgrees DEF ReplaceRow
  <2>3. CASE Checkpoint \/ CloseDatabase
    BY <2>3, CheckpointAgrees, CloseAgrees
  <2> QED
    BY <1>1, <2>1, <2>2, <2>3 DEF DatabaseStep
<1>2. CASE HomeMoves
  BY <1>2, StillAgrees DEF HomeMoves
<1>3. ASSUME NEW p \in Readers, Process(p)
      PROVE  RunCommand(p) \/ (database' = database /\ changes' = changes)
  BY <1>3 DEF Process, Look, Start, Refresh, Resolve, Unique, Verify, RemoveListed, ReadBack,
              stored
<1>4. ASSUME NEW p \in Readers, Process(p)
      PROVE  DatabaseRule' /\ Newer(database.main, database'.main)
  BY <1>3, <1>4, RemovedAgrees, StillAgrees
<1> QED
  BY <1>1, <1>2, <1>4 DEF ListingNext, Outside, FileStep

\* At first no page was ever written.
LEMMA PagesBegin ==
  ASSUME ListingInit
  PROVE  DatabaseRule
<1> DEFINE main == [id \in Ids |-> [here |-> id = 1, at |-> 0]]
<1>1. /\ database = [main |-> main, wal |-> <<>>, file |-> FALSE, writes |-> <<0, 0>>]
      /\ changes = 0
  BY DEF ListingInit
<1>2. PagesAgree(main, <<>>, 0)
  BY DEF PagesAgree, IsSeq
<1> HIDE DEF main
<1> QED
  BY <1>1, <1>2 DEF DatabaseRule

-----------------------------------------------------------------------------
(* Hermes: a snapshot shows one moment                                         *)

\* A page was read as it was, or as it still is.
PageRead(read, page) ==
  /\ read = <<"page", read[2]>> /\ read[2].at \in Nat /\ read[2].at <= page.at
  /\ read[2].at = page.at => read[2] = page

\* The page i was written after the first look at it, or the second look shows it.
Turned(reads, main, i) ==
  IF Len(reads) < 3 + i THEN reads[i][2].at < main[i].at ELSE reads[3 + i] # reads[i]

\* What the pages and the log of the first look show.
FirstCopy(reads) ==
  Committed([i \in Ids |-> reads[i][2]], IF reads[3] = NoLog THEN <<>> ELSE reads[3][2])

\* The pages that were read and the log were all there when the log was read, or the next
\* look at them tells that they were not.
ReadsAgree(reads, main, shown) ==
  /\ IsSeq(reads) /\ Len(reads) <= 8
  /\ \A i \in Ids : Len(reads) >= i => PageRead(reads[i], main[i])
  /\ Len(reads) >= 3 => \/ RowsIn(FirstCopy(reads)) \in shown
                        \/ \E i \in Ids : Turned(reads, main, i)

\* Where a process that lists Hermes may be.
HermesPcs ==
  {"off", "walk", "stamp", "copy", "command", "read", "done"} \cup (Thens \ {"path"})

\* What a process has of the database is from one of these moments.
Shows(r, main, shown) ==
  /\ r.pc \in HermesPcs /\ r.then # "path" /\ ~r.known /\ ~r.scanned /\ IsSeq(r.stamps)
  /\ r.pc \notin {"off", "done"} => r.task # "none"
  /\ r.pc \in {"off", "walk", "stamp", "command"} \/ (r.pc = "unique" /\ r.outcome # "failed")
       => r.reads = <<>>
  /\ r.pc = "copy" => ReadsAgree(r.reads, main, shown)
  /\ r.copy.stamp # <<>> => r.copy.shows \in shown
  /\ r.pc = "stamp" /\ Len(r.stamps) >= 2 => r.copy.shows \in shown
  /\ r.pc \in {"refresh", "search", "unique", "verify"} /\ r.outcome # "failed"
       => IdsOf(r.listed) \in shown

\* So it is for every process, and what is always there is in each of its moments.
HermesInv ==
  provider = "hermes" =>
    /\ DatabaseRule
    /\ \A p \in Readers :
         /\ Shows(reader[p], database.main, moments[p])
         /\ reader[p].then # "verify" => \A m \in moments[p] : steady[p] \subseteq m

\* What was read stays right while pages get newer.
LEMMA ReadsStay ==
  ASSUME NEW main, NEW next, Newer(main, next), NEW shown, NEW more, shown \subseteq more,
         NEW reads, ReadsAgree(reads, main, shown)
  PROVE  ReadsAgree(reads, next, more)
<1>1. ASSUME NEW i \in Ids, Len(reads) >= i
      PROVE  PageRead(reads[i], next[i])
  <2>1. PageRead(reads[i], main[i])
    BY <1>1 DEF ReadsAgree
  <2>2. main[i].at \in Nat /\ next[i].at \in Nat /\ next[i].at >= main[i].at
    BY DEF Newer
  <2>3. next[i].at = main[i].at => next[i] = main[i]
    BY DEF Newer
  <2>4. reads[i][2].at \in Nat /\ reads[i][2].at <= main[i].at
    BY <2>1 DEF PageRead
  <2>5. reads[i][2].at <= next[i].at
    BY <2>2, <2>4
  <2>6. ASSUME reads[i][2].at = next[i].at PROVE reads[i][2] = next[i]
    <3>1. next[i].at = main[i].at
      BY <2>2, <2>4, <2>6
    <3> QED
      BY <2>1, <2>3, <2>6, <3>1 DEF PageRead
  <2> QED
    BY <2>1, <2>4, <2>5, <2>6 DEF PageRead
<1>2. ASSUME NEW i \in Ids, Turned(reads, main, i), Len(reads) >= 3
      PROVE  Turned(reads, next, i)
  <2>1. Len(reads) >= i
    BY <1>2 DEF Ids, ReadsAgree, IsSeq
  <2>2. PageRead(reads[i], main[i])
    BY <2>1 DEF ReadsAgree
  <2>3. main[i].at \in Nat /\ next[i].at \in Nat /\ next[i].at >= main[i].at
    BY DEF Newer
  <2>4. reads[i][2].at \in Nat
    BY <2>2 DEF PageRead
  <2> QED
    BY <1>2, <2>3, <2>4 DEF Turned
<1> QED
  BY <1>1, <1>2 DEF ReadsAgree

\* And so does what a process shows.
LEMMA ShowsStays ==
  ASSUME NEW main, NEW next, Newer(main, next), NEW shown, NEW more, shown \subseteq more,
         NEW r, Shows(r, main, shown)
  PROVE  Shows(r, next, more)
BY ReadsStay DEF Shows

\* What a process waits for adds a moment, if it has a task.
LEMMA MomentsGrow ==
  ASSUME WatchRule, ListingNext, provider = "hermes", NEW p \in Readers
  PROVE  /\ reader'[p].task # "none" => moments'[p] = moments[p] \cup {There'}
         /\ reader'[p] = reader[p] => moments[p] \subseteq moments'[p]
<1>1. Watch /\ provider = "hermes"
  BY DEF ListingNext
<1>2. moments'[p] = IF reader'[p].task = "none" THEN {} ELSE moments[p] \cup {There'}
  BY <1>1 DEF Watch
<1>3. reader[p].task = "none" => moments[p] = {}
  BY DEF WatchRule
<1> QED
  BY <1>2, <1>3

-----------------------------------------------------------------------------
(* The steps of a snapshot                                                     *)

\* One more look, at one file: the pages at the moment of the log were committed with it,
\* or one of them was read before it was written.
LEMMA LooksAgree ==
  ASSUME DatabaseRule, NEW shown, provider = "hermes", home, There \in shown,
         NEW reads, ReadsAgree(reads, database.main, shown), Len(reads) < 8,
         NEW read, Len(reads) # 5 => read = Page((Len(reads) % 3) + 1)
  PROVE  ReadsAgree(Append(reads, read), database.main, shown)
<1> DEFINE main == database.main
           n == Len(reads)
           more == Append(reads, read)
<1>1. /\ IsSeq(reads) /\ n \in 0..7
      /\ IsSeq(more) /\ Len(more) = n + 1
      /\ \A i \in 1..n : more[i] = reads[i]
      /\ more[n + 1] = read
  <2>1. IsSeq(reads)
    BY DEF ReadsAgree
  <2>2. n \in Nat
    BY <2>1 DEF IsSeq
  <2>3. /\ IsSeq(more) /\ Len(more) = n + 1
        /\ \A i \in 1..n : more[i] = reads[i]
        /\ more[n + 1] = read
    BY <2>1, AppendIs
  <2>4. n \in 0..7
    <3>1. n < 8
      OBVIOUS
    <3> HIDE DEF n
    <3> QED
      BY <2>2, <3>1
  <2> QED
    BY <2>1, <2>3, <2>4
<1>2. PagesAgree(main, database.wal, changes) /\ changes \in Nat
  BY DEF DatabaseRule
<1>3. \A i \in Ids : main[i].at \in Nat
  BY <1>2 DEF PagesAgree
<1>4. /\ Page(1) = <<"page", main[1]>> /\ Page(2) = <<"page", main[2]>>
      /\ Page(3) = IF database.file THEN <<"log", database.wal>> ELSE NoLog
  BY DEF Page
<1> HIDE DEF more, main
<1>5. ASSUME NEW i \in Ids, n + 1 >= i
      PROVE  PageRead(more[i], main[i])
  <2>1. CASE n >= i
    <3>1. more[i] = reads[i]
      BY <1>1, <2>1 DEF Ids
    <3> QED
      BY <2>1, <3>1 DEF ReadsAgree, main
  <2>2. CASE n = 0 /\ i = 1
    <3>1. more[i] = Page(1)
      BY <1>1, <2>2
    <3>2. more[i] = <<"page", main[i]>>
      BY <1>4, <2>2, <3>1
    <3> QED
      BY <1>3, <3>2 DEF PageRead
  <2>3. CASE n = 1 /\ i = 2
    <3>1. more[i] = Page(2)
      BY <1>1, <2>3
    <3>2. more[i] = <<"page", main[i]>>
      BY <1>4, <2>3, <3>1
    <3> QED
      BY <1>3, <3>2 DEF PageRead
  <2>4. i \in {1, 2}
    BY DEF Ids
  <2>5. n >= i \/ (n = 0 /\ i = 1) \/ (n = 1 /\ i = 2)
    <3> HIDE DEF n
    <3> QED
      BY <1>1, <1>5, <2>4
  <2> QED
    BY <2>1, <2>2, <2>3, <2>5
<1>6. SUFFICES ASSUME Len(more) >= 3
               PROVE  \/ RowsIn(FirstCopy(more)) \in shown
                      \/ \E i \in Ids : Turned(more, main, i)
  <2> HIDE DEF n
  <2>1. IsSeq(more) /\ Len(more) <= 8
    BY <1>1
  <2>2. \A i \in Ids : Len(more) >= i => PageRead(more[i], main[i])
    BY <1>1, <1>5
  <2> QED
    BY <2>1, <2>2 DEF ReadsAgree, more, main
<1>7. CASE n < 2
  BY <1>1, <1>7, <1>6
<1>8. CASE n = 2
  <2>1. more[3] = Page(3) /\ Len(more) = 3
    BY <1>1, <1>8
  <2>2. PageRead(more[1], main[1]) /\ PageRead(more[2], main[2])
    BY <1>5, <1>8 DEF Ids
  <2>3. CASE more[1][2].at = main[1].at /\ more[2][2].at = main[2].at
    <3>1. more[1][2] = main[1] /\ more[2][2] = main[2]
      BY <2>2, <2>3 DEF PageRead
    <3>2. [i \in Ids |-> more[i][2]] = main
      <4>1. main = [i \in Ids |-> main[i]]
        BY <1>2 DEF PagesAgree
      <4>2. \A i \in Ids : more[i][2] = main[i]
        BY <3>1 DEF Ids
      <4> QED
        BY <4>1, <4>2
    <3>3. (IF more[3] = NoLog THEN <<>> ELSE more[3][2]) = database.wal
      <4>1. CASE database.file
        <5>1. more[3] = <<"log", database.wal>>
          BY <1>4, <2>1, <4>1
        <5>2. more[3] # NoLog
          <6>1. Len(<<"log", database.wal>>) = 2 /\ Len(NoLog) = 1
            BY DEF NoLog
          <6> QED
            BY <5>1, <6>1
        <5> QED
          BY <5>1, <5>2
      <4>2. CASE ~database.file
        BY <1>4, <2>1, <4>2 DEF DatabaseRule
      <4> QED
        BY <4>1, <4>2
    <3>4. FirstCopy(more) = Current
      BY <3>2, <3>3 DEF FirstCopy, Current, main
    <3>5. RowsIn(FirstCopy(more)) \in shown
      <4>1. There = RowsIn(Current)
        BY DEF There, RowProviders
      <4> QED
        BY <3>4, <4>1
    <3> QED
      BY <3>5
  <2>4. ASSUME NEW i \in Ids, more[i][2].at # main[i].at
        PROVE  Turned(more, main, i)
    <3>1. PageRead(more[i], main[i])
      BY <2>2 DEF Ids
    <3>2. more[i][2].at < main[i].at
      BY <1>3, <2>4, <3>1 DEF PageRead
    <3>3. Len(more) < 3 + i
      BY <2>1 DEF Ids
    <3> QED
      BY <3>2, <3>3 DEF Turned
  <2>5. CASE ~(more[1][2].at = main[1].at /\ more[2][2].at = main[2].at)
    <3>1. \E i \in Ids : Turned(more, main, i)
      BY <2>4, <2>5 DEF Ids
    <3> QED
      BY <3>1
  <2> QED
    BY <2>3, <2>5
<1>9. CASE n >= 3
  <2>1. more[1] = reads[1] /\ more[2] = reads[2] /\ more[3] = reads[3]
    BY <1>1, <1>9
  <2>2. FirstCopy(more) = FirstCopy(reads)
    <3>1. \A i \in Ids : more[i] = reads[i]
      BY <2>1 DEF Ids
    <3> QED
      BY <2>1, <3>1 DEF FirstCopy
  <2>3. ASSUME NEW i \in Ids, Turned(reads, main, i)
        PROVE  Turned(more, main, i)
    <3>1. more[i] = reads[i] /\ i \in {1, 2}
      BY <2>1 DEF Ids
    <3>2. CASE n + 1 < 3 + i
      <4>1. Len(more) < 3 + i /\ n < 3 + i
        BY <1>1, <3>1, <3>2
      <4> QED
        BY <2>3, <3>1, <4>1 DEF Turned
    <3>3. CASE n + 1 = 3 + i
      <4>1. more[3 + i] = <<"page", main[i]>>
        <5>1. n = i + 2 /\ n # 5
          <6> HIDE DEF n
          <6>1. i = 1 \/ i = 2
            BY <3>1
          <6> QED
            BY <1>1, <3>3, <6>1
        <5>2. (n % 3) + 1 = i
          BY <3>1, <5>1
        <5>3. read = Page(i) /\ more[3 + i] = read
          BY <1>1, <3>3, <5>1, <5>2
        <5> QED
          BY <1>4, <3>1, <5>3
      <4>2. reads[i][2].at < main[i].at
        BY <1>1, <2>3, <3>1, <3>3 DEF Turned
      <4>3. more[3 + i][2] = main[i]
        BY <4>1
      <4>4. more[3 + i] # more[i]
        <5>1. PageRead(reads[i], main[i])
          BY <1>9, <3>1, <1>1 DEF ReadsAgree, main, Ids
        <5>2. reads[i][2].at \in Nat /\ main[i].at \in Nat
          BY <1>3, <5>1 DEF PageRead
        <5> QED
          BY <3>1, <4>2, <4>3, <5>2
      <4>5. ~(Len(more) < 3 + i)
        BY <1>1, <3>1, <3>3
      <4> QED
        BY <4>4, <4>5 DEF Turned
    <3>4. CASE n + 1 > 3 + i
      <4>1. 3 + i \in 1..n /\ ~(n < 3 + i) /\ ~(Len(more) < 3 + i)
        BY <1>1, <3>1, <3>4
      <4>2. more[3 + i] = reads[3 + i]
        BY <1>1, <4>1
      <4> QED
        BY <2>3, <3>1, <4>1, <4>2 DEF Turned
    <3> QED
      BY <1>1, <3>1, <3>2, <3>3, <3>4
  <2>4. \/ RowsIn(FirstCopy(reads)) \in shown
        \/ \E i \in Ids : Turned(reads, main, i)
    BY <1>9 DEF ReadsAgree, main
  <2>5. \/ RowsIn(FirstCopy(more)) \in shown
        \/ \E i \in Ids : Turned(more, main, i)
    BY <2>2, <2>3, <2>4
  <2> QED
    BY <2>5
<1> HIDE DEF n
<1>10. n < 2 \/ n = 2 \/ n >= 3
  BY <1>1
<1> QED
  BY <1>7, <1>8, <1>9, <1>10

\* A copy that reads the same three times is one of a moment.
LEMMA CopyIsTrue ==
  ASSUME NEW main, NEW shown, NEW reads, ReadsAgree(reads, main, shown),
         NEW read, Len(Append(reads, read)) = 9, Unchanged(Append(reads, read))
  PROVE  RowsIn(Copied(Append(reads, read))) \in shown
<1> DEFINE all == Append(reads, read)
<1>1. IsSeq(reads) /\ IsSeq(all) /\ Len(all) = 9 /\ Len(reads) = 8
      /\ \A i \in 1..8 : all[i] = reads[i]
  <2>1. IsSeq(reads)
    BY DEF ReadsAgree
  <2>2. Len(reads) \in Nat
    BY <2>1 DEF IsSeq
  <2>3. /\ IsSeq(all) /\ Len(all) = Len(reads) + 1
        /\ \A i \in 1..Len(reads) : all[i] = reads[i]
    BY <2>1, AppendIs
  <2>4. Len(all) = 9
    OBVIOUS
  <2> HIDE DEF all
  <2>5. Len(reads) = 8
    <3> DEFINE n == Len(reads)
    <3>1. n \in Nat /\ n + 1 = 9
      BY <2>2, <2>3, <2>4
    <3> HIDE DEF n
    <3>2. n = 8
      BY <3>1
    <3> QED
      BY <3>2 DEF n
  <2> QED
    BY <2>1, <2>3, <2>4, <2>5
<1> HIDE DEF all
<1>2. all \in Seq({all[i] : i \in 1..9})
  <2> DEFINE S == {all[i] : i \in 1..9}
  <2>1. \A i \in 1..9 : all[i] \in S
    OBVIOUS
  <2> HIDE DEF S
  <2>2. all \in [1..9 -> S] /\ 9 \in Nat
    BY <1>1, <2>1 DEF IsSeq
  <2>3. Seq(S) = UNION {[1..n -> S] : n \in Nat}
    BY SeqDef
  <2>4. all \in Seq(S)
    BY <2>2, <2>3
  <2> QED
    BY <2>4 DEF S
<1>3. /\ Part(all, 1) = SubSeq(all, 1, 3) /\ Part(all, 2) = SubSeq(all, 4, 6)
  BY DEF Part
<1>4. /\ \A i \in 1..3 : SubSeq(all, 1, 3)[i] = all[i]
      /\ \A i \in 1..3 : SubSeq(all, 4, 6)[i] = all[i + 3]
  BY <1>1, <1>2, SubSeqProperties
<1>5. SubSeq(all, 1, 3) = SubSeq(all, 4, 6)
  BY <1>3 DEF Unchanged, all
<1>6. \A i \in 1..3 : all[i] = all[i + 3]
  BY <1>4, <1>5
<1>7. reads[1] = reads[4] /\ reads[2] = reads[5]
  BY <1>1, <1>6
<1>8. ~ \E i \in Ids : Turned(reads, main, i)
  <2>1. \A i \in Ids : i \in {1, 2}
    BY DEF Ids
  <2> QED
    BY <1>1, <1>7, <2>1 DEF Turned
<1>9. RowsIn(FirstCopy(reads)) \in shown
  BY <1>1, <1>8 DEF ReadsAgree
<1>10. Copied(all) = FirstCopy(reads)
  <2>1. \A i \in 1..3 : Part(all, 2)[i] = reads[i]
    BY <1>1, <1>3, <1>4, <1>5
  <2>2. \A i \in Ids : Part(all, 2)[i] = reads[i]
    BY <2>1 DEF Ids
  <2>3. Part(all, 2)[3] = reads[3]
    BY <2>1
  <2> QED
    BY <2>2, <2>3 DEF Copied, FirstCopy
<1> QED
  BY <1>9, <1>10 DEF all

\* Rows of sessions are these sessions.
LEMMA RowIds ==
  ASSUME NEW S
  PROVE  IdsOf({"rows"} \X S) = S
<1>1. ASSUME NEW x \in IdsOf({"rows"} \X S) PROVE x \in S
  BY <1>1 DEF IdsOf
<1>2. ASSUME NEW x \in S PROVE x \in IdsOf({"rows"} \X S)
  <2>1. <<"rows", x>> \in {"rows"} \X S /\ <<"rows", x>>[2] = x
    BY <1>2
  <2> QED
    BY <2>1 DEF IdsOf
<1> QED
  BY <1>1, <1>2

\* A listing that ends with what was shown at a moment, or fails, is one of it.
LEMMA ListShows ==
  ASSUME NEW r, NEW main, NEW shown, Shows(r, main, shown), r.then \in Thens,
         r.pc \in {"walk", "stamp", "copy"}, NEW new, new.pc = r.then, new.then = r.then,
         new.known = r.known, new.scanned = r.scanned, new.task = r.task,
         new.stamps = r.stamps, new.copy.stamp # <<>> => new.copy.shows \in shown,
         \/ new.outcome = "failed"
         \/ new.reads = <<>> /\ IdsOf(new.listed) \in shown
  PROVE  Shows(new, main, shown)
<1>1. r.then \in Thens \ {"path"}
  BY DEF Shows
<1>2. new.pc \in HermesPcs /\ new.pc \notin {"off", "walk", "stamp", "copy", "command"}
  BY <1>1 DEF HermesPcs, Thens
<1> QED
  BY <1>1, <1>2 DEF Shows

\* The database is found, or is missing and shows nothing.
LEMMA FindShows ==
  ASSUME WatchRule, provider = "hermes", NEW p \in Readers, FindDatabase(p),
         NEW main, NEW shown, There \in shown, Shows(reader[p], main, shown),
         NEW new, reader' = [reader EXCEPT ![p] = new]
  PROVE  Shows(new, main, shown)
<1> DEFINE r == reader[p]
<1>1. reader = [q \in Readers |-> reader[q]] /\ r.then \in Thens
  BY DEF WatchRule, Phase
<1>2. CASE home
  <2>1. PICK pc \in {"stamp", "copy"} :
          Moves(p, "walk", [pc |-> pc, stamps |-> <<>>, round |-> 1, try |-> 1])
    BY <1>2 DEF FindDatabase
  <2> DEFINE changed == [pc |-> pc, stamps |-> <<>>, round |-> 1, try |-> 1]
  <2>2. /\ r.pc = "walk"
        /\ \A x \in DOMAIN Fresh : new[x] = (IF x \in DOMAIN changed THEN changed[x] ELSE r[x])
    BY <1>1, <2>1, SteppedTo
  <2>3. /\ new.pc = pc /\ new.stamps = <<>> /\ new.then = r.then /\ new.task = r.task
        /\ new.known = r.known /\ new.scanned = r.scanned /\ new.reads = r.reads
        /\ new.copy = r.copy
    BY <2>2 DEF Fresh
  <2>4. new.reads = <<>>
    BY <2>2, <2>3 DEF Shows
  <2>5. IsSeq(<<>>) /\ Len(<<>>) = 0 /\ ReadsAgree(<<>>, main, shown)
    <3>1. IsSeq(<<>>) /\ Len(<<>>) = 0
      BY DEF IsSeq
    <3>2. \A i \in Ids : ~(0 >= i)
      BY DEF Ids
    <3> QED
      BY <3>1, <3>2 DEF ReadsAgree
  <2>6. new.pc \in HermesPcs
    BY <2>3 DEF HermesPcs
  <2> QED
    BY <2>2, <2>3, <2>4, <2>5, <2>6 DEF Shows
<1>3. CASE ~home
  <2> DEFINE changed == [pc |-> r.then, listed |-> {}]
  <2>1. Moves(p, "walk", changed)
    BY <1>3 DEF FindDatabase
  <2>2. /\ r.pc = "walk"
        /\ \A x \in DOMAIN Fresh : new[x] = (IF x \in DOMAIN changed THEN changed[x] ELSE r[x])
    BY <1>1, <2>1, SteppedTo
  <2>3. /\ new.pc = r.then /\ new.listed = {} /\ new.then = r.then /\ new.task = r.task
        /\ new.known = r.known /\ new.scanned = r.scanned /\ new.reads = r.reads
        /\ new.copy = r.copy /\ new.stamps = r.stamps
    BY <2>2 DEF Fresh
  <2>4. new.reads = <<>>
    BY <2>2, <2>3 DEF Shows
  <2>5. There = {} /\ IdsOf(new.listed) = {}
    BY <1>3, <2>3 DEF There, IdsOf
  <2>6. IdsOf(new.listed) \in shown
    BY <2>5
  <2>7. new.copy.stamp # <<>> => new.copy.shows \in shown
    BY <2>3 DEF Shows
  <2> QED
    BY <1>1, <2>2, <2>3, <2>4, <2>6, <2>7, ListShows
<1> QED
  BY <1>2, <1>3

\* A snapshot that fails shows nothing.
LEMMA FailShows ==
  ASSUME WatchRule, NEW p \in Readers, NEW pc \in {"stamp", "copy"}, SnapshotFails(p, pc),
         NEW main, NEW shown, Shows(reader[p], main, shown),
         NEW new, reader' = [reader EXCEPT ![p] = new]
  PROVE  Shows(new, main, shown)
<1> DEFINE r == reader[p]
           changed == [pc |-> r.then, outcome |-> "failed"]
<1>1. reader = [q \in Readers |-> reader[q]] /\ r.then \in Thens
  BY DEF WatchRule, Phase
<1>2. Moves(p, pc, changed)
  BY DEF SnapshotFails
<1>3. /\ r.pc = pc
      /\ \A x \in DOMAIN Fresh : new[x] = (IF x \in DOMAIN changed THEN changed[x] ELSE r[x])
  BY <1>1, <1>2, SteppedTo
<1>4. /\ new.pc = r.then /\ new.outcome = "failed" /\ new.then = r.then /\ new.task = r.task
      /\ new.known = r.known /\ new.scanned = r.scanned
      /\ new.copy = r.copy /\ new.stamps = r.stamps
  BY <1>3 DEF Fresh
<1>5. new.copy.stamp # <<>> => new.copy.shows \in shown
  BY <1>4 DEF Shows
<1> QED
  BY <1>1, <1>3, <1>4, <1>5, ListShows

\* The earlier copy is used again, or a new one is begun.
LEMMA StampShows ==
  ASSUME WatchRule, NEW p \in Readers, ReadStamp(p),
         NEW main, NEW shown, Shows(reader[p], main, shown),
         NEW new, reader' = [reader EXCEPT ![p] = new]
  PROVE  Shows(new, main, shown)
<1> DEFINE r == reader[p]
           n == Len(r.stamps)
<1>1. /\ reader = [q \in Readers |-> reader[q]] /\ r.then \in Thens
      /\ r.pc = "stamp" /\ IsSeq(r.stamps)
  BY DEF WatchRule, Phase, ReadStamp, At, Shows
<1>2. PICK stamp :
        LET stamps == Append(r.stamps, stamp)
        IN \/ Len(stamps) # 2 /\ Moves(p, "stamp", [stamps |-> stamps])
           \/ /\ Len(stamps) = 2 /\ r.copy.stamp = stamps
              /\ Moves(p, "stamp", [pc |-> r.then, listed |-> {"rows"} \X r.copy.shows])
           \/ Moves(p, "stamp",
                [pc |-> "copy", stamps |-> stamps, copy |-> NoCopy, reads |-> <<>>, try |-> 1])
           \/ SnapshotFails(p, "stamp")
  BY DEF ReadStamp
<1> DEFINE stamps == Append(r.stamps, stamp)
<1>3. IsSeq(stamps) /\ Len(stamps) = n + 1 /\ n \in Nat
  BY <1>1, AppendIs DEF IsSeq
<1> HIDE DEF stamps
<1>4. CASE Len(stamps) # 2 /\ Moves(p, "stamp", [stamps |-> stamps])
  <2> DEFINE changed == [stamps |-> stamps]
  <2>1. \A x \in DOMAIN Fresh : new[x] = (IF x \in DOMAIN changed THEN changed[x] ELSE r[x])
    BY <1>1, <1>4, SteppedTo
  <2>2. /\ new.pc = "stamp" /\ new.stamps = stamps /\ new.then = r.then /\ new.task = r.task
        /\ new.known = r.known /\ new.scanned = r.scanned /\ new.reads = r.reads
        /\ new.copy = r.copy
    BY <1>1, <2>1 DEF Fresh
  <2>3. Len(new.stamps) >= 2 => n >= 2
    <3> HIDE DEF n
    <3> QED
      BY <1>3, <1>4, <2>2
  <2> QED
    BY <1>1, <1>3, <2>2, <2>3 DEF Shows
<1>5. CASE /\ Len(stamps) = 2 /\ r.copy.stamp = stamps
           /\ Moves(p, "stamp", [pc |-> r.then, listed |-> {"rows"} \X r.copy.shows])
  <2> DEFINE changed == [pc |-> r.then, listed |-> {"rows"} \X r.copy.shows]
  <2>1. \A x \in DOMAIN Fresh : new[x] = (IF x \in DOMAIN changed THEN changed[x] ELSE r[x])
    BY <1>1, <1>5, SteppedTo
  <2>2. /\ new.pc = r.then /\ new.listed = {"rows"} \X r.copy.shows
        /\ new.then = r.then /\ new.task = r.task
        /\ new.known = r.known /\ new.scanned = r.scanned /\ new.reads = r.reads
        /\ new.copy = r.copy /\ new.stamps = r.stamps
    BY <2>1 DEF Fresh
  <2>3. r.copy.stamp # <<>>
    BY <1>5
  <2>4. r.copy.shows \in shown /\ new.reads = <<>>
    BY <1>1, <2>2, <2>3 DEF Shows
  <2>5. IdsOf(new.listed) \in shown
    BY <2>2, <2>4, RowIds
  <2> QED
    BY <1>1, <2>2, <2>4, <2>5, ListShows
<1>6. CASE Moves(p, "stamp", [pc |-> "copy", stamps |-> stamps, copy |-> NoCopy,
                              reads |-> <<>>, try |-> 1])
  <2> DEFINE changed == [pc |-> "copy", stamps |-> stamps, copy |-> NoCopy,
                         reads |-> <<>>, try |-> 1]
  <2>1. \A x \in DOMAIN Fresh : new[x] = (IF x \in DOMAIN changed THEN changed[x] ELSE r[x])
    BY <1>1, <1>6, SteppedTo
  <2>2. /\ new.pc = "copy" /\ new.stamps = stamps /\ new.then = r.then /\ new.task = r.task
        /\ new.known = r.known /\ new.scanned = r.scanned /\ new.reads = <<>>
        /\ new.copy = NoCopy
    BY <2>1 DEF Fresh
  <2>3. ReadsAgree(<<>>, main, shown)
    <3>1. IsSeq(<<>>) /\ Len(<<>>) = 0
      BY DEF IsSeq
    <3>2. \A i \in Ids : ~(0 >= i)
      BY DEF Ids
    <3> QED
      BY <3>1, <3>2 DEF ReadsAgree
  <2>4. new.copy.stamp = <<>> /\ new.pc \in HermesPcs
    BY <2>2 DEF NoCopy, HermesPcs
  <2> QED
    BY <1>1, <1>3, <2>2, <2>3, <2>4 DEF Shows
<1>7. CASE SnapshotFails(p, "stamp")
  BY <1>7, FailShows
<1> QED
  BY <1>2, <1>4, <1>5, <1>6, <1>7 DEF stamps

\* A copy whose stamps are the same is used.
LEMMA CompareShows ==
  ASSUME WatchRule, NEW p \in Readers, CompareStamps(p),
         NEW main, NEW shown, Shows(reader[p], main, shown),
         NEW new, reader' = [reader EXCEPT ![p] = new]
  PROVE  Shows(new, main, shown)
<1> DEFINE r == reader[p]
           n == Len(r.stamps)
<1>1. /\ reader = [q \in Readers |-> reader[q]] /\ r.then \in Thens
      /\ r.pc = "stamp" /\ IsSeq(r.stamps)
  BY DEF WatchRule, Phase, CompareStamps, At, Shows
<1>2. PICK stamp, kept, round :
        /\ Len(Append(r.stamps, stamp)) = 4
        /\ \/ Moves(p, "stamp", [pc |-> r.then, listed |-> {"rows"} \X r.copy.shows,
                                 copy |-> [r.copy EXCEPT !.stamp = kept]])
           \/ Moves(p, "stamp", [stamps |-> <<>>, round |-> round, copy |-> NoCopy])
           \/ SnapshotFails(p, "stamp")
  BY DEF CompareStamps
<1>3. n >= 2
  <2>1. Len(Append(r.stamps, stamp)) = n + 1 /\ n \in Nat
    BY <1>1, AppendIs DEF IsSeq
  <2> HIDE DEF n
  <2> QED
    BY <1>2, <2>1
<1>4. r.copy.shows \in shown /\ r.reads = <<>>
  BY <1>1, <1>3 DEF Shows
<1>5. CASE Moves(p, "stamp", [pc |-> r.then, listed |-> {"rows"} \X r.copy.shows,
                              copy |-> [r.copy EXCEPT !.stamp = kept]])
  <2> DEFINE changed == [pc |-> r.then, listed |-> {"rows"} \X r.copy.shows,
                         copy |-> [r.copy EXCEPT !.stamp = kept]]
  <2>1. \A x \in DOMAIN Fresh : new[x] = (IF x \in DOMAIN changed THEN changed[x] ELSE r[x])
    BY <1>1, <1>5, SteppedTo
  <2>2. /\ new.pc = r.then /\ new.listed = {"rows"} \X r.copy.shows
        /\ new.then = r.then /\ new.task = r.task
        /\ new.known = r.known /\ new.scanned = r.scanned /\ new.reads = r.reads
        /\ new.copy = [r.copy EXCEPT !.stamp = kept] /\ new.stamps = r.stamps
    BY <2>1 DEF Fresh
  <2>3. new.copy.shows = r.copy.shows
    BY <2>2
  <2>4. IdsOf(new.listed) \in shown
    <3>1. new.listed = {"rows"} \X r.copy.shows
      BY <2>2
    <3>2. IdsOf(new.listed) = r.copy.shows
      BY ONLY <3>1, RowIds
    <3> QED
      BY <1>4, <3>2
  <2> QED
    BY <1>1, <1>4, <2>2, <2>3, <2>4, ListShows
<1>6. CASE Moves(p, "stamp", [stamps |-> <<>>, round |-> round, copy |-> NoCopy])
  <2> DEFINE changed == [stamps |-> <<>>, round |-> round, copy |-> NoCopy]
  <2>1. \A x \in DOMAIN Fresh : new[x] = (IF x \in DOMAIN changed THEN changed[x] ELSE r[x])
    BY <1>1, <1>6, SteppedTo
  <2>2. /\ new.pc = "stamp" /\ new.stamps = <<>> /\ new.then = r.then /\ new.task = r.task
        /\ new.known = r.known /\ new.scanned = r.scanned /\ new.reads = r.reads
        /\ new.copy = NoCopy
    BY <1>1, <2>1 DEF Fresh
  <2>3. IsSeq(<<>>) /\ ~(Len(<<>>) >= 2) /\ NoCopy.stamp = <<>>
    BY DEF IsSeq, NoCopy
  <2> QED
    BY <1>1, <1>4, <2>2, <2>3 DEF Shows
<1>7. CASE SnapshotFails(p, "stamp")
  BY <1>7, FailShows
<1> QED
  BY <1>2, <1>5, <1>6, <1>7

\* One step of a copy.
LEMMA CopyShows ==
  ASSUME WatchRule, DatabaseRule, provider = "hermes", NEW p \in Readers, CopyDatabase(p),
         NEW shown, There \in shown, Shows(reader[p], database.main, shown),
         NEW new, reader' = [reader EXCEPT ![p] = new]
  PROVE  Shows(new, database.main, shown)
<1> DEFINE r == reader[p]
           main == database.main
           n == Len(r.reads)
<1>1. /\ reader = [q \in Readers |-> reader[q]] /\ r.then \in Thens
      /\ r.pc = "copy" /\ ReadsAgree(r.reads, main, shown)
  BY DEF WatchRule, Phase, CopyDatabase, At, Shows
<1>2. IsSeq(r.reads) /\ n \in Nat
  BY <1>1 DEF ReadsAgree, IsSeq
<1>3. PICK read, try :
        LET reads == Append(r.reads, read)
        IN /\ n # 5 => read = Page((n % 3) + 1)
           /\ \/ home /\ Len(reads) < 9 /\ Moves(p, "copy", [reads |-> reads])
              \/ /\ Len(reads) = 9 /\ Unchanged(reads)
                 /\ \/ Moves(p, "copy",
                         [pc |-> "stamp", reads |-> <<>>,
                          copy |-> [stamp |-> <<>>, shows |-> RowsIn(Copied(reads))]])
                    \/ Moves(p, "copy",
                         [pc |-> r.then, reads |-> <<>>,
                          listed |-> {"rows"} \X RowsIn(Copied(reads))])
              \/ Moves(p, "copy", [reads |-> <<>>, try |-> try])
              \/ SnapshotFails(p, "copy")
  BY DEF CopyDatabase
<1> DEFINE reads == Append(r.reads, read)
<1>4. IsSeq(<<>>) /\ ReadsAgree(<<>>, main, shown)
  <2>1. IsSeq(<<>>) /\ Len(<<>>) = 0
    BY DEF IsSeq
  <2>2. \A i \in Ids : ~(0 >= i)
    BY DEF Ids
  <2> QED
    BY <2>1, <2>2 DEF ReadsAgree
<1>5. Len(reads) < 9 => n < 8
  <2>1. Len(reads) = n + 1
    BY <1>2, AppendIs
  <2> HIDE DEF reads, n
  <2> QED
    BY <1>2, <2>1
<1>6. home /\ n < 8 => ReadsAgree(reads, main, shown)
  BY <1>1, <1>3, LooksAgree
<1>7. Len(reads) = 9 /\ Unchanged(reads) => RowsIn(Copied(reads)) \in shown
  BY <1>1, CopyIsTrue
<1> HIDE DEF reads
<1>8. CASE home /\ Len(reads) < 9 /\ Moves(p, "copy", [reads |-> reads])
  <2> DEFINE changed == [reads |-> reads]
  <2>1. \A x \in DOMAIN Fresh : new[x] = (IF x \in DOMAIN changed THEN changed[x] ELSE r[x])
    BY <1>1, <1>8, SteppedTo
  <2>2. /\ new.pc = "copy" /\ new.stamps = r.stamps /\ new.then = r.then
        /\ new.task = r.task /\ new.known = r.known /\ new.scanned = r.scanned
        /\ new.reads = reads /\ new.copy = r.copy
    BY <1>1, <2>1 DEF Fresh
  <2> QED
    BY <1>1, <1>5, <1>6, <1>8, <2>2 DEF Shows
<1>9. CASE /\ Len(reads) = 9 /\ Unchanged(reads)
           /\ Moves(p, "copy", [pc |-> "stamp", reads |-> <<>>,
                                copy |-> [stamp |-> <<>>, shows |-> RowsIn(Copied(reads))]])
  <2> DEFINE copied == RowsIn(Copied(reads))
             changed == [pc |-> "stamp", reads |-> <<>>,
                         copy |-> [stamp |-> <<>>, shows |-> copied]]
  <2>1. \A x \in DOMAIN Fresh : new[x] = (IF x \in DOMAIN changed THEN changed[x] ELSE r[x])
    BY <1>1, <1>9, SteppedTo
  <2>2. /\ new.pc = "stamp" /\ new.stamps = r.stamps /\ new.then = r.then
        /\ new.task = r.task /\ new.known = r.known /\ new.scanned = r.scanned
        /\ new.reads = <<>> /\ new.copy = [stamp |-> <<>>, shows |-> copied]
    BY <2>1 DEF Fresh
  <2>3. new.copy.stamp = <<>> /\ new.copy.shows \in shown /\ new.pc \in HermesPcs
    BY <1>7, <1>9, <2>2 DEF HermesPcs
  <2> QED
    BY <1>1, <2>2, <2>3 DEF Shows
<1>10. CASE /\ Len(reads) = 9 /\ Unchanged(reads)
            /\ Moves(p, "copy", [pc |-> r.then, reads |-> <<>>,
                                 listed |-> {"rows"} \X RowsIn(Copied(reads))])
  <2> DEFINE copied == RowsIn(Copied(reads))
             changed == [pc |-> r.then, reads |-> <<>>, listed |-> {"rows"} \X copied]
  <2>1. \A x \in DOMAIN Fresh : new[x] = (IF x \in DOMAIN changed THEN changed[x] ELSE r[x])
    BY <1>1, <1>10, SteppedTo
  <2>2. /\ new.pc = r.then /\ new.listed = {"rows"} \X copied
        /\ new.then = r.then /\ new.task = r.task
        /\ new.known = r.known /\ new.scanned = r.scanned /\ new.reads = <<>>
        /\ new.copy = r.copy /\ new.stamps = r.stamps
    BY <2>1 DEF Fresh
  <2>3. IdsOf(new.listed) \in shown
    BY <1>7, <1>10, <2>2, RowIds
  <2>4. new.copy.stamp # <<>> => new.copy.shows \in shown
    BY <2>2 DEF Shows
  <2> QED
    BY <1>1, <2>2, <2>3, <2>4, ListShows
<1>11. CASE Moves(p, "copy", [reads |-> <<>>, try |-> try])
  <2> DEFINE changed == [reads |-> <<>>, try |-> try]
  <2>1. \A x \in DOMAIN Fresh : new[x] = (IF x \in DOMAIN changed THEN changed[x] ELSE r[x])
    BY <1>1, <1>11, SteppedTo
  <2>2. /\ new.pc = "copy" /\ new.stamps = r.stamps /\ new.then = r.then
        /\ new.task = r.task /\ new.known = r.known /\ new.scanned = r.scanned
        /\ new.reads = <<>> /\ new.copy = r.copy
    BY <1>1, <2>1 DEF Fresh
  <2> QED
    BY <1>1, <1>4, <2>2 DEF Shows
<1>12. CASE SnapshotFails(p, "copy")
  BY <1>12, FailShows
<1> QED
  BY <1>3, <1>8, <1>9, <1>10, <1>11, <1>12 DEF reads

-----------------------------------------------------------------------------
(* Hermes: the other steps                                                     *)

\* A process that ended has nothing of the database any more.
LEMMA EndShows ==
  ASSUME WatchRule, NEW p \in Readers, NEW pc, NEW answer, Answers(p, pc, answer),
         DOMAIN answer \subseteq {"other", "unread", "outcome"},
         reader[p].then # "path", NEW main, NEW shown,
         NEW new, reader' = [reader EXCEPT ![p] = new]
  PROVE  Shows(new, main, shown)
<1>1. reader = [q \in Readers |-> reader[q]]
  BY DEF WatchRule
<1>2. \E it :
        /\ reader' = [reader EXCEPT ![p] = it]
        /\ it.pc = "done" /\ it.then = reader[p].then
        /\ \A x \in DOMAIN Fresh
             \ {"pc", "task", "then", "target", "watch", "blind", "noted",
                "other", "unread", "outcome"} : it[x] = Fresh[x]
  BY ONLY <1>1, EndedAll, p \in Readers, Answers(p, pc, answer),
          DOMAIN answer \subseteq {"other", "unread", "outcome"}
<1>3. PICK it :
        /\ reader' = [reader EXCEPT ![p] = it]
        /\ it.pc = "done" /\ it.then = reader[p].then
        /\ \A x \in DOMAIN Fresh
             \ {"pc", "task", "then", "target", "watch", "blind", "noted",
                "other", "unread", "outcome"} : it[x] = Fresh[x]
  BY <1>2
<1>4. it = new
  BY <1>1, <1>3
<1>5. /\ new.known = FALSE /\ new.scanned = FALSE /\ new.stamps = <<>> /\ new.copy = NoCopy
  BY <1>3, <1>4 DEF Fresh
<1>6. new.copy.stamp = <<>> /\ IsSeq(<<>>)
  BY <1>5 DEF NoCopy, IsSeq
<1>7. new.pc = "done" /\ new.then # "path" /\ new.pc \in HermesPcs
  BY <1>3, <1>4 DEF HermesPcs
<1> QED
  BY <1>5, <1>6, <1>7 DEF Shows

\* A process that has not begun, or brought the index up to date, neither.
LEMMA FreshShows ==
  ASSUME NEW new, new \in {Fresh, [Fresh EXCEPT !.pc = "done"]}, NEW main, NEW shown
  PROVE  Shows(new, main, shown)
<1>1. /\ new.pc \in {"off", "done"} /\ new.then = "none" /\ ~new.known /\ ~new.scanned
      /\ new.stamps = <<>> /\ new.copy = NoCopy /\ new.reads = <<>>
  BY DEF Fresh
<1>2. NoCopy.stamp = <<>> /\ IsSeq(<<>>)
  BY DEF NoCopy, IsSeq
<1> QED
  BY <1>1, <1>2 DEF Shows, HermesPcs

\* The tasks that Hermes can be given.
LEMMA StartShows ==
  ASSUME WatchRule, provider = "hermes", NEW p \in Readers, Start(p),
         NEW main, NEW shown, Shows(reader[p], main, shown),
         NEW new, reader' = [reader EXCEPT ![p] = new]
  PROVE  Shows(new, main, shown)
<1> DEFINE r == reader[p]
<1>1. reader = [q \in Readers |-> reader[q]]
  BY DEF WatchRule
<1>2. PICK t \in Tasks, target \in Ids, build \in Builds, unix \in BOOLEAN :
        Moves(p, "off", [pc |-> "walk", task |-> t.task, then |-> t.then,
                         target |-> target, build |-> build, unix |-> unix, watch |-> 1])
  BY DEF Start
<1> DEFINE changed == [pc |-> "walk", task |-> t.task, then |-> t.then,
                       target |-> target, build |-> build, unix |-> unix, watch |-> 1]
<1>3. /\ r.pc = "off"
      /\ \A x \in DOMAIN Fresh : new[x] = (IF x \in DOMAIN changed THEN changed[x] ELSE r[x])
  BY <1>1, <1>2, SteppedTo
<1>4. /\ new.pc = "walk" /\ new.stamps = r.stamps /\ new.then = t.then
      /\ new.task = t.task /\ new.known = r.known /\ new.scanned = r.scanned
      /\ new.reads = r.reads /\ new.copy = r.copy
  BY <1>3 DEF Fresh
<1>5. t.then # "path" /\ t.task # "none"
  BY DEF Tasks
<1>6. new.pc \in HermesPcs
  BY <1>4 DEF HermesPcs
<1> QED
  BY <1>3, <1>4, <1>5, <1>6 DEF Shows

\* A session that is the only one goes to its deletion.
LEMMA OnlyShows ==
  ASSUME WatchRule, NEW p \in Readers, NEW main, NEW shown, Shows(reader[p], main, shown),
         \/ Moves(p, "unique", [pc |-> "command"]) /\ reader[p].outcome # "failed"
         \/ Moves(p, "verify", [pc |-> "read"]),
         NEW new, reader' = [reader EXCEPT ![p] = new]
  PROVE  Shows(new, main, shown)
<1> DEFINE r == reader[p]
<1>1. reader = [q \in Readers |-> reader[q]]
  BY DEF WatchRule
<1>2. PICK pc, to :
        /\ Moves(p, pc, [pc |-> to])
        /\ \/ pc = "unique" /\ to = "command" /\ r.outcome # "failed"
           \/ pc = "verify" /\ to = "read"
  OBVIOUS
<1> DEFINE changed == [pc |-> to]
<1>3. /\ r.pc = pc
      /\ \A x \in DOMAIN Fresh : new[x] = (IF x \in DOMAIN changed THEN changed[x] ELSE r[x])
  BY <1>1, <1>2, SteppedTo
<1>4. /\ new.pc = to /\ new.stamps = r.stamps /\ new.then = r.then
      /\ new.task = r.task /\ new.known = r.known /\ new.scanned = r.scanned
      /\ new.reads = r.reads /\ new.copy = r.copy
  BY <1>3 DEF Fresh
<1>5. new.pc = "command" => new.reads = <<>>
  BY <1>2, <1>3, <1>4 DEF Shows
<1>6. new.pc \in HermesPcs
  BY <1>2, <1>4 DEF HermesPcs
<1> QED
  BY <1>2, <1>3, <1>4, <1>5, <1>6 DEF Shows

\* After a deletion the database is looked for from the beginning.
LEMMA VerifiesShows ==
  ASSUME WatchRule, NEW p \in Readers, NEW main, NEW shown, Shows(reader[p], main, shown),
         Verifies(p), NEW new, reader' = [reader EXCEPT ![p] = new]
  PROVE  Shows(new, main, shown)
<1> DEFINE r == reader[p]
           changed == Also([then |-> "verify", watch |-> 2], BeginListing(r, "verify"))
<1>1. reader = [q \in Readers |-> reader[q]]
  BY DEF WatchRule
<1>2. Moves(p, "command", changed)
  BY DEF Verifies
<1>3. /\ r.pc = "command"
      /\ \A x \in DOMAIN Fresh : new[x] = (IF x \in DOMAIN changed THEN changed[x] ELSE r[x])
  BY <1>1, <1>2, SteppedTo
<1>4. ~r.known /\ ~r.scanned
  BY DEF Shows
<1>5. /\ DOMAIN changed = {"then", "watch", "pc", "unit", "found", "listed"}
      /\ changed.then = "verify" /\ changed.pc = "walk"
  BY <1>4 DEF Also, BeginListing
<1> HIDE DEF changed
<1>6. /\ new.pc = "walk" /\ new.stamps = r.stamps /\ new.then = "verify"
      /\ new.task = r.task /\ new.known = r.known /\ new.scanned = r.scanned
      /\ new.reads = r.reads /\ new.copy = r.copy
  BY <1>3, <1>5 DEF Fresh
<1>7. new.pc \in HermesPcs
  BY <1>6 DEF HermesPcs
<1> QED
  BY <1>3, <1>6, <1>7 DEF Shows

\* The steps of the other providers' listings are not taken for Hermes.
LEMMA HermesSteps ==
  ASSUME provider = "hermes", NEW p \in Readers, Process(p), reader[p].pc \in HermesPcs
  PROVE  \/ Start(p) \/ Refresh(p) \/ Resolve(p) \/ Unique(p) \/ Verify(p)
         \/ RunCommand(p) \/ ReadBack(p)
         \/ /\ UNCHANGED stored
            /\ FindDatabase(p) \/ ReadStamp(p) \/ CompareStamps(p) \/ CopyDatabase(p)
<1>1. reader[p].pc \notin {"titles", "load", "parse", "path", "open"}
  BY DEF HermesPcs, Thens
<1>2. /\ ~CodexWalk(p) /\ ~CodexTitles(p) /\ ~CodexLoad(p) /\ ~CodexOpen(p) /\ ~CodexParse(p)
      /\ ~CodexSave(p) /\ ~CodexPath(p)
  BY <1>1 DEF CodexWalk, CodexTitles, CodexLoad, CodexOpen, CodexParse, CodexSave, CodexPath,
              At, Moves
<1>3. ~Walk(p) /\ ~OneProject(p) /\ ~OpenFile(p) /\ ~Opened(p) /\ ~RemoveListed(p)
  BY <1>1 DEF Walk, OneProject, OpenFile, Opened, RemoveListed, Privately, At
<1> QED
  BY <1>2, <1>3 DEF Process, Look

\* Every step of a process keeps what it shows true.
LEMMA HermesShows ==
  ASSUME WatchRule, DatabaseRule, provider = "hermes", NEW p \in Readers, Process(p),
         NEW shown, Shows(reader[p], database.main, shown), UNCHANGED stored => There \in shown,
         NEW new, reader' = [reader EXCEPT ![p] = new]
  PROVE  Shows(new, database.main, shown)
<1> DEFINE main == database.main
<1>1. reader[p].then # "path" /\ reader[p].pc \in HermesPcs
  BY DEF Shows
<1>2. ASSUME NEW pc, NEW outcome, Ends(p, pc, outcome)
      PROVE  Shows(new, main, shown)
  <2>1. DOMAIN [outcome |-> outcome] \subseteq {"other", "unread", "outcome"}
    OBVIOUS
  <2> QED
    BY <1>1, <1>2, <2>1, EndShows DEF Ends
<1>3. CASE Start(p)
  BY <1>3, StartShows
<1>4. CASE Refresh(p)
  <2>1. reader' = [reader EXCEPT ![p] = [Fresh EXCEPT !.pc = "done"]]
    BY <1>4 DEF Refresh
  <2>2. new = [Fresh EXCEPT !.pc = "done"]
    BY <2>1 DEF WatchRule
  <2> QED
    BY <2>2, FreshShows
<1>5. CASE Resolve(p)
  <2>1. PICK other, outcome : Answers(p, "search", [other |-> other, outcome |-> outcome])
    BY <1>5 DEF Resolve
  <2>2. DOMAIN [other |-> other, outcome |-> outcome] \subseteq {"other", "unread", "outcome"}
    OBVIOUS
  <2> QED
    BY <1>1, <2>1, <2>2, EndShows
<1>6. CASE ReadBack(p)
  <2>1. PICK unread, outcome : Answers(p, "read", [unread |-> unread, outcome |-> outcome])
    BY <1>6 DEF ReadBack
  <2>2. DOMAIN [unread |-> unread, outcome |-> outcome]
          \subseteq {"other", "unread", "outcome"}
    OBVIOUS
  <2> QED
    BY <1>1, <2>1, <2>2, EndShows
<1>7. CASE Unique(p) \/ Verify(p)
  <2>1. \/ \E pc, outcome : Ends(p, pc, outcome)
        \/ Moves(p, "unique", [pc |-> "command"]) /\ reader[p].outcome # "failed"
        \/ Moves(p, "verify", [pc |-> "read"])
    BY <1>7 DEF Unique, Verify
  <2> QED
    BY <1>2, <2>1, OnlyShows
<1>8. CASE RunCommand(p)
  BY <1>2, <1>8, VerifiesShows DEF RunCommand
<1>9. CASE UNCHANGED stored /\ FindDatabase(p)
  BY <1>9, FindShows
<1>10. CASE ReadStamp(p) \/ CompareStamps(p)
  BY <1>10, StampShows, CompareShows
<1>11. CASE UNCHANGED stored /\ CopyDatabase(p)
  BY <1>11, CopyShows
<1> QED
  BY <1>1, <1>3, <1>4, <1>5, <1>6, <1>7, <1>8, <1>9, <1>10, <1>11, HermesSteps

\* What one process waits for is from the moments since it began.
LEMMA SteadyInMoments ==
  ASSUME WatchRule, provider = "hermes", ListingNext, NEW p \in Readers,
         reader[p].then # "verify" => \A m \in moments[p] : steady[p] \subseteq m,
         reader'[p].then # "verify"
  PROVE  \A m \in moments'[p] : steady'[p] \subseteq m
<1>1. /\ Watch /\ reader = [q \in Readers |-> reader[q]]
      /\ provider' = "hermes"
  BY DEF ListingNext, WatchRule
<1>2. ThereFor(reader[p].then)' \subseteq There'
  BY <1>1 DEF ThereFor
<1>3. CASE reader'[p].task = "none"
  BY <1>1, <1>3 DEF Watch
<1>4. CASE reader'[p].task # "none"
  <2>1. moments'[p] = moments[p] \cup {There'}
    BY <1>4, MomentsGrow
  <2>2. steady'[p] = IF reader'[p].watch # reader[p].watch THEN ThereFor(reader[p].then)'
                     ELSE (steady[p] \cap ThereFor(reader[p].then)') \ Back
    BY <1>1, <1>4 DEF Watch
  <2>3. CASE reader[p].task = "none"
    <3>1. moments[p] = {}
      BY <2>3 DEF WatchRule
    <3> QED
      BY <1>2, <2>1, <2>2, <3>1
  <2>4. ASSUME reader'[p].watch = reader[p].watch, reader'[p].then = reader[p].then
        PROVE  \A m \in moments'[p] : steady'[p] \subseteq m
    <3>1. steady'[p] \subseteq steady[p] /\ steady'[p] \subseteq There'
      BY <1>2, <2>2, <2>4
    <3>2. \A m \in moments[p] : steady[p] \subseteq m
      BY <2>4
    <3> QED
      BY <2>1, <3>1, <3>2
  <2>5. CASE reader'[p] = reader[p]
    BY <2>4, <2>5
  <2>6. ASSUME Process(p), reader[p].task # "none"
        PROVE  reader'[p].watch = reader[p].watch /\ reader'[p].then = reader[p].then
    <3>1. PICK new : reader' = [reader EXCEPT ![p] = new]
      BY <2>6, PhaseSteps
    <3>2. reader'[p] = new
      BY <1>1, <3>1
    <3>3. ~Start(p)
      BY <2>6 DEF Start, Moves, At, WatchRule, Phase
    <3> QED
      BY <1>4, <2>6, <3>1, <3>2, <3>3, Lasts
  <2>7. reader'[p] = reader[p] \/ Process(p)
    <3>1. CASE Outside
      BY <3>1 DEF Outside
    <3>2. ASSUME NEW q \in Readers, Process(q) PROVE reader'[p] = reader[p] \/ Process(p)
      <4>1. PICK new : reader' = [reader EXCEPT ![q] = new]
        BY <3>2, PhaseSteps
      <4> QED
        BY <1>1, <3>2, <4>1
    <3> QED
      BY <3>1, <3>2 DEF ListingNext
  <2> QED
    BY <2>3, <2>4, <2>5, <2>6, <2>7
<1> QED
  BY <1>3, <1>4

\* What Hermes' snapshots show stays true, whatever happens.
LEMMA HermesKept ==
  ASSUME WatchRule, HermesInv, ListingNext
  PROVE  HermesInv'
<1> SUFFICES ASSUME provider = "hermes"
             PROVE  HermesInv'
  BY DEF HermesInv, ListingNext
<1> DEFINE main == database.main
<1>1. /\ DatabaseRule /\ reader = [q \in Readers |-> reader[q]] /\ provider' = "hermes"
      /\ \A q \in Readers : Shows(reader[q], main, moments[q])
  BY DEF HermesInv, ListingNext, WatchRule
<1>2. DatabaseRule' /\ Newer(main, main')
  BY <1>1, PagesKept
<1>3. Newer(main, main)
  BY <1>1 DEF DatabaseRule, PagesAgree, Newer
<1> HIDE DEF main
<1>4. ASSUME NEW p \in Readers, reader'[p] = reader[p]
      PROVE  Shows(reader'[p], main', moments'[p])
  <2>1. moments[p] \subseteq moments'[p]
    BY <1>4, MomentsGrow
  <2>2. Shows(reader[p], main', moments'[p])
    BY <1>1, <1>2, <2>1, ShowsStays
  <2> QED
    BY <1>4, <2>2
<1>5. ASSUME NEW p \in Readers, Process(p)
      PROVE  Shows(reader'[p], main', moments'[p])
  <2>1. PICK new : reader' = [reader EXCEPT ![p] = new]
    BY <1>5, PhaseSteps
  <2>2. reader'[p] = new
    BY <1>1, <2>1
  <2>3. CASE Refresh(p)
    <3>1. reader' = [reader EXCEPT ![p] = [Fresh EXCEPT !.pc = "done"]]
      BY <2>3 DEF Refresh
    <3>2. reader'[p] = [Fresh EXCEPT !.pc = "done"]
      BY <1>1, <3>1
    <3> QED
      BY <3>2, FreshShows
  <2>4. CASE ~Refresh(p)
    <3>1. reader[p].pc \in HermesPcs
      BY <1>1 DEF Shows
    <3>2. ASSUME ~Start(p) PROVE reader[p].pc \notin {"off", "done"}
      BY <1>5, <3>1, <3>2, HermesSteps
         DEF Refresh, Resolve, Unique, Verify, RunCommand, ReadBack, FindDatabase, ReadStamp,
             CompareStamps, CopyDatabase, At, Moves, Ends, Answers
    <3>3. ASSUME ~Start(p) PROVE new.task # "none"
      <4>1. reader[p].task # "none"
        BY <1>1, <3>2, <3>3 DEF Shows
      <4> QED
        BY <1>5, <2>1, <2>4, <3>3, <4>1, Lasts
    <3>4. ASSUME Start(p) PROVE new.task # "none"
      <4>1. PICK t \in Tasks, target \in Ids, build \in Builds, unix \in BOOLEAN :
              Moves(p, "off", [pc |-> "walk", task |-> t.task, then |-> t.then,
                               target |-> target, build |-> build, unix |-> unix,
                               watch |-> 1])
        BY <3>4 DEF Start
      <4> DEFINE changed == [pc |-> "walk", task |-> t.task, then |-> t.then,
                             target |-> target, build |-> build, unix |-> unix, watch |-> 1]
      <4>2. \A x \in DOMAIN Fresh :
              new[x] = (IF x \in DOMAIN changed THEN changed[x] ELSE reader[p][x])
        BY <1>1, <2>1, <4>1, SteppedTo
      <4>3. new.task = t.task
        BY <4>2 DEF Fresh
      <4> QED
        BY <4>3 DEF Tasks
    <3>5. moments'[p] = moments[p] \cup {There'}
      BY <2>2, <3>3, <3>4, MomentsGrow
    <3>6. UNCHANGED stored => There \in moments'[p]
      <4>1. UNCHANGED stored => There' = There
        BY <1>1 DEF There, Current, stored
      <4> QED
        BY <3>5, <4>1
    <3>7. Shows(reader[p], main, moments'[p])
      BY <1>1, <1>3, <3>5, ShowsStays
    <3>8. Shows(new, main, moments'[p])
      BY <1>1, <1>5, <2>1, <3>6, <3>7, HermesShows DEF main
    <3> QED
      BY <1>2, <2>2, <3>8, ShowsStays
  <2> QED
    BY <2>3, <2>4
<1>6. ASSUME NEW p \in Readers
      PROVE  Shows(reader'[p], main', moments'[p])
  <2>1. CASE Outside
    BY <1>4, <2>1 DEF Outside
  <2>2. ASSUME NEW q \in Readers, Process(q) PROVE Shows(reader'[p], main', moments'[p])
    <3>1. PICK new : reader' = [reader EXCEPT ![q] = new]
      BY <2>2, PhaseSteps
    <3>2. q = p \/ reader'[p] = reader[p]
      BY <1>1, <3>1
    <3> QED
      BY <1>4, <1>5, <2>2, <3>2
  <2> QED
    BY <2>1, <2>2 DEF ListingNext
<1>7. ASSUME NEW p \in Readers, reader'[p].then # "verify"
      PROVE  \A m \in moments'[p] : steady'[p] \subseteq m
  BY <1>1, <1>7, SteadyInMoments DEF HermesInv
<1>8. ASSUME NEW p \in Readers
      PROVE  Shows(reader[p], database.main, moments[p])'
  BY <1>6 DEF main, Shows, ReadsAgree
<1> QED
  BY <1>2, <1>7, <1>8 DEF HermesInv

\* At first nothing was read.
LEMMA HermesBegins ==
  ASSUME ListingInit
  PROVE  HermesInv
<1>1. \A p \in Readers : reader[p] = Fresh /\ moments[p] = {}
  BY DEF ListingInit
<1> QED
  BY <1>1, PagesBegin, FreshShows DEF HermesInv

-----------------------------------------------------------------------------
(* Nothing leaves the index that was there all the time                        *)

\* Only sessions of providers that can delete are deleted.
DeleteRule == \A p \in Readers : reader[p].task = "delete" => provider \in Deletable

\* No other task becomes a deletion.
LEMMA DeleteKept ==
  ASSUME WatchRule, DeleteRule, ListingNext
  PROVE  DeleteRule'
<1>1. provider' = provider /\ reader = [q \in Readers |-> reader[q]]
  BY DEF ListingNext, WatchRule
<1>2. CASE Outside
  BY <1>1, <1>2 DEF Outside, DeleteRule
<1>3. ASSUME NEW p \in Readers, Process(p)
      PROVE  DeleteRule'
  <2>1. PICK new : reader' = [reader EXCEPT ![p] = new]
    BY <1>3, PhaseSteps
  <2>2. CASE Start(p)
    <3>1. PICK t \in Tasks, target \in Ids, build \in Builds, unix \in BOOLEAN :
            Moves(p, "off", [pc |-> "walk", task |-> t.task, then |-> t.then,
                             target |-> target, build |-> build, unix |-> unix,
                             watch |-> 1])
      BY <2>2 DEF Start
    <3> DEFINE changed == [pc |-> "walk", task |-> t.task, then |-> t.then,
                           target |-> target, build |-> build, unix |-> unix, watch |-> 1]
    <3>2. \A x \in DOMAIN Fresh :
            new[x] = (IF x \in DOMAIN changed THEN changed[x] ELSE reader[p][x])
      BY <1>1, <2>1, <3>1, SteppedTo
    <3>3. new.task = t.task
      BY <3>2 DEF Fresh
    <3>4. new.task = "delete" => provider \in Deletable
      <4>1. \/ t.task \in {"refresh", "resolve"}
            \/ t \in {d \in {[task |-> "delete", then |-> "unique"]} : provider \in Deletable}
        BY <3>1 DEF Tasks
      <4> QED
        BY <3>3, <4>1
    <3> QED
      BY <1>1, <2>1, <3>4 DEF DeleteRule
  <2>3. CASE ~Start(p)
    <3>1. new.task \in {"none", reader[p].task}
      BY <1>3, <2>1, <2>3, Lasts
    <3> QED
      BY <1>1, <2>1, <3>1 DEF DeleteRule
  <2> QED
    BY <2>2, <2>3
<1> QED
  BY <1>2, <1>3 DEF ListingNext

\* A session that an exact read does not find is not there to be deleted.
LEMMA UnreadableIs ==
  ASSUME provider \in Deletable, NEW id, ~Readable(id),
         ~(provider = "grok" /\ Stored(<<"directory", id>>))
  PROVE  id \notin ThereFor("verify")
<1>1. CASE ~home
  BY <1>1 DEF ThereFor
<1>2. CASE home /\ provider = "grok"
  BY <1>2 DEF ThereFor, Stored
<1>3. CASE home /\ provider # "grok"
  <2>1. ThereFor("verify") = There
    BY <1>3 DEF ThereFor
  <2>2. CASE provider = "hermes"
    BY <1>3, <2>1, <2>2 DEF There, Readable, RowsIn, RowProviders
  <2>3. CASE provider = "claude" \/ provider \in RowProviders
    <3>1. There = {x \in Ids : native[x].dirs # {}}
      BY <1>3, <2>3 DEF There, RowProviders
    <3>2. native[id].dirs = {}
      BY <1>3, <2>3 DEF Readable, RowProviders
    <3> QED
      BY <2>1, <3>1, <3>2
  <2>4. CASE provider \notin {"hermes", "claude"} \cup RowProviders
    <3>1. provider # "antigravity_ide"
      BY DEF Deletable
    <3>2. There = {x \in Ids : native[x].dirs # {} /\ native[x].header = "user"}
      BY <1>3, <2>4, <3>1 DEF There
    <3>3. ~(native[id].dirs # {} /\ native[id].header = "user")
      BY <1>3, <2>4 DEF Readable
    <3> QED
      BY <2>1, <3>2, <3>3
  <2> QED
    BY <2>2, <2>3, <2>4
<1> QED
  BY <1>1, <1>2, <1>3

\* The invariant on which all of it rests.
ListingInv == CodexInv /\ WatchRule /\ CoverInv /\ HermesInv /\ DeleteRule

\* Nothing of it changes while nothing happens.
LEMMA StutterKeeps ==
  ASSUME ListingInv, UNCHANGED listing
  PROVE  ListingInv'
<1>1. CodexInv'
  BY DEF ListingInv, CodexInv, listing
<1>2. WatchRule'
  <2>1. There' = There
    BY DEF listing, There, Current
  <2>2. \A then : ThereFor(then)' = ThereFor(then)
    BY <2>1 DEF listing, ThereFor
  <2> QED
    BY <2>2 DEF ListingInv, WatchRule, listing
<1>3. CoverInv'
  BY DEF ListingInv, CoverInv, Covers, listing
<1>4. HermesInv'
  BY DEF ListingInv, HermesInv, DatabaseRule, listing
<1>5. DeleteRule'
  BY DEF ListingInv, DeleteRule, listing
<1> QED
  BY <1>1, <1>2, <1>3, <1>4, <1>5 DEF ListingInv

\* A process ends and may take the session out of the index.
Leaves(p, id) ==
  /\ reader[p].pc # "done" /\ reader'[p].pc = "done"
  /\ id \notin steady[p] \/ reader'[p].unread
  /\ reader[p].task = "refresh" => home

\* A listing that omits a session proves that it was missing at some moment.
LEMMA RefreshLeaves ==
  ASSUME ListingInv, NEW p \in Readers, Refresh(p), NEW id \in rows \ rows'
  PROVE  Leaves(p, id)
<1> DEFINE r == reader[p]
<1>1. r.pc = "refresh" /\ r.then = "refresh" /\ reader = [q \in Readers |-> reader[q]]
  BY DEF Refresh, At, ListingInv, WatchRule, Phase
<1>2. r.outcome # "failed" /\ Complete(r) /\ id \notin IdsOf(r.listed)
  BY DEF Refresh
<1>3. reader'[p].pc = "done"
  <2>1. reader' = [reader EXCEPT ![p] = [Fresh EXCEPT !.pc = "done"]]
    BY DEF Refresh
  <2>2. reader'[p] = [Fresh EXCEPT !.pc = "done"]
    BY <1>1, <2>1
  <2> QED
    BY <2>2 DEF Fresh
<1>4. home /\ ~r.noted /\ provider \in {"codex", "hermes"}
  BY <1>2 DEF Complete
<1>5. CASE provider = "codex"
  <2>1. id \in steady[p] => Covers(r, id, native)
    BY <1>1, <1>5 DEF ListingInv, CoverInv
  <2>2. id \notin steady[p]
    BY <1>1, <1>2, <1>4, <2>1 DEF Covers
  <2> QED
    BY <1>1, <1>3, <1>4, <2>2 DEF Leaves
<1>6. CASE provider = "hermes"
  <2>1. IdsOf(r.listed) \in moments[p]
    BY <1>1, <1>2, <1>6 DEF ListingInv, HermesInv, Shows
  <2>2. \A m \in moments[p] : steady[p] \subseteq m
    BY <1>1, <1>6 DEF ListingInv, HermesInv
  <2>3. id \notin steady[p]
    BY <1>2, <2>1, <2>2
  <2> QED
    BY <1>1, <1>3, <1>4, <2>3 DEF Leaves
<1> QED
  BY <1>4, <1>5, <1>6

\* So does a read that finds nothing after a deletion, unless it failed.
LEMMA ReadBackLeaves ==
  ASSUME ListingInv, NEW p \in Readers, ReadBack(p), NEW id \in rows \ rows'
  PROVE  Leaves(p, id)
<1> DEFINE r == reader[p]
<1>1. /\ r.pc = "read" /\ r.then = "verify" /\ r.task = "delete"
      /\ reader = [q \in Readers |-> reader[q]] /\ steady[p] \subseteq ThereFor(r.then)
      /\ provider \in Deletable
  BY DEF ReadBack, At, ListingInv, WatchRule, Phase, DeleteRule
<1>2. PICK works \in BOOLEAN :
        /\ \E outcome : Answers(p, "read", [unread |-> ~works, outcome |-> outcome])
        /\ id = r.target /\ ~(works /\ Readable(id))
        /\ ~(provider = "grok" /\ Stored(<<"directory", id>>))
  <2>1. PICK works \in BOOLEAN :
          LET found == \/ works /\ Readable(r.target)
                       \/ provider = "grok" /\ Stored(<<"directory", r.target>>)
          IN /\ \E outcome : Answers(p, "read", [unread |-> ~works, outcome |-> outcome])
             /\ rows' = IF found THEN rows ELSE rows \ {r.target}
    BY DEF ReadBack
  <2>2. /\ id = r.target /\ ~(works /\ Readable(id))
        /\ ~(provider = "grok" /\ Stored(<<"directory", id>>))
    BY <2>1
  <2> QED
    BY <2>1, <2>2
<1>0. PICK outcome : Answers(p, "read", [unread |-> ~works, outcome |-> outcome])
  BY <1>2
<1> DEFINE answer == [unread |-> ~works, outcome |-> outcome]
<1>3. DOMAIN answer = {"unread", "outcome"} /\ answer.unread = ~works
  OBVIOUS
<1>4. Answers(p, "read", answer)
  BY <1>0
<1> HIDE DEF answer
<1>5. PICK new :
        /\ reader' = [reader EXCEPT ![p] = new]
        /\ new.pc = "done" /\ \A x \in DOMAIN answer : new[x] = answer[x]
  BY <1>1, <1>3, <1>4, EndedAll
<1>6. reader'[p].pc = "done" /\ reader'[p].unread = ~works
  BY <1>1, <1>3, <1>5
<1>7. works => id \notin steady[p]
  BY <1>1, <1>2, UnreadableIs
<1> QED
  BY <1>1, <1>6, <1>7 DEF Leaves

\* No other step takes a session out of the index.
LEMMA OthersStay ==
  ASSUME NEW p \in Readers, Process(p), ~Refresh(p), ~ReadBack(p)
  PROVE  rows' = rows
BY DEF Process, Look, Start, Resolve, Unique, Verify, RemoveListed, RunCommand, CodexWalk,
       CodexTitles, CodexLoad, CodexOpen, CodexParse, CodexSave, CodexPath, Walk, OneProject,
       OpenFile, Opened, FindDatabase, ReadStamp, CompareStamps, CopyDatabase

\* A session leaves omni's index only if it was missing at some moment since the listing
\* that proves it began, or since its deletion, unless reading it failed: whatever Codex
\* moves between its directories while they are walked, whatever Hermes writes and
\* checkpoints while its database is copied, and whatever else the providers and other
\* processes do.  And what a snapshot of Hermes shows was committed at one moment.
THEOREM OnlyTheMissingLeave == ListingSpec => ListingIsTrue
<1>1. ListingInit => ListingInv
  <2> SUFFICES ASSUME ListingInit PROVE ListingInv
    OBVIOUS
  <2>1. DeleteRule
    BY DEF ListingInit, DeleteRule, Fresh
  <2> QED
    BY <2>1, InitiallyFresh, WatchBegins, CoverBegins, HermesBegins DEF ListingInv
<1>2. ListingInv /\ [ListingNext]_listing => ListingInv'
  <2> SUFFICES ASSUME ListingInv, [ListingNext]_listing PROVE ListingInv'
    OBVIOUS
  <2>1. CASE ListingNext
    BY <2>1, CodexKept, WatchKept, CoverKept, HermesKept, DeleteKept DEF ListingInv
  <2>2. CASE UNCHANGED listing
    BY <2>2, StutterKeeps
  <2> QED
    BY <2>1, <2>2
<1> DEFINE Ready == {"refresh", "search", "unique", "verify"}
<1>3. ListingInv /\ [ListingNext]_listing
        => [/\ \A id \in rows \ rows' :
                 \E p \in Readers :
                   /\ reader[p].pc # "done" /\ reader'[p].pc = "done"
                   /\ id \notin steady[p] \/ reader'[p].unread
                   /\ reader[p].task = "refresh" => home
            /\ \A p \in Readers :
                 /\ provider = "hermes" /\ reader[p].pc \in Ready
                 /\ reader[p].outcome # "failed"
                 => Found(p) \in moments[p]]_listing
  <2> SUFFICES ASSUME ListingInv, ListingNext
               PROVE  /\ \A id \in rows \ rows' : \E p \in Readers : Leaves(p, id)
                      /\ \A p \in Readers :
                           provider = "hermes" /\ reader[p].pc \in Ready
                             /\ reader[p].outcome # "failed"
                           => Found(p) \in moments[p]
    BY DEF Leaves
  <2>1. \A p \in Readers :
          provider = "hermes" /\ reader[p].pc \in Ready /\ reader[p].outcome # "failed"
          => Found(p) \in moments[p]
    BY DEF ListingInv, HermesInv, Shows, Found
  <2>2. ASSUME NEW id \in rows \ rows' PROVE \E p \in Readers : Leaves(p, id)
    <3>1. CASE Outside
      BY <2>2, <3>1 DEF Outside
    <3>2. ASSUME NEW p \in Readers, Process(p) PROVE Leaves(p, id)
      BY <2>2, <3>2, RefreshLeaves, ReadBackLeaves, OthersStay
    <3> QED
      BY <3>1, <3>2 DEF ListingNext
  <2> QED
    BY <2>1, <2>2
<1> QED
  BY <1>1, <1>2, <1>3, PTL DEF ListingSpec, ListingIsTrue
==============================================================================
