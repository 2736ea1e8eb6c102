----------------------------- MODULE PickerState -----------------------------
(***************************************************************************)
(* What the session picker shows and how its methods change it: PickerState*)
(* and PreviewCache of session_picker.rs.  Each method is an operator on   *)
(* the record of the picker; Picker runs them against the worker threads.  *)
(*                                                                         *)
(* A generation is only compared with the one a cache or a request         *)
(* remembers: the list's memo keeps whether any has moved since, and a     *)
(* search generation nobody remembers any more may be used again.          *)
(***************************************************************************)
EXTENDS LineageGraph, TargetPage

CONSTANTS
  ProviderOf,
  Here,         \* the sessions of the current workspace
  Query,        \* what the user may type
  NameMatches,  \* the sessions a query finds by provider metadata,
  TitleMatches, \* by the title derived from their text,
  TextMatches,  \* and by their indexed text
  MaxTime,      \* sessions change at 1 .. MaxTime, no two at the same time
  Generations,  \* enough for every search that is remembered, and one more
  ListRows,     \* rows of the list on the screen
  PreviewCapacity

CONSTANTS Blank, Nobody, AnyProvider

ASSUME PickerAssumption ==
  /\ ProviderOf \in [Session -> Provider] /\ Here \subseteq Session
  /\ Blank \notin Query /\ Nobody \notin Session /\ AnyProvider \notin Provider
  /\ NameMatches \in [Query -> SUBSET Session] /\ TitleMatches \in [Query -> SUBSET Session]
  /\ TextMatches \in [Query -> SUBSET Session]
  /\ ListRows \in Nat \ {0} /\ PreviewCapacity \in Nat

Times == 0 .. MaxTime

\* A preview is of a session at a time, and of what followed its handoff.
PreviewKey == [session : Session, time : Times, after : Nat]

Entry == [session : Session, time : Times, titled : BOOLEAN]

NoDialog == [session |-> Nobody, phase |-> "none"]

NewPicker(all, newRow) ==
  [entries |-> <<>>, query |-> Blank, matches |-> <<>>, generation |-> 0,
   searchDue |-> FALSE, pending |-> FALSE, provider |-> AnyProvider, all |-> all,
   selected |-> 0, touched |-> FALSE, new |-> IF newRow THEN "auto" ELSE "hidden",
   titles |-> {}, deleted |-> {}, links |-> {}, indexDue |-> FALSE,
   window |-> <<>>, previewDue |-> FALSE, previews |-> <<>>, dialog |-> NoDialog,
   refreshing |-> {}, loaded |-> FALSE,
   memo |-> [current |-> TRUE, query |-> Blank, provider |-> AnyProvider, all |-> all,
             rows |-> <<>>]]

-----------------------------------------------------------------------------
(* The list *)

InScope(st, entry) ==
  /\ st.all \/ entry.session \in Here
  /\ st.provider \in {AnyProvider, ProviderOf[entry.session]}

ByMetadata(entry, query) ==
  \/ entry.session \in NameMatches[query]
  \/ entry.titled /\ entry.session \in TitleMatches[query]

SessionsOf(entries) == [i \in DOMAIN entries |-> entries[i].session]

\* Sessions found by metadata come first, and then those found by their text, by rank.
Matching(st) ==
  LET scoped == SelectSeq(st.entries, LAMBDA e : InScope(st, e))
      found == SelectSeq(scoped, LAMBDA e : ByMetadata(e, st.query))
      textOnly == SelectSeq(st.matches,
        LAMBDA s : s \in Range(SessionsOf(scoped)) \ Range(SessionsOf(found)))
  IN IF st.query = Blank THEN SessionsOf(scoped) ELSE SessionsOf(found) \o textOnly

Listed(st) ==
  IF st.query = Blank THEN Grouped(st.links, Matching(st)) ELSE Matching(st)

\* visible_indices: the memo serves while its key is the same.
Visible(st) ==
  IF /\ st.memo.current /\ st.memo.query = st.query
     /\ st.memo.provider = st.provider /\ st.memo.all = st.all
    THEN st.memo.rows ELSE Listed(st)

Looked(st) ==
  [st EXCEPT !.memo = [current |-> TRUE, query |-> st.query, provider |-> st.provider,
                       all |-> st.all, rows |-> Visible(st)]]

\* One of the generations in the memo's key moves.
Moved(st) == [st EXCEPT !.memo.current = FALSE]

NewSelected(st) == st.new \in {"explicit", "auto"}

SelectedSession(st) ==
  Once(LAMBDA rows : IF NewSelected(st) \/ st.selected >= Len(rows) THEN Nobody
                     ELSE rows[st.selected + 1],
       Visible(st))

NewRows(st) == IF st.new = "hidden" THEN 0 ELSE 1

SelectedRow(st) == IF NewSelected(st) THEN 0 ELSE st.selected + NewRows(st)

TimeOf(st, s) ==
  LET rows == {i \in DOMAIN st.entries : st.entries[i].session = s}
  IN IF rows = {} THEN 0 ELSE st.entries[CHOOSE i \in rows : TRUE].time

-----------------------------------------------------------------------------
(* The selection *)

WithNew(st, new) == IF st.new = "hidden" THEN st ELSE [st EXCEPT !.new = new]

NewestRow(st, rows) ==
  LET newest == {i \in DOMAIN rows : \A j \in DOMAIN rows : TimeOf(st, rows[j]) <= TimeOf(st, rows[i])}
  IN IF rows = <<>> THEN WithNew([st EXCEPT !.selected = 0], "auto")
     ELSE WithNew([st EXCEPT !.selected = Min(newest) - 1], "unselected")

SelectNewest(st) == Once(LAMBDA rows : NewestRow(st, rows), Visible(st))

Untouched(st) == ~st.touched /\ st.query = Blank

RestoredIn(rows, st, key) ==
  LET shown == IF st.new = "auto" THEN [st EXCEPT !.new = "unselected"] ELSE st
      same == {i \in DOMAIN rows : rows[i] = key}
      last == IF rows = <<>> THEN 0 ELSE Len(rows) - 1
  IN IF Untouched(st) THEN NewestRow(st, rows)
     ELSE IF st.new = "explicit" THEN st
     ELSE IF rows = <<>> /\ st.new # "hidden"
       THEN [st EXCEPT !.new = "auto", !.selected = 0]
     ELSE IF same # {} THEN [shown EXCEPT !.selected = Min(same) - 1]
     ELSE [shown EXCEPT !.selected = IF @ <= last THEN @ ELSE last]

Restored(st, key) == Once(LAMBDA rows : RestoredIn(rows, st, key), Visible(st))

\* A mutant of RestoreSelection: the selection keeps its row and not its session.
RestoreSelectionByRow(st, key) == Once(LAMBDA v : Restored(v, Nobody), st)

RestoreSelection(st, key) == Once(LAMBDA v : Restored(v, key), st)

ResetSelection(st) ==
  IF Untouched(st) THEN SelectNewest(st)
  ELSE WithNew([st EXCEPT !.selected = 0],
               IF Visible(st) = <<>> THEN "auto" ELSE "unselected")

SelectRow(st, row) ==
  LET touched == [st EXCEPT !.touched = TRUE]
  IN IF st.new # "hidden" /\ row = 0 THEN [touched EXCEPT !.new = "explicit"]
     ELSE WithNew([touched EXCEPT !.selected = row - NewRows(st)], "unselected")

MoveSelection(st, delta) ==
  LET count == Len(Visible(st)) + NewRows(st)
      current == SelectedRow(st)
      row == IF delta < 0
               THEN IF current < -delta THEN 0 ELSE current + delta
               ELSE Min({current + delta, count - 1})
  IN IF count = 0 THEN [st EXCEPT !.selected = 0, !.touched = TRUE]
     ELSE IF row = current /\ st.new = "auto" THEN st
     ELSE SelectRow(st, row)
-----------------------------------------------------------------------------
(* Queries, and what the workers found *)

\* Every entry is filtered and searched anew; `fresh` is a generation nobody remembers.
QueryChanged(st, fresh) ==
  Moved([st EXCEPT !.matches = <<>>, !.pending = FALSE, !.generation = fresh,
                   !.searchDue = st.query # Blank])

\* More text can be found now; the matches on the screen stay until a search replaces them.
TextIndexChanged(st, fresh) ==
  IF st.query = Blank THEN st ELSE [st EXCEPT !.generation = fresh, !.searchDue = TRUE]

\* A mutant of EntriesOf: a listing made before a deletion brings the session back.
EntriesOfAll(st, rows) ==
  {[session |-> r.session, time |-> r.time, titled |-> r.session \in st.titles] : r \in rows}

\* Derived titles are applied again to what a listing replaces.
EntriesOf(st, rows) ==
  {[session |-> r.session, time |-> r.time, titled |-> r.session \in st.titles] :
     r \in {r \in rows : r.session \notin st.deleted}}

NewestFirst(entries) == SetToSortSeq(entries, LAMBDA a, b : a.time > b.time)

WithEntries(st, entries, fresh) ==
  RestoreSelection(
    QueryChanged(Moved([st EXCEPT !.entries = NewestFirst(entries), !.indexDue = TRUE]), fresh),
    SelectedSession(st))

ReplaceProviderEntries(st, provider, rows, fresh) ==
  WithEntries(st,
    {e \in Range(st.entries) : ProviderOf[e.session] # provider} \cup EntriesOf(st, rows),
    fresh)

ReplaceAllEntries(st, rows, fresh) == WithEntries(st, EntriesOf(st, rows), fresh)

ReplaceLineage(st, records) ==
  RestoreSelection(Moved([st EXCEPT !.links = Latest(records)]), SelectedSession(st))

\* A mutant of RememberTitles: the memo of the list is not told.
RememberTitlesQuietly(st, titles) ==
  LET entries == [i \in DOMAIN st.entries |->
        [st.entries[i] EXCEPT !.titled = @ \/ st.entries[i].session \in titles]]
  IN IF titles \subseteq st.titles THEN st
     ELSE RestoreSelection([st EXCEPT !.titles = @ \cup titles, !.entries = entries],
                           SelectedSession(st))

RememberTitles(st, titles) ==
  LET entries == [i \in DOMAIN st.entries |->
        [st.entries[i] EXCEPT !.titled = @ \/ st.entries[i].session \in titles]]
  IN IF titles \subseteq st.titles THEN st
     ELSE RestoreSelection(Moved([st EXCEPT !.titles = @ \cup titles, !.entries = entries]),
                           SelectedSession(st))

ReplaceMatches(st, page) ==
  RestoreSelection(
    Moved([st EXCEPT !.matches = SelectSeq(page, LAMBDA s : s \notin st.deleted)]),
    SelectedSession(st))

\* The row below takes the place of a session that is gone.
RemoveSession(st, s, fresh) ==
  LET Others(seq) == SelectSeq(seq, LAMBDA k : k.session # s)
      without == [st EXCEPT !.deleted = @ \cup {s}, !.entries = Others(@),
                            !.window = Others(@), !.previews = Others(@)]
  IN RestoreSelection(QueryChanged(Moved(without), fresh), Nobody)

-----------------------------------------------------------------------------
(* Previews *)

KeyOf(st, s) ==
  [session |-> s, time |-> TimeOf(st, s),
   after |-> LET to == {l \in st.links : l.target = s}
             IN IF to = {} THEN 0 ELSE (CHOOSE l \in to : TRUE).at]

ShownRows(st) ==
  LET rows == Visible(st)
      count == Len(rows) + NewRows(st)
      above == IF SelectedRow(st) < ListRows \div 2 THEN 0 ELSE SelectedRow(st) - ListRows \div 2
      first == IF count <= ListRows THEN 0 ELSE Min({above, count - ListRows})
  IN SubSeq(rows, Max({1, first + 1 - NewRows(st)}),
                  Min({Len(rows), first + ListRows - NewRows(st)}))

\* The rows on the screen, the selected one first, and then the family of the selected one.
WindowOf(st, shown, selected) ==
  LET others == SelectSeq(shown, LAMBDA s : s # selected)
      Further(s) == s \in Range(SessionsOf(st.entries)) /\ s \notin Range(others) \cup {selected}
  IN IF selected = Nobody THEN shown
     ELSE <<selected>> \o others \o SelectSeq(Tree(st.links, selected), Further)

PreviewWindow(st) ==
  LET Window(shown) ==
        Once(LAMBDA selected : WindowOf(st, shown, selected), SelectedSession(st))
      KeysOf(rows) == [i \in DOMAIN rows |-> KeyOf(st, rows[i])]
  IN Once(KeysOf, Once(Window, ShownRows(st)))

Missing(st) == SelectSeq(st.window, LAMBDA k : k \notin Range(st.previews))

\* Nothing is asked for again while the window stays the same.
RefreshPreviewWindow(st) ==
  LET Refreshed(moved) == [moved EXCEPT !.previewDue = Missing(moved) # <<>>]
      Unless(moved) == IF moved.window = st.window THEN st ELSE Refreshed(moved)
  IN Once(Unless, [st EXCEPT !.window = PreviewWindow(st)])

\* A mutant of InsertPreview: the oldest goes although its row is on the screen.
InsertPreviewOverOldest(st, key) ==
  LET all == Append(SelectSeq(st.previews, LAMBDA k : k # key), key)
  IN [st EXCEPT !.previews = IF Len(all) > PreviewCapacity THEN Tail(all) ELSE all]

\* Over capacity the oldest goes that is not on the screen.
InsertPreview(st, key) ==
  LET all == Append(SelectSeq(st.previews, LAMBDA k : k # key), key)
      Evict(seq, n) ==
        LET free == {i \in DOMAIN seq : seq[i] \notin Range(st.window)}
        IN IF Len(seq) <= PreviewCapacity \/ free = {} THEN seq
           ELSE RemoveAt(seq, Min(free))
  IN [st EXCEPT !.previews = FoldLeft(Evict, all, all)]
=============================================================================
