------------------------------ MODULE TargetPage ------------------------------
(***************************************************************************)
(* The page that asks which agent goes on with a session, and in which     *)
(* permission mode: pick_target_for and its helpers of session_picker.rs,  *)
(* and launch_mode.rs, which finds the mode the installed agent starts in. *)
(* Modes are numbers, more permissive ones greater; 0 leaves it to the     *)
(* agent's own settings.                                                   *)
(***************************************************************************)
EXTENDS Integers, FiniteSets, SequencesExt

CONSTANTS
  Provider,
  Target,       \* agents and launch profiles that can be run,
  Targets,      \* in their order,
  AgentOf,      \* each with the provider it starts
  CanStart, CanResume, CanImport, \* providers with the capability on this platform
  Materialized, \* providers whose fork is an import
  ModesOf,      \* the modes of a provider, from least to most permissive
  Standing,     \* the mode of OMNI_MODE, or 0
  Requested,    \* the mode of --mode, or NoMode
  Filter, Score,\* how well a typed filter matches a target; 0 when it does not
  PageRows      \* rows of the page that fit the terminal

CONSTANTS NoTarget, Clipboard, NewSession, NoFilter

NoMode == -1
AlwaysAsk == 1

ASSUME TargetPageAssumption ==
  /\ Range(Targets) = Target /\ AgentOf \in [Target -> Provider]
  /\ CanStart \cup CanResume \cup CanImport \cup Materialized \subseteq Provider
  /\ ModesOf \in [Provider -> Seq(0 .. 4)] /\ Standing \in 0 .. 4 /\ Requested \in -1 .. 4
  /\ Score \in [Filter -> [Target \cup {Clipboard} -> Nat]] /\ NoFilter \notin Filter
  /\ NoTarget \notin Target /\ Clipboard \notin Target /\ PageRows \in Nat \ {0}

ModeSet(p) == Range(ModesOf[p])

\* default_mode: the standing preference where the agent has it, and no flags otherwise.
DefaultMode(p) ==
  IF ModesOf[p] = <<>> THEN NoMode
  ELSE IF Standing \in ModeSet(p) THEN Standing ELSE Head(ModesOf[p])

\* --mode outranks the standing preference even where the agent lacks the requested mode.
SeededMode(p) ==
  IF Requested = NoMode \/ ModesOf[p] = <<>> THEN DefaultMode(p)
  ELSE IF Requested \in ModeSet(p) THEN Requested ELSE 0

\* Rows of one target for a source provider: continue in it, and fork where it can.
RowsOfTarget(t, source) ==
  LET p == AgentOf[t]
      Row(fork) == [target |-> t, fork |-> fork, mode |-> SeededMode(p)]
      forks == p \notin Materialized \/ p \in CanImport
  IN IF source = NewSession THEN IF p \in CanStart THEN <<Row(FALSE)>> ELSE <<>>
     ELSE IF p # source THEN IF p \in CanImport \cup CanStart THEN <<Row(FALSE)>> ELSE <<>>
     ELSE IF p \notin CanResume THEN <<>>
     ELSE IF forks THEN <<Row(FALSE), Row(TRUE)>> ELSE <<Row(FALSE)>>

TargetChoices(source) == FlattenSeq([i \in DOMAIN Targets |-> RowsOfTarget(Targets[i], source)])

HandoffRow == [target |-> Clipboard, fork |-> FALSE, mode |-> NoMode]

PageRowsFor(source) ==
  TargetChoices(source) \o IF source = NewSession THEN <<>> ELSE <<HandoffRow>>

All(rows) == [i \in DOMAIN rows |-> i]

\* The profile that recorded the session, or else its own provider, or else the first row.
DefaultRow(source, recorded) ==
  LET rows == TargetChoices(source)
      First(Good(_)) == {i \in DOMAIN rows : Good(rows[i])}
      profile == First(LAMBDA r : r.target = recorded /\ ~r.fork)
      own == First(LAMBDA r : r.target # Clipboard /\ AgentOf[r.target] = source /\ ~r.fork)
  IN IF profile # {} THEN Min(profile) ELSE IF own # {} THEN Min(own) ELSE 1

OpenedPage(source, recorded) ==
  LET rows == PageRowsFor(source)
  IN [rows |-> rows, visible |-> All(rows), selected |-> DefaultRow(source, recorded),
      default |-> DefaultRow(source, recorded), filter |-> NoFilter]

\* A mutant of Filtered: the row that was selected stays, on the screen or not.
FilteredKeepsRow(page, filter) ==
  LET score(i) == Score[filter][page.rows[i].target]
      visible == SelectSeq(All(page.rows), LAMBDA i : filter = NoFilter \/ score(i) > 0)
  IN [page EXCEPT !.filter = filter, !.visible = visible]

\* The best match is selected; equal ones leave the selection, or take the first row.
Filtered(page, filter) ==
  LET current == IF page.selected = 0 THEN page.default ELSE page.selected
      score(i) == Score[filter][page.rows[i].target]
      visible == SelectSeq(All(page.rows), LAMBDA i : score(i) > 0)
      best == {i \in Range(visible) : \A j \in Range(visible) : score(j) <= score(i)}
      chosen == IF best = {} THEN 0 ELSE IF current \in best THEN current ELSE Min(best)
  IN IF filter = NoFilter
       THEN [page EXCEPT !.filter = filter, !.visible = All(page.rows), !.selected = current]
       ELSE [page EXCEPT !.filter = filter, !.visible = visible, !.selected = chosen]

\* Wraps at either end of the rows on the page; 0 is no row.
RowMoved(page, forward) ==
  LET count == Len(page.visible)
      at == {i \in DOMAIN page.visible : page.visible[i] = page.selected}
      next == IF at = {} THEN IF forward THEN 1 ELSE count
              ELSE IF forward THEN (Min(at) % count) + 1
              ELSE ((Min(at) + count - 2) % count) + 1
  IN IF count = 0 THEN [page EXCEPT !.selected = 0]
     ELSE [page EXCEPT !.selected = page.visible[next]]

\* Stays at either end: no key wraps from the default to the most permissive mode.
ModeStepped(page, right) ==
  LET row == page.rows[page.selected]
      modes == ModesOf[AgentOf[row.target]]
      at == {i \in DOMAIN modes : modes[i] = row.mode}
      next == IF right THEN Min({Min(at) + 1, Len(modes)}) ELSE Max({Min(at) - 1, 1})
  IN IF page.selected = 0 \/ row.target = Clipboard \/ row.mode = NoMode THEN page
     ELSE [page EXCEPT !.rows[page.selected].mode = modes[next]]

\* target_window: the rows that are drawn, with the selected one among them.
Drawn(page) ==
  LET count == Len(page.visible)
      at == {i \in DOMAIN page.visible : page.visible[i] = page.selected}
      row == IF at = {} THEN 0 ELSE Min(at) - 1
      above == IF row < PageRows \div 2 THEN 0 ELSE row - PageRows \div 2
      start == IF count <= PageRows THEN 0 ELSE Min({above, count - PageRows})
  IN SubSeq(page.visible, start + 1, Min({count, start + PageRows}))

-----------------------------------------------------------------------------
(* The launch *)

\* A mutant of ResolvedMode: the nearest mode the agent lists, in either direction.
ResolvedAny(p, wanted, listed) ==
  LET able == {m \in ModeSet(p) : m = 0 \/ m \in listed}
  IN IF wanted = NoMode THEN NoMode
     ELSE IF wanted \in able THEN wanted ELSE Max(able)

\* The wanted mode, or the next lower one that the installed agent lists.
ResolvedMode(p, wanted, listed) ==
  IF wanted = NoMode THEN NoMode
  ELSE Max({m \in ModeSet(p) : m <= wanted /\ (m = 0 \/ m \in listed)})

\* The agent's default may allow more than asking always: that is refused.
Refused(p, wanted, listed) ==
  wanted = AlwaysAsk /\ ResolvedMode(p, wanted, listed) # AlwaysAsk
===============================================================================
