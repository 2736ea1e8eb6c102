----------------------------- MODULE LineageGraph -----------------------------
(***************************************************************************)
(* Which sessions continue which: the forest the picker groups its list by *)
(* (LineageGraph of session_picker.rs).  A record of a handoff links its   *)
(* target to its source; records can form cycles, when tasks move a        *)
(* session back and forth.                                                 *)
(***************************************************************************)
EXTENDS Naturals, FiniteSets, SequencesExt

CONSTANTS
  Session,
  Name      \* the order of the sessions' names

ASSUME NameAssumption == IsFiniteSet(Session) /\ Name \in [Session -> Nat]

\* A record: [target, source, at], read in the order of the store.
Record == [target : Session, source : Session, at : Nat]

\* The last record of a target counts.
Latest(records) ==
  {records[i] : i \in {i \in DOMAIN records :
     \A j \in DOMAIN records : j > i => records[j].target # records[i].target}}

Parent(links, s) == {l.source : l \in {l \in links : l.target = s}}

\* Oldest link first, and then by name.
Children(links, s) ==
  LET from == {l \in links : l.source = s}
      Before(k, l) ==
        k.at < l.at \/ (k.at = l.at /\ Name[k.target] < Name[l.target])
      ordered == SetToSortSeq(from, Before)
  IN [i \in DOMAIN ordered |-> ordered[i].target]

Linked(links, s) == \E l \in links : s \in {l.source, l.target}

\* Everything reachable over links in either direction.
Component(links, s) ==
  LET Grow(set) ==
        set \cup {l.source : l \in {l \in links : l.target \in set}}
            \cup {l.target : l \in {l \in links : l.source \in set}}
      grown[n \in 0 .. Cardinality(Session)] ==
        IF n = 0 THEN {s} ELSE Grow(grown[n - 1])
  IN grown[Cardinality(Session)]

\* A mutant of Roots: the tree starts at the session it is asked for.
RootsSelected(links, s) == <<s>>

\* Parents that are in the component make a session no root; in a cycle the selected one is.
Roots(links, s) ==
  LET roots == {r \in Component(links, s) : Parent(links, r) = {}}
      ByName(a, b) == Name[a] < Name[b]
  IN IF roots = {} THEN <<s>> ELSE SetToSortSeq(roots, ByName)

\* Depth first from the roots, each session once: `stack` is what append_tree has yet to enter.
Tree(links, s) ==
  LET Step(walk) ==
        IF walk.stack = <<>> THEN walk
        ELSE LET next == Head(walk.stack)
             IN IF next \in Range(walk.nodes)
                  THEN [walk EXCEPT !.stack = Tail(@)]
                  ELSE [stack |-> Children(links, next) \o Tail(walk.stack),
                        nodes |-> Append(walk.nodes, next)]
      walk[n \in 0 .. 2 * Cardinality(Session) + 1] ==
        IF n = 0 THEN [stack |-> Roots(links, s), nodes |-> <<>>] ELSE Step(walk[n - 1])
  IN IF Linked(links, s) THEN walk[2 * Cardinality(Session) + 1].nodes ELSE <<>>

\* F of a value that is worked out once.
Once(F(_), value) == CHOOSE result \in {F(v) : v \in {value}} : TRUE

\* Every family of candidates stands where its first member stood.
GroupedBy(trees, candidates) ==
  LET Place(placed, s) ==
        LET family == SelectSeq(trees[s],
              LAMBDA t : t \in Range(candidates) \ Range(placed))
        IN IF s \in Range(placed) THEN placed
           ELSE IF s \in Range(family) THEN placed \o family ELSE Append(placed \o family, s)
  IN FoldLeft(Place, <<>>, candidates)

Grouped(links, candidates) ==
  Once(LAMBDA trees : GroupedBy(trees, candidates), [s \in Session |-> Tree(links, s)])
===============================================================================
