------------------------------- MODULE MCPicker -------------------------------
(* Picker with two providers, three sessions and two queries, and two agents. *)
EXTENDS Picker

CONSTANTS a, b, c, claude, codex, q, r, f, g, claude1, codex1

Names3 == a :> 1 @@ b :> 2 @@ c :> 3
Providers3 == a :> claude @@ b :> claude @@ c :> codex
ByName == q :> {a} @@ r :> {}
ByTitle == q :> {b} @@ r :> {}
ByText == q :> {b, c} @@ r :> {a}

Targets2 == <<claude1, codex1>>
Agents2 == claude1 :> claude @@ codex1 :> codex
Modes2 == claude :> <<0, 1, 3, 4>> @@ codex :> <<0, 3, 4>>
Scores2 ==
  f :> (claude1 :> 0 @@ codex1 :> 2 @@ Clipboard :> 1)
    @@ g :> (claude1 :> 0 @@ codex1 :> 0 @@ Clipboard :> 0)
Recorded == a :> NoTarget @@ b :> NoTarget @@ c :> codex1

Then == a :> 1 @@ b :> 2 @@ c :> 3
Since == a :> 5 @@ b :> 2 @@ c :> 4

Chain == <<[target |-> b, source |-> a, at |-> 1], [target |-> c, source |-> b, at |-> 2]>>
Loop == <<[target |-> b, source |-> a, at |-> 1], [target |-> a, source |-> b, at |-> 2]>>

Case(opened, presses, keys, running, indexedAtFirst, records, stale, newRow, faults) ==
  [keys |-> keys, presses |-> presses, threads |-> running, opened |-> opened, stored |-> Then,
   native |-> Since, indexed |-> indexedAtFirst, records |-> records, stale |-> stale,
   newRow |-> newRow, faults |-> faults]

Cases ==
  {Case(FALSE, 1, {"move"}, {}, {b, c}, Chain, {claude}, TRUE, FALSE),
   Case(TRUE, 2, {"move", "quit"}, {"previews"}, {}, Loop, {claude}, FALSE, TRUE),
   Case(TRUE, 2, {"type", "move"}, {"search"}, {a, b, c}, Chain, {claude}, TRUE, FALSE),
   Case(TRUE, 2, {"delete", "type"}, {"search"}, {b, c}, <<>>, {claude}, FALSE, FALSE),
   Case(TRUE, 2, {"scope", "provider", "type", "clear"}, {"search"}, {b, c}, <<>>, {codex}, FALSE, TRUE),
   Case(TRUE, 1, {"type"}, {"search", "index"}, {a, b}, <<>>, {}, FALSE, FALSE),
   Case(FALSE, 0, {}, {"index"}, {}, <<>>, {claude, codex}, FALSE, FALSE),
   Case(TRUE, 5, {"enter", "move"}, {}, {}, <<>>, {}, TRUE, FALSE),
   Case(TRUE, 1, {"delete"}, {"index", "search"}, {b, c}, <<>>, {claude}, FALSE, TRUE)}
===============================================================================
