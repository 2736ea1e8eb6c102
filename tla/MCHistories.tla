------------------------------ MODULE MCHistories ------------------------------
(* Conversations of every agent, written for every agent that can be a target.  *)
EXTENDS Histories

Sources == {"codex", "claude", "pi", "opencode", "grok", "hermes", "cursor-cli",
            "cursor-ide", "antigravity", "antigravity-desktop", "antigravity-ide"}
Writable == Sources \ {"antigravity-desktop", "antigravity-ide"}

\* Where a call and its result are one entry, three say as much as four elsewhere, and
\* Hermes has nothing but rows; an answer past four is the second of two calls made at once.
Lengths == [a \in Sources |-> IF a \in {"opencode", "cursor-ide", "hermes"} THEN 3 ELSE 4]
\* Previews of two records at each end: enough for what an agent writes at once.
Samples == {[sample |-> 2, tail |-> 2, events |-> 6, fills |-> FALSE],
            [sample |-> 2, tail |-> 3, events |-> 6, fills |-> TRUE]}
\* Room for a part of a conversation, and for all of it.
Rooms == {[history |-> 5, tools |-> 2], [history |-> 9, tools |-> 4]}
================================================================================
