--------------------------- MODULE MCNativeImport ----------------------------
(* NativeImport on small instances: one command of every kind with its retries, *)
(* or two commands that share the lock of one provider root.                    *)
EXTENDS NativeImport

EveryKind == AllKinds
OneLockedKind == {"claude"}
OneHelpedKind == {"hermes"}

One == CHOOSE p \in Procs : TRUE

\* Two commands on one kind are interchangeable, and --materialize-only asks nobody:
\* one of every set of equal initial states is enough.  One of the two is a script's.
Rank(p) ==
  CASE job[p].only -> 0
    [] ~job[p].only /\ ~job[p].asks -> 1
    [] ~job[p].only /\ job[p].asks -> 2

InitTogether ==
  /\ Init
  /\ \A p \in Procs : Kind(p) \in OneLockedKind /\ ~(job[p].only /\ job[p].asks)
  /\ Rank(One) < 2 /\ \A p \in Procs : Rank(One) <= Rank(p)

\* One command alone: every other one was killed before it began.
InitAlone ==
  /\ job \in {j \in [Procs -> Jobs] :
                \A p \in Procs \ {One} : j[p] = [kind |-> CHOOSE k \in OneLockedKind : TRUE,
                                                 cross |-> TRUE, only |-> TRUE, asks |-> FALSE]}
  /\ attempt = [p \in Procs |-> 1]
  /\ pc = [p \in Procs |-> IF p = One THEN "prepare" ELSE "done"]
  /\ goal = [p \in Procs |-> "none"]
  /\ tagged = [p \in Procs |-> FALSE] /\ muted = [p \in Procs |-> FALSE]
  /\ armed = [p \in Procs |-> FALSE] /\ requested = [p \in Procs |-> FALSE]
  /\ outcome = [p \in Procs |-> IF p = One THEN "none" ELSE "killed"]
  /\ stored = [t \in Targets |-> "absent"]
  /\ lineage = {}
  /\ lock = [k \in Locked |-> NoProc]

AloneOrTogether == InitTogether \/ InitAlone

RunSpec == AloneOrTogether /\ [][Next]_vars /\ Fairness
==============================================================================
