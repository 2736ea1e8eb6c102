-------------------------- MODULE MCProviderStores ---------------------------
(* The two sides of a provider's store, which share no state: what omni writes in it *)
(* (ProviderStores), and what it concludes from looking at it (Listings).            *)
EXTENDS ProviderStores, Listings

\* Which side a behaviour is about; the other one rests.
VARIABLE side

\* Two changes where a mistake takes two: a transaction of two rows, a file that moves and
\* comes back.  Codex is looked at with one, once more by another process.
Bounds ==
  [p \in Providers |-> IF p \in {"hermes", "claude", "grok"} THEN 2 ELSE 1]

Rests(p) == provider = p /\ limit = 1 /\ native = [id \in Ids |-> Nothing]

InitBoth ==
  /\ WritingInit /\ ListingInit
  /\ \/ side = "writes" /\ Rests(CHOOSE p \in Providers : TRUE)
     \/ side = "looks" /\ kind = CHOOSE k \in Kinds : TRUE

NextSide ==
  \/ side = "writes" /\ Next /\ UNCHANGED <<side, listing>>
  \/ side = "looks" /\ ListingNext /\ UNCHANGED <<side, vars, helper>>

RunSpec == InitBoth /\ [][NextSide]_<<side, vars, helper, listing>>
==============================================================================
