------------------------- MODULE SearchStore_proofs --------------------------
(***************************************************************************)
(* Proofs about SearchStore, for any number of processes, sessions,        *)
(* bundles, versions and failures: what the commands may do to the cached  *)
(* listing and to the documents, in any order.                             *)
(***************************************************************************)
EXTENDS SearchStore, TLAPS

Source == [at : {"unborn", "there", "gone"}, time : 0 .. MaxTime, readable : BOOLEAN]

Job == [listing : [Native -> 0 .. MaxTime], known : SUBSET Native, complete : BOOLEAN,
        todo : SUBSET Session, failed : SUBSET Session,
        batch : SUBSET [session : Session, time : Time],
        session : Session \cup {NoJob.session}, time : 0 .. MaxTime, whole : BOOLEAN]

Typed ==
  /\ rows \in [Session -> 0 .. MaxTime] /\ docs \in [Session -> Doc \cup {NoDoc}]
  /\ bundles \subseteq Bundles
  /\ source \in [Native -> Source] /\ pc \in [Procs -> Steps] /\ job \in [Procs -> Job]

\* A session that is there was written.
SourceRule == \A s \in Native : There(s) => source[s].time \in Time

\* What a command remembers of its session.
SessionRule(p) ==
  /\ pc[p] \in {"opened", "store"} => job[p].session \in Session /\ job[p].time \in Time
  /\ pc[p] \in {"saved", "rowed"} => job[p].session \in Bundles
  /\ pc[p] = "deleted" => job[p].session \in Native /\ source[job[p].session].at = "gone"

\* What a complete listing omits of the sessions known by then is gone for good.
ListingRule(p) ==
  pc[p] \in {"listed", "write", "unchanged"} /\ job[p].complete =>
    \A s \in job[p].known : job[p].listing[s] = 0 => source[s].at = "gone"

IInv == Typed /\ SourceRule /\ \A p \in Procs : SessionRule(p) /\ ListingRule(p)

-----------------------------------------------------------------------------
(* What the transactions do to the documents                                 *)

\* A document is replaced by no older text.
Newer(old, new) ==
  old # NoDoc /\ new # NoDoc /\ new.version <= old.version
    => /\ new.version = old.version /\ new.time >= old.time
       /\ new.time = old.time /\ old.whole => new.whole

\* A protected one stays protected.
StaysProtected(old, new) == old.protected => new.protected

\* The facts about versions and times that the comparisons rest on.
LEMMA Numbers ==
  /\ MaxTime \in Nat /\ 1 \in Time /\ Versions \subseteq Nat /\ Time \subseteq 0 .. MaxTime
  /\ \A d \in Doc \cup {NoDoc} :
       /\ d = [version |-> d.version, time |-> d.time, whole |-> d.whole,
               protected |-> d.protected]
       /\ d.version \in Nat /\ d.time \in Nat /\ d.whole \in BOOLEAN /\ d.protected \in BOOLEAN
<1>1. /\ MaxTime \in Nat /\ 1 \in Time /\ Versions \subseteq Nat /\ Time \subseteq 0 .. MaxTime
  BY TimesAssumption, VersionsAssumption DEF Time
<1>2. ASSUME NEW d \in Doc
      PROVE  /\ d = [version |-> d.version, time |-> d.time, whole |-> d.whole,
                     protected |-> d.protected]
             /\ d.version \in Nat /\ d.time \in Nat /\ d.whole \in BOOLEAN
             /\ d.protected \in BOOLEAN
  <2>1. /\ d = [version |-> d.version, time |-> d.time, whole |-> d.whole,
                protected |-> d.protected]
        /\ d.version \in Versions \cup {0} /\ d.time \in Time /\ d.whole \in BOOLEAN
        /\ d.protected \in BOOLEAN
    BY DEF Doc
  <2> QED
    BY <1>1, <2>1
<1>3. /\ NoDoc = [version |-> NoDoc.version, time |-> NoDoc.time, whole |-> NoDoc.whole,
                  protected |-> NoDoc.protected]
      /\ NoDoc.version \in Nat /\ NoDoc.time \in Nat /\ NoDoc.whole \in BOOLEAN
      /\ NoDoc.protected \in BOOLEAN
  BY DEF NoDoc
<1> QED
  BY <1>1, <1>2, <1>3

\* An upsert replaces a document only by a newer text, and keeps its protection.
LEMMA Upserted ==
  ASSUME Typed, NEW new, DOMAIN new \subseteq Session, \A s \in DOMAIN new : new[s] \in Doc,
         UpsertDocuments(new)
  PROVE  /\ docs' \in [Session -> Doc \cup {NoDoc}] /\ rows' = rows /\ bundles' = bundles
         /\ \A s \in Session : /\ Newer(docs[s], docs'[s])
                               /\ StaysProtected(docs[s], docs'[s])
<1> DEFINE applied == {s \in DOMAIN new : Applies(new[s], docs[s])}
<1>1. /\ docs' = [s \in Session |->
                    IF s \in applied THEN Stored(s, new[s], docs[s])
                    ELSE IF s \in DOMAIN new \cap Bundles
                      THEN [docs[s] EXCEPT !.protected = TRUE]
                      ELSE docs[s]]
      /\ rows' = rows /\ bundles' = bundles
  BY DEF UpsertDocuments
<1>2. ASSUME NEW s \in Session
      PROVE  /\ docs'[s] \in Doc \cup {NoDoc} /\ Newer(docs[s], docs'[s])
             /\ StaysProtected(docs[s], docs'[s])
  <2> DEFINE old == docs[s]
  <2>0. old \in Doc \cup {NoDoc}
    BY DEF Typed
  <2>1. CASE s \in applied
    <3> DEFINE next == new[s]
    <3>1. next \in Doc /\ Applies(next, old) /\ docs'[s] = Stored(s, next, old)
      BY <1>1, <2>1
    <3>2. docs'[s] = [version |-> next.version, time |-> next.time, whole |-> next.whole,
                      protected |-> old.protected \/ s \in Bundles]
      BY <3>1, Numbers DEF Stored
    <3> HIDE DEF next, old
    <3>3. docs'[s] \in Doc
      BY <3>1, <3>2 DEF Doc
    <3>4. Newer(old, docs'[s])
      BY <2>0, <3>1, <3>2, Numbers DEF Applies, Newer
    <3>5. StaysProtected(old, docs'[s])
      <4>1. CASE old.protected
        <5>1. docs'[s].protected = (old.protected \/ s \in Bundles)
          BY <3>2
        <5>2. (old.protected \/ s \in Bundles) = TRUE
          BY <4>1
        <5> QED
          BY <5>1, <5>2 DEF StaysProtected
      <4> QED
        BY <4>1 DEF StaysProtected
    <3> QED
      BY <3>3, <3>4, <3>5 DEF old
  <2>2. CASE s \notin applied /\ docs'[s] = old
    <3> HIDE DEF old
    <3> QED
      BY <2>0, <2>2, Numbers DEF Newer, StaysProtected, old
  <2>3. CASE s \notin applied /\ s \in DOMAIN new /\ docs'[s] = [old EXCEPT !.protected = TRUE]
    <3>1. old \in Doc
      BY <2>0, <2>3 DEF Applies
    <3>2. docs'[s] = [version |-> old.version, time |-> old.time, whole |-> old.whole,
                      protected |-> TRUE]
      BY <2>3, <3>1, Numbers
    <3> HIDE DEF old
    <3>3. docs'[s] \in Doc
      BY <3>1, <3>2 DEF Doc
    <3> QED
      BY <3>1, <3>2, <3>3, Numbers DEF Newer, StaysProtected, old
  <2> HIDE DEF applied
  <2> QED
    BY <1>1, <2>1, <2>2, <2>3
<1>3. docs' \in [Session -> Doc \cup {NoDoc}]
  BY <1>1, <1>2
<1> QED
  BY <1>1, <1>2, <1>3

\* What a transaction leaves of the documents and the listing.
TablesKept ==
  /\ rows' \in [Session -> 0 .. MaxTime] /\ docs' \in [Session -> Doc \cup {NoDoc}]
  /\ bundles' \subseteq Bundles
  /\ \A s \in Session \ Kept : Newer(docs[s], docs'[s])

NoneUnprotected == \A s \in Session : StaysProtected(docs[s], docs'[s])

\* A transaction that leaves the tables alone.
LEMMA TablesUnchanged ==
  ASSUME Typed, UNCHANGED <<rows, docs, bundles>>
  PROVE  TablesKept /\ NoneUnprotected
<1>1. \A s \in Session : docs[s] \in Doc \cup {NoDoc}
  BY DEF Typed
<1>2. \A s \in Session : Newer(docs[s], docs'[s])
  BY <1>1, Numbers DEF Newer
<1> QED
  BY <1>2 DEF Typed, TablesKept, NoneUnprotected, StaysProtected

\* Removing documents.
LEMMA Removed ==
  ASSUME Typed, NEW sessions, RemoveDocuments(sessions)
  PROVE  /\ docs' \in [Session -> Doc \cup {NoDoc}]
         /\ \A s \in Session : /\ Newer(docs[s], docs'[s])
                               /\ s \notin sessions => StaysProtected(docs[s], docs'[s])
<1>1. docs' = [s \in Session |-> IF s \in sessions THEN NoDoc ELSE docs[s]]
  BY DEF RemoveDocuments
<1>2. \A s \in Session : docs[s] \in Doc \cup {NoDoc}
  BY DEF Typed
<1>3. ASSUME NEW s \in Session PROVE Newer(docs[s], docs'[s])
  <2>1. docs'[s] = NoDoc \/ docs'[s] = docs[s]
    BY <1>1
  <2> QED
    BY <1>2, <2>1, Numbers DEF Newer
<1> QED
  BY <1>1, <1>2, <1>3 DEF StaysProtected

\* A refresh removes only documents that are not protected.
LEMMA Pruned ==
  ASSUME Typed, NEW newRows, Prune(newRows)
  PROVE  /\ docs' \in [Session -> Doc \cup {NoDoc}] /\ NoneUnprotected
         /\ \A s \in Session : Newer(docs[s], docs'[s])
<1> DEFINE stale == {s \in Native : docs[s] # NoDoc /\ ~docs[s].protected /\ newRows[s] = 0}
<1>1. RemoveDocuments(stale)
  BY DEF Prune
<1>2. \A s \in stale : StaysProtected(docs[s], docs'[s])
  BY DEF StaysProtected
<1> HIDE DEF stale
<1> QED
  BY <1>1, <1>2, Removed DEF NoneUnprotected

\* Setting the protection of a document changes nothing else of it.
LEMMA Marked ==
  ASSUME NEW old \in Doc \cup {NoDoc}, NEW mark \in BOOLEAN, old.protected => mark,
         NEW new, new = [old EXCEPT !.protected = mark], old = NoDoc => mark = FALSE
  PROVE  new \in Doc \cup {NoDoc} /\ Newer(old, new) /\ StaysProtected(old, new)
<1>1. new = [version |-> old.version, time |-> old.time, whole |-> old.whole,
             protected |-> mark]
  BY Numbers
<1>2. new.version = old.version /\ new.time = old.time /\ new.whole = old.whole
  BY <1>1
<1>3. new \in Doc \cup {NoDoc}
  <2>1. CASE old \in Doc
    <3>1. /\ old.version \in Versions \cup {0} /\ old.time \in Time /\ old.whole \in BOOLEAN
      BY <2>1 DEF Doc
    <3> QED
      BY <1>1, <3>1 DEF Doc
  <2>2. CASE old = NoDoc
    BY <1>1, <2>2 DEF NoDoc
  <2> QED
    BY <2>1, <2>2
<1>4. Newer(old, new)
  BY <1>2, Numbers DEF Newer
<1>5. new.protected = mark
  BY <1>1
<1> QED
  BY <1>3, <1>4, <1>5 DEF StaysProtected

\* Opening the store brings documents up to date, and protects those of bundles.
LEMMA Opened ==
  ASSUME Typed, OpenStore
  PROVE  TablesKept /\ NoneUnprotected
<1>1. /\ docs' = [s \in Session |->
                    [Covered(s) EXCEPT !.protected =
                       Covered(s).protected \/ (docs[s] # NoDoc /\ OfBundle(s))]]
      /\ rows' = rows /\ bundles' = bundles
  BY DEF OpenStore
<1>2. ASSUME NEW s \in Session
      PROVE  /\ docs'[s] \in Doc \cup {NoDoc} /\ StaysProtected(docs[s], docs'[s])
             /\ s \notin Kept => Newer(docs[s], docs'[s])
  <2> DEFINE old == docs[s]
             covered == Covered(s)
             mark == covered.protected \/ (docs[s] # NoDoc /\ OfBundle(s))
  <2>1. old \in Doc \cup {NoDoc}
    BY DEF Typed
  <2>2. /\ covered \in Doc \cup {NoDoc} /\ covered.protected = old.protected
        /\ s \notin Kept => covered = old
        /\ covered = NoDoc <=> old = NoDoc
    <3>1. CASE s \notin Kept
      BY <2>1, <3>1 DEF Covered
    <3>2. CASE s \in Kept
      <4>1. old \in Doc /\ old # NoDoc
        BY <2>1, <3>2 DEF Kept
      <4>2. covered = [version |-> old.version, time |-> old.time, whole |-> FALSE,
                       protected |-> old.protected]
        <5>1. covered = [old EXCEPT !.whole = FALSE]
          BY <3>2 DEF Covered
        <5>2. old = [version |-> old.version, time |-> old.time, whole |-> old.whole,
                     protected |-> old.protected]
          BY <4>1, Numbers
        <5> HIDE DEF covered, old
        <5> QED
          BY <5>1, <5>2
      <4>3. covered \in Doc
        BY <4>1, <4>2 DEF Doc
      <4>4. NoDoc \notin Doc
        BY DEF NoDoc, Doc, Time
      <4> HIDE DEF covered, old
      <4> QED
        BY <3>2, <4>1, <4>2, <4>3, <4>4
    <3> QED
      BY <3>1, <3>2
  <2>3. docs'[s] = [covered EXCEPT !.protected = mark]
    BY <1>1
  <2>4. mark \in BOOLEAN /\ (covered.protected => mark)
    OBVIOUS
  <2>5. covered = NoDoc => mark = FALSE
    BY <2>2 DEF NoDoc
  <2> HIDE DEF mark, covered
  <2>6. /\ docs'[s] \in Doc \cup {NoDoc} /\ Newer(covered, docs'[s])
        /\ StaysProtected(covered, docs'[s])
    BY <2>2, <2>3, <2>4, <2>5, Marked
  <2> QED
    BY <2>2, <2>6 DEF StaysProtected
<1> QED
  BY <1>1, <1>2 DEF TablesKept, NoneUnprotected, Typed

\* A bundle protects the document of its source, if there is one.
LEMMA Saved ==
  ASSUME Typed, NEW b \in Bundles, SaveBundle(b)
  PROVE  TablesKept /\ NoneUnprotected
<1> DEFINE sessions == {SourceOf[b]}
<1>1. /\ docs' = [s \in Session |->
                    IF s \in sessions /\ docs[s] # NoDoc
                      THEN [docs[s] EXCEPT !.protected = TRUE] ELSE docs[s]]
      /\ rows' = rows /\ bundles' = bundles \cup {b}
  BY DEF SaveBundle, Protect
<1> HIDE DEF sessions
<1>2. ASSUME NEW s \in Session
      PROVE  /\ docs'[s] \in Doc \cup {NoDoc} /\ StaysProtected(docs[s], docs'[s])
             /\ Newer(docs[s], docs'[s])
  <2>1. docs[s] \in Doc \cup {NoDoc}
    BY DEF Typed
  <2>2. CASE docs[s] # NoDoc /\ docs'[s] = [docs[s] EXCEPT !.protected = TRUE]
    BY <2>1, <2>2, Marked
  <2>3. CASE docs'[s] = docs[s]
    BY <2>1, <2>3, Numbers DEF StaysProtected, Newer
  <2> QED
    BY <1>1, <2>2, <2>3
<1> QED
  BY <1>1, <1>2 DEF TablesKept, NoneUnprotected, Typed

\* Every transaction but the one that forgets a session, with what the commands hand it.
LEMMA TransactionKeeps ==
  ASSUME Typed,
         \/ UNCHANGED tables \/ OpenStore \/ RecordUnchanged
         \/ \E listing \in [Native -> 0 .. MaxTime] :
              ReplaceIndexed(listing) \/ MergeIndexed(listing)
         \/ \E s \in Session : UpsertIndexed(s, BundleTime)
         \/ \E b \in Bundles : SaveBundle(b)
         \/ \E new : /\ DOMAIN new \subseteq Session /\ \A s \in DOMAIN new : new[s] \in Doc
                     /\ UpsertDocuments(new)
  PROVE  TablesKept /\ NoneUnprotected
<1>1. CASE UNCHANGED tables
  BY <1>1, TablesUnchanged DEF tables
<1>2. CASE OpenStore
  BY <1>2, Opened
<1>3. CASE RecordUnchanged
  BY <1>3, Pruned DEF RecordUnchanged, TablesKept, Typed
<1>4. ASSUME NEW listing \in [Native -> 0 .. MaxTime], ReplaceIndexed(listing)
      PROVE  TablesKept /\ NoneUnprotected
  <2>1. PICK new : new = [s \in Session |-> IF s \in Native THEN listing[s] ELSE rows[s]]
    OBVIOUS
  <2>2. rows' = new /\ Prune(new) /\ bundles' = bundles
    BY <1>4, <2>1 DEF ReplaceIndexed
  <2>3. new \in [Session -> 0 .. MaxTime]
    BY <1>4, <2>1 DEF Typed
  <2> QED
    BY <2>2, <2>3, Pruned DEF TablesKept, Typed
<1>5. ASSUME NEW listing \in [Native -> 0 .. MaxTime], MergeIndexed(listing)
      PROVE  TablesKept /\ NoneUnprotected
  <2>1. rows' \in [Session -> 0 .. MaxTime] /\ docs' = docs /\ bundles' = bundles
    BY <1>5 DEF MergeIndexed, Typed
  <2>2. \A s \in Session : docs[s] \in Doc \cup {NoDoc}
    BY DEF Typed
  <2>3. \A s \in Session : Newer(docs[s], docs'[s])
    BY <2>1, <2>2, Numbers DEF Newer
  <2> QED
    BY <2>1, <2>3 DEF Typed, TablesKept, NoneUnprotected, StaysProtected
<1>6. ASSUME NEW s \in Session, UpsertIndexed(s, BundleTime) PROVE TablesKept /\ NoneUnprotected
  <2>1. rows' \in [Session -> 0 .. MaxTime] /\ docs' = docs /\ bundles' = bundles
    BY <1>6, ProcsAssumption, Numbers DEF UpsertIndexed, Typed
  <2>2. \A u \in Session : docs[u] \in Doc \cup {NoDoc}
    BY DEF Typed
  <2>3. \A u \in Session : Newer(docs[u], docs'[u])
    BY <2>1, <2>2, Numbers DEF Newer
  <2> QED
    BY <2>1, <2>3 DEF Typed, TablesKept, NoneUnprotected, StaysProtected
<1>7. ASSUME NEW new, DOMAIN new \subseteq Session, \A s \in DOMAIN new : new[s] \in Doc,
             UpsertDocuments(new)
      PROVE  TablesKept /\ NoneUnprotected
  BY <1>7, Upserted DEF TablesKept, NoneUnprotected, Typed
<1> QED
  BY <1>1, <1>2, <1>3, <1>4, <1>5, <1>6, <1>7, Saved

\* Forgetting a session removes its row and its document, and no other.
LEMMA Forgotten ==
  ASSUME Typed, NEW s \in Session, ForgetSession(s)
  PROVE  /\ TablesKept /\ rows' = [rows EXCEPT ![s] = 0]
         /\ \A u \in Session \ {s} : StaysProtected(docs[u], docs'[u])
<1>1. RemoveDocuments({s}) /\ rows' = [rows EXCEPT ![s] = 0] /\ bundles' = bundles
  BY DEF ForgetSession
<1>2. rows' \in [Session -> 0 .. MaxTime]
  BY <1>1, Numbers DEF Typed
<1> QED
  BY <1>1, <1>2, Removed DEF TablesKept, Typed

-----------------------------------------------------------------------------
(* What the steps do to the commands                                         *)

\* The records a command keeps.
LEMMA Jobs ==
  /\ NoJob \in Job
  /\ \A j \in Job :
       /\ j.listing \in [Native -> 0 .. MaxTime] /\ j.known \subseteq Native
       /\ j.todo \subseteq Session /\ j.failed \subseteq Session
       /\ j.batch \subseteq [session : Session, time : Time]
<1>1. NoJob \in Job
  BY Numbers DEF NoJob, Job
<1> QED
  BY <1>1 DEF Job

\* What a step of p leaves to the other commands: a session that is gone stays gone.
Alone(p) ==
  /\ \A q \in Procs \ {p} : pc'[q] = pc[q] /\ job'[q] = job[q]
  /\ \A s \in Native : source[s].at = "gone" => source'[s].at = "gone"

\* The rules of the command itself are enough.
LEMMA OthersKept ==
  ASSUME IInv, NEW p \in Procs, Alone(p), Typed', SourceRule', SessionRule(p)',
         ListingRule(p)'
  PROVE  IInv'
<1>1. ASSUME NEW q \in Procs, q # p PROVE SessionRule(q)' /\ ListingRule(q)'
  <2>1. pc'[q] = pc[q] /\ job'[q] = job[q]
    BY <1>1 DEF Alone
  <2>2. job[q] \in Job
    BY DEF IInv, Typed
  <2>3. SessionRule(q)'
    BY <2>1 DEF IInv, SessionRule, Alone
  <2>4. ListingRule(q)'
    BY <2>1, <2>2, Jobs DEF IInv, ListingRule, Alone
  <2> QED
    BY <2>3, <2>4
<1> QED
  BY <1>1 DEF IInv

\* A function after an assignment at one argument.
LEMMA Assigned ==
  ASSUME NEW S, NEW T, NEW f \in [S -> T], NEW a \in S, NEW v \in T,
         NEW g, g = [f EXCEPT ![a] = v]
  PROVE  g \in [S -> T] /\ g[a] = v /\ \A x \in S \ {a} : g[x] = f[x]
OBVIOUS

\* A step of p to `there` with the memory j, while the providers rest.
LEMMA CommandStep ==
  ASSUME IInv, NEW p \in Procs, NEW there \in Steps, NEW j \in Job,
         pc' = [pc EXCEPT ![p] = there], job' = [job EXCEPT ![p] = j],
         UNCHANGED source, TablesKept,
         there \in {"opened", "store"} => j.session \in Session /\ j.time \in Time,
         there \in {"saved", "rowed"} => j.session \in Bundles,
         there = "deleted" => j.session \in Native /\ source[j.session].at = "gone",
         there \in {"listed", "write", "unchanged"} /\ j.complete =>
           \A s \in j.known : j.listing[s] = 0 => source[s].at = "gone"
  PROVE  IInv'
<1>1. Typed
  BY DEF IInv
<1>2. /\ pc' \in [Procs -> Steps] /\ pc'[p] = there
      /\ \A q \in Procs \ {p} : pc'[q] = pc[q]
  BY <1>1, Assigned DEF Typed
<1>3. job' \in [Procs -> Job] /\ job'[p] = j /\ \A q \in Procs \ {p} : job'[q] = job[q]
  BY <1>1, Assigned DEF Typed
<1>4. Typed'
  BY <1>1, <1>2, <1>3 DEF Typed, TablesKept
<1>5. Alone(p) /\ SourceRule'
  BY <1>2, <1>3 DEF Alone, IInv, SourceRule, There
<1>6. SessionRule(p)' /\ ListingRule(p)'
  BY <1>2, <1>3 DEF SessionRule, ListingRule
<1> QED
  BY <1>4, <1>5, <1>6, OthersKept

\* What a flush writes are documents of its batch.
LEMMA WrittenDocuments ==
  ASSUME NEW p \in Procs, NEW part, part \subseteq [session : Session, time : Time]
  PROVE  /\ DOMAIN Written(p, part) \subseteq Session
         /\ \A s \in DOMAIN Written(p, part) : Written(p, part)[s] \in Doc
<1>1. VersionOf[p] \in Versions
  BY ProcsAssumption
<1>2. ASSUME NEW s \in {w.session : w \in part}
      PROVE  NewDoc(p, (CHOOSE w \in part : w.session = s).time, TRUE) \in Doc
  <2>1. (CHOOSE w \in part : w.session = s) \in part
    BY <1>2
  <2>2. (CHOOSE w \in part : w.session = s).time \in Time
    BY <2>1
  <2> QED
    BY <1>1, <2>2 DEF NewDoc, Doc
<1>3. {w.session : w \in part} \subseteq Session
  OBVIOUS
<1> QED
  BY <1>2, <1>3 DEF Written

\* What a command writes of one session is a document too.
LEMMA OneDocument ==
  ASSUME NEW p \in Procs, NEW s \in Session, NEW time \in Time, NEW whole \in BOOLEAN,
         NEW new, new = [u \in {s} |-> NewDoc(p, time, whole)]
  PROVE  DOMAIN new \subseteq Session /\ \A u \in DOMAIN new : new[u] \in Doc
<1>1. VersionOf[p] \in Versions
  BY ProcsAssumption
<1>2. NewDoc(p, time, whole) \in Doc
  BY <1>1 DEF NewDoc, Doc
<1> QED
  BY <1>2

\* No step of a command loses a newer text, and only the one that forgets a session takes
\* the protection of its document away.
LEMMA CommandTables ==
  ASSUME IInv, NEW p \in Procs, Continue(p) \/ Start(p) \/ StopPass(p) \/ Crash(p)
  PROVE  TablesKept /\ (NoneUnprotected \/ Forget(p))
<1>0. Typed /\ job[p] \in Job /\ SessionRule(p)
  BY DEF IInv, Typed
<1>1. CASE UNCHANGED tables \/ OpenStore \/ RecordUnchanged
  BY <1>0, <1>1, TransactionKeeps
<1>2. CASE WriteListing(p)
  <2>1. job[p].listing \in [Native -> 0 .. MaxTime]
    BY <1>0, Jobs
  <2> QED
    BY <1>0, <1>2, <2>1, TransactionKeeps DEF WriteListing
<1>3. CASE FlushBatch(p)
  <2>1. job[p].batch \subseteq [session : Session, time : Time]
    BY <1>0, Jobs
  <2>2. UpsertDocuments(Written(p, job[p].batch))
    BY <1>3 DEF FlushBatch
  <2> QED
    BY <1>0, <2>1, <2>2, WrittenDocuments, TransactionKeeps
<1>4. CASE FlushOne(p)
  <2>1. PICK w \in job[p].batch : UpsertDocuments(Written(p, {w})) \/ UNCHANGED tables
    BY <1>4 DEF FlushOne
  <2>2. {w} \subseteq [session : Session, time : Time]
    BY <1>0, Jobs
  <2> QED
    BY <1>0, <2>1, <2>2, WrittenDocuments, TransactionKeeps
<1>5. CASE StoreDocument(p)
  <2>1. pc[p] = "store"
    BY <1>5 DEF StoreDocument, Ends, Goto
  <2>2. job[p].session \in Session /\ job[p].time \in Time
    BY <1>0, <2>1 DEF SessionRule
  <2>3. job[p].whole \in BOOLEAN
    BY <1>0 DEF Job
  <2>4. \/ UpsertDocuments([s \in {job[p].session} |-> NewDoc(p, job[p].time, job[p].whole)])
        \/ UNCHANGED tables
    BY <1>5 DEF StoreDocument
  <2>5. PICK new : new = [s \in {job[p].session} |-> NewDoc(p, job[p].time, job[p].whole)]
    OBVIOUS
  <2>6. DOMAIN new \subseteq Session /\ \A u \in DOMAIN new : new[u] \in Doc
    BY <2>2, <2>3, <2>5, OneDocument
  <2> QED
    BY <1>0, <2>4, <2>5, <2>6, TransactionKeeps
<1>6. CASE IndexBundleText(p)
  <2>1. pc[p] = "rowed"
    BY <1>6 DEF IndexBundleText, Ends, Goto
  <2>2. job[p].session \in Session
    BY <1>0, <2>1 DEF SessionRule, Session
  <2>3. UpsertDocuments([s \in {job[p].session} |-> NewDoc(p, BundleTime, TRUE)])
    BY <1>6 DEF IndexBundleText
  <2>4. PICK new : new = [s \in {job[p].session} |-> NewDoc(p, BundleTime, TRUE)]
    OBVIOUS
  <2>5. DOMAIN new \subseteq Session /\ \A u \in DOMAIN new : new[u] \in Doc
    BY <2>2, <2>4, OneDocument, ProcsAssumption
  <2> QED
    BY <1>0, <2>3, <2>4, <2>5, TransactionKeeps
<1>7. CASE IndexBundleRow(p)
  <2>1. pc[p] = "saved"
    BY <1>7 DEF IndexBundleRow, Goto
  <2>2. job[p].session \in Session
    BY <1>0, <2>1 DEF SessionRule, Session
  <2> QED
    BY <1>0, <1>7, <2>2, TransactionKeeps DEF IndexBundleRow
<1>8. ASSUME NEW b \in Bundles, SaveNewBundle(p, b) PROVE TablesKept /\ NoneUnprotected
  BY <1>0, <1>8, TransactionKeeps DEF SaveNewBundle
<1>9. CASE Forget(p)
  <2>1. pc[p] = "deleted"
    BY <1>9 DEF Forget, Ends, Goto
  <2>2. job[p].session \in Session
    BY <1>0, <2>1 DEF SessionRule, Session
  <2> QED
    BY <1>0, <1>9, <2>2, Forgotten DEF Forget
<1>10. CASE StopPass(p) \/ Crash(p)
  BY <1>1, <1>10 DEF StopPass, Crash
<1>11. CASE Start(p)
  <2>1. ASSUME NEW complete \in BOOLEAN, NEW shown \in SUBSET Native,
               Discover(p, complete, shown)
        PROVE  OpenStore
    BY <2>1 DEF Discover
  <2>2. ASSUME NEW s \in Session, NEW preview \in BOOLEAN, ReadSession(p, s, preview)
        PROVE  OpenStore
    BY <2>2 DEF ReadSession
  <2>3. ASSUME NEW b \in Bundles, Migrate(p, b) PROVE OpenStore
    BY <2>3 DEF Migrate
  <2>4. ASSUME NEW s \in Native, DeleteSource(p, s) PROVE OpenStore
    BY <2>4 DEF DeleteSource
  <2> QED
    BY <1>1, <1>8, <1>11, <2>1, <2>2, <2>3, <2>4 DEF Start
<1>12. CASE Continue(p)
  <2>1. CASE Compare(p) \/ WriteListingFails(p) \/ Pending(p) \/ FlushFails(p) \/ PassEnds(p)
             \/ CheckCurrent(p)
    <3>1. UNCHANGED tables
      BY <2>1 DEF Compare, WriteListingFails, Pending, FlushFails, PassEnds, CheckCurrent
    <3> QED
      BY <1>1, <3>1
  <2>2. ASSUME NEW s \in Session, Prepare(p, s) PROVE UNCHANGED tables
    BY <2>2 DEF Prepare
  <2>3. ASSUME NEW s \in Session, NEW retryable \in BOOLEAN, PrepareFails(p, s, retryable)
        PROVE  UNCHANGED tables
    BY <2>3 DEF PrepareFails
  <2>4. CASE WriteUnchanged(p)
    BY <1>1, <2>4 DEF WriteUnchanged
  <2> QED
    BY <1>1, <1>2, <1>3, <1>4, <1>5, <1>6, <1>7, <1>9, <1>12, <2>1, <2>2, <2>3, <2>4
    DEF Continue
<1> QED
  BY <1>10, <1>11, <1>12

\* A command that ends, or goes on with nothing of its session or listing to rely on.
LEMMA PlainStep ==
  ASSUME IInv, NEW p \in Procs, NEW there \in {"idle", "pending", "index", "singles"},
         NEW j \in Job, pc' = [pc EXCEPT ![p] = there], job' = [job EXCEPT ![p] = j],
         UNCHANGED source, TablesKept
  PROVE  IInv'
BY CommandStep DEF Steps

\* What a pass changes of a command's memory.
LEMMA JobChanges ==
  ASSUME NEW j \in Job, NEW todo, todo \subseteq Session, NEW failed, failed \subseteq Session,
         NEW batch, batch \subseteq [session : Session, time : Time]
  PROVE  /\ [j EXCEPT !.todo = todo] \in Job /\ [j EXCEPT !.batch = batch] \in Job
         /\ [j EXCEPT !.todo = todo, !.failed = failed] \in Job
         /\ [j EXCEPT !.todo = todo, !.batch = batch] \in Job
BY DEF Job

\* An indexing pass keeps the invariant.
LEMMA PassStep ==
  ASSUME IInv, NEW p \in Procs, TablesKept,
         \/ Pending(p) \/ FlushBatch(p) \/ FlushFails(p) \/ FlushOne(p) \/ PassEnds(p)
         \/ StopPass(p)
         \/ \E s \in Session :
              Prepare(p, s) \/ \E retryable \in BOOLEAN : PrepareFails(p, s, retryable)
  PROVE  IInv'
<1>0. /\ pc \in [Procs -> Steps] /\ job \in [Procs -> Job] /\ job[p] \in Job
      /\ source \in [Native -> Source] /\ SourceRule
  BY DEF IInv, Typed
<1> DEFINE j == job[p]
<1>1. /\ pc = [pc EXCEPT ![p] = pc[p]] /\ job = [job EXCEPT ![p] = j] /\ j \in Job
      /\ j.todo \subseteq Session /\ j.failed \subseteq Session
      /\ j.batch \subseteq [session : Session, time : Time]
  BY <1>0, Jobs
<1>2. CASE Pending(p)
  <2>1. PICK retry \in BOOLEAN :
          job' = [job EXCEPT ![p] =
                    [j EXCEPT !.todo = {s \in Candidates(p) :
                                 NeedsIndex(p, s) /\ (retry \/ ~FailureIsCurrent(p, s))},
                              !.failed = RecordedFailures]]
    BY <1>2 DEF Pending
  <2> DEFINE todo == {s \in Candidates(p) :
                        NeedsIndex(p, s) /\ (retry \/ ~FailureIsCurrent(p, s))}
  <2>2. pc' = [pc EXCEPT ![p] = "index"] /\ source' = source
    BY <1>2 DEF Pending, Goto, Outside
  <2>3. todo \subseteq Session /\ RecordedFailures \subseteq Session
    BY DEF Candidates, RecordedFailures, Session
  <2> HIDE DEF todo
  <2>4. [j EXCEPT !.todo = todo, !.failed = RecordedFailures] \in Job
    BY <1>1, <2>3, JobChanges
  <2> QED
    BY <2>1, <2>2, <2>4, PlainStep DEF todo
<1>3. ASSUME NEW s \in Session, Prepare(p, s) PROVE IInv'
  <2>1. /\ pc[p] = "index" /\ s \in j.todo /\ Readable(s) /\ pc' = pc /\ source' = source
        /\ job' = [job EXCEPT ![p] =
                     [j EXCEPT !.todo = j.todo \ {s},
                               !.batch = j.batch \cup {[session |-> s, time |-> SourceTime(s)]}]]
    BY <1>3 DEF Prepare, Outside
  <2>2. SourceTime(s) \in Time
    BY <1>0, <2>1, ProcsAssumption DEF SourceTime, Readable, SourceRule, Session
  <2>3. PICK batch : batch = j.batch \cup {[session |-> s, time |-> SourceTime(s)]}
    OBVIOUS
  <2>4. batch \subseteq [session : Session, time : Time] /\ j.todo \ {s} \subseteq Session
    BY <1>1, <2>2, <2>3
  <2>5. [j EXCEPT !.todo = j.todo \ {s}, !.batch = batch] \in Job
    BY <1>1, <2>4, JobChanges
  <2>6. pc' = [pc EXCEPT ![p] = "index"]
    BY <1>1, <2>1
  <2> HIDE DEF j
  <2> QED
    BY <2>1, <2>3, <2>5, <2>6, PlainStep
<1>4. ASSUME NEW s \in Session, NEW retryable \in BOOLEAN, PrepareFails(p, s, retryable)
      PROVE  IInv'
  <2>1. /\ pc[p] = "index" /\ pc' = pc /\ source' = source
        /\ job' = [job EXCEPT ![p] = [j EXCEPT !.todo = j.todo \ {s}]]
    BY <1>4 DEF PrepareFails, Outside
  <2>2. [j EXCEPT !.todo = j.todo \ {s}] \in Job
    BY <1>1, JobChanges
  <2>3. pc' = [pc EXCEPT ![p] = "index"]
    BY <1>1, <2>1
  <2> HIDE DEF j
  <2> QED
    BY <2>1, <2>2, <2>3, PlainStep
<1>5. CASE StopPass(p)
  <2>1. /\ pc[p] = "index" /\ pc' = pc /\ source' = source
        /\ job' = [job EXCEPT ![p] = [j EXCEPT !.todo = {}]]
    BY <1>5 DEF StopPass, Outside
  <2>2. [j EXCEPT !.todo = {}] \in Job
    BY <1>1, JobChanges
  <2>3. pc' = [pc EXCEPT ![p] = "index"]
    BY <1>1, <2>1
  <2> HIDE DEF j
  <2> QED
    BY <2>1, <2>2, <2>3, PlainStep
<1>6. CASE FlushBatch(p)
  <2>1. /\ pc[p] = "index" /\ pc' = pc /\ source' = source
        /\ job' = [job EXCEPT ![p] = [j EXCEPT !.batch = {}]]
    BY <1>6 DEF FlushBatch, Outside
  <2>2. [j EXCEPT !.batch = {}] \in Job
    BY <1>1, JobChanges
  <2>3. pc' = [pc EXCEPT ![p] = "index"]
    BY <1>1, <2>1
  <2> HIDE DEF j
  <2> QED
    BY <2>1, <2>2, <2>3, PlainStep
<1>7. CASE FlushOne(p)
  <2>1. PICK w \in j.batch :
          /\ pc' = [pc EXCEPT ![p] = IF j.batch = {w} THEN "index" ELSE "singles"]
          /\ source' = source
          /\ job' = [job EXCEPT ![p] = [j EXCEPT !.batch = j.batch \ {w}]]
    BY <1>7 DEF FlushOne, Goto, Outside
  <2>2. [j EXCEPT !.batch = j.batch \ {w}] \in Job
    BY <1>1, JobChanges
  <2>3. PICK there \in {"index", "singles"} : pc' = [pc EXCEPT ![p] = there]
    BY <2>1
  <2> HIDE DEF j
  <2> QED
    BY <2>1, <2>2, <2>3, PlainStep
<1>8. CASE FlushFails(p)
  <2>1. pc' = [pc EXCEPT ![p] = "singles"] /\ source' = source /\ job' = job
    BY <1>8 DEF FlushFails, Goto, Outside
  <2> HIDE DEF j
  <2> QED
    BY <1>1, <2>1, PlainStep
<1>9. CASE PassEnds(p)
  <2>1. pc' = [pc EXCEPT ![p] = "idle"] /\ source' = source /\ job' = [job EXCEPT ![p] = NoJob]
    BY <1>9 DEF PassEnds, Ends, Goto, Outside
  <2> QED
    BY <2>1, Jobs, PlainStep
<1> QED
  BY <1>2, <1>3, <1>4, <1>5, <1>6, <1>7, <1>8, <1>9

\* A discovery keeps the invariant: what a complete listing omits of the sessions known
\* when it was taken was gone by then.
LEMMA DiscoveryStep ==
  ASSUME IInv, NEW p \in Procs, TablesKept,
         \/ \E complete \in BOOLEAN, shown \in SUBSET Native : Discover(p, complete, shown)
         \/ Compare(p) \/ WriteListing(p) \/ WriteUnchanged(p) \/ WriteListingFails(p)
  PROVE  IInv'
<1>0. /\ pc \in [Procs -> Steps] /\ job \in [Procs -> Job] /\ job[p] \in Job
      /\ source \in [Native -> Source] /\ SourceRule /\ ListingRule(p)
  BY DEF IInv, Typed
<1>1. ASSUME NEW complete \in BOOLEAN, NEW shown \in SUBSET Native, Discover(p, complete, shown)
      PROVE  IInv'
  <2> DEFINE listing == [s \in Native |->
                           IF There(s) /\ s \in shown THEN source[s].time ELSE 0]
             known == {s \in Native : source[s].at # "unborn"}
             j == [NoJob EXCEPT !.complete = complete, !.listing = listing, !.known = known]
  <2>1. /\ pc' = [pc EXCEPT ![p] = "listed"] /\ job' = [job EXCEPT ![p] = j]
        /\ source' = source /\ (complete => shown = Native)
    BY <1>1 DEF Discover, Goto, Outside
  <2>2. listing \in [Native -> 0 .. MaxTime] /\ known \subseteq Native
    BY <1>0, Numbers DEF Source
  <2>3. ASSUME complete, NEW s \in known, listing[s] = 0 PROVE source[s].at = "gone"
    <3>1. source[s] \in Source /\ source[s].at # "unborn"
      BY <1>0
    <3>2. ~There(s)
      BY <1>0, <2>1, <2>3 DEF SourceRule, Time
    <3> QED
      BY <3>1, <3>2 DEF There, Source
  <2> HIDE DEF listing, known
  <2>4. j \in Job /\ j.complete = complete /\ j.listing = listing /\ j.known = known
    BY <2>2, Jobs DEF Job
  <2> HIDE DEF j
  <2> QED
    BY <2>1, <2>3, <2>4, CommandStep DEF Steps
<1>2. CASE Compare(p)
  <2>1. PICK there \in {"unchanged", "write"} :
          pc[p] = "listed" /\ pc' = [pc EXCEPT ![p] = there]
    BY <1>2 DEF Compare, Goto
  <2>2. job' = [job EXCEPT ![p] = job[p]] /\ source' = source
    BY <1>0, <1>2 DEF Compare, Outside
  <2>3. job[p].complete =>
          \A s \in job[p].known : job[p].listing[s] = 0 => source[s].at = "gone"
    BY <1>0, <2>1 DEF ListingRule
  <2> QED
    BY <1>0, <2>1, <2>2, <2>3, CommandStep DEF Steps
<1>3. ASSUME NEW here, Listed(p, here), source' = source PROVE IInv'
  <2>1. PICK j : j = [NoJob EXCEPT !.listing = job[p].listing]
    OBVIOUS
  <2>2. j \in Job
    BY <1>0, <2>1, Jobs DEF Job
  <2>3. \/ pc' = [pc EXCEPT ![p] = "pending"] /\ job' = [job EXCEPT ![p] = j]
        \/ pc' = [pc EXCEPT ![p] = "idle"] /\ job' = [job EXCEPT ![p] = NoJob]
    BY <1>3, <2>1 DEF Listed, Ends, Goto
  <2> QED
    BY <1>3, <2>2, <2>3, Jobs, PlainStep
<1> QED
  BY <1>1, <1>2, <1>3 DEF WriteListing, WriteUnchanged, WriteListingFails, Outside

\* So do the commands about one session.
LEMMA SessionStep ==
  ASSUME IInv, NEW p \in Procs, TablesKept,
         \/ \E s \in Session, preview \in BOOLEAN : ReadSession(p, s, preview)
         \/ \E b \in Bundles : SaveNewBundle(p, b) \/ Migrate(p, b)
         \/ CheckCurrent(p) \/ StoreDocument(p) \/ IndexBundleRow(p) \/ IndexBundleText(p)
         \/ Forget(p) \/ Crash(p)
  PROVE  IInv'
<1>0. /\ pc \in [Procs -> Steps] /\ job \in [Procs -> Job] /\ job[p] \in Job
      /\ source \in [Native -> Source] /\ SourceRule /\ SessionRule(p)
  BY DEF IInv, Typed
<1>1. ASSUME NEW s \in Session, NEW preview \in BOOLEAN, ReadSession(p, s, preview) PROVE IInv'
  <2>1. PICK whole \in BOOLEAN : whole = (~preview \/ s \in Bundles)
    OBVIOUS
  <2>2. PICK j : j = [NoJob EXCEPT !.session = s, !.time = SourceTime(s), !.whole = whole]
    OBVIOUS
  <2>3. /\ job' = [job EXCEPT ![p] = j] /\ source' = source /\ Readable(s)
        /\ \E there \in {"store", "opened"} : pc' = [pc EXCEPT ![p] = there]
    BY <1>1, <2>1, <2>2 DEF ReadSession, Goto, Outside
  <2>4. SourceTime(s) \in Time
    BY <1>0, <2>3, ProcsAssumption DEF SourceTime, Readable, SourceRule, Session
  <2>5. j \in Job /\ j.session = s /\ j.time = SourceTime(s)
    BY <2>2, <2>4, Jobs, Numbers DEF Job
  <2>6. PICK there \in {"store", "opened"} : pc' = [pc EXCEPT ![p] = there]
    BY <2>3
  <2>7. /\ there \in Steps
        /\ there \notin {"saved", "rowed", "deleted", "listed", "write", "unchanged"}
    BY <2>6 DEF Steps
  <2> QED
    BY <1>0, <2>3, <2>4, <2>5, <2>6, <2>7, CommandStep
<1>2. ASSUME NEW b \in Bundles, SaveNewBundle(p, b) \/ Migrate(p, b) PROVE IInv'
  <2>1. PICK j : j = [NoJob EXCEPT !.session = b]
    OBVIOUS
  <2>2. /\ pc' = [pc EXCEPT ![p] = "saved"] /\ job' = [job EXCEPT ![p] = j]
        /\ source' = source
    BY <1>2, <2>1 DEF SaveNewBundle, Migrate, Goto, Outside
  <2>3. j \in Job /\ j.session \in Bundles
    BY <2>1, Jobs DEF Job, Session
  <2> QED
    BY <2>2, <2>3, CommandStep DEF Steps
<1>3. CASE CheckCurrent(p)
  <2>1. CASE pc' = [pc EXCEPT ![p] = "idle"] /\ job' = [job EXCEPT ![p] = NoJob]
    BY <1>3, <2>1, Jobs, PlainStep DEF CheckCurrent, Outside
  <2>2. CASE pc[p] = "opened" /\ pc' = [pc EXCEPT ![p] = "store"] /\ job' = job
    <3>1. job' = [job EXCEPT ![p] = job[p]] /\ source' = source
      BY <1>0, <1>3, <2>2 DEF CheckCurrent, Outside
    <3>2. job[p].session \in Session /\ job[p].time \in Time
      BY <1>0, <2>2 DEF SessionRule
    <3> QED
      BY <1>0, <2>2, <3>1, <3>2, CommandStep DEF Steps
  <2> QED
    BY <1>3, <2>1, <2>2 DEF CheckCurrent, Ends, Goto
<1>4. CASE IndexBundleRow(p)
  <2>1. /\ pc[p] = "saved" /\ pc' = [pc EXCEPT ![p] = "rowed"] /\ source' = source
        /\ job' = [job EXCEPT ![p] = job[p]]
    BY <1>0, <1>4 DEF IndexBundleRow, Goto, Outside
  <2>2. job[p].session \in Bundles
    BY <1>0, <2>1 DEF SessionRule
  <2> QED
    BY <1>0, <2>1, <2>2, CommandStep DEF Steps
<1>5. CASE StoreDocument(p) \/ IndexBundleText(p) \/ Forget(p) \/ Crash(p)
  <2>1. /\ pc' = [pc EXCEPT ![p] = "idle"] /\ job' = [job EXCEPT ![p] = NoJob]
        /\ source' = source
    BY <1>5 DEF StoreDocument, IndexBundleText, Forget, Crash, Ends, Goto, Outside
  <2> QED
    BY <2>1, Jobs, PlainStep
<1> QED
  BY <1>1, <1>2, <1>3, <1>4, <1>5

\* omni deletes a session with its provider first.
LEMMA DeletionStep ==
  ASSUME IInv, NEW p \in Procs, TablesKept, NEW s \in Native, DeleteSource(p, s)
  PROVE  IInv'
<1>1. PICK j : j = [NoJob EXCEPT !.session = s]
  OBVIOUS
<1>2. /\ pc' = [pc EXCEPT ![p] = "deleted"] /\ job' = [job EXCEPT ![p] = j]
      /\ source' = [source EXCEPT ![s] = Gone]
  BY <1>1 DEF DeleteSource, Goto
<1>3. j \in Job /\ j.session = s
  BY <1>1, Jobs DEF Job, Session
<1>4. Typed /\ SourceRule
  BY DEF IInv
<1>5. pc' \in [Procs -> Steps] /\ pc'[p] = "deleted" /\ \A q \in Procs \ {p} : pc'[q] = pc[q]
  BY <1>2, <1>4, Assigned DEF Typed, Steps
<1>6. job' \in [Procs -> Job] /\ job'[p] = j /\ \A q \in Procs \ {p} : job'[q] = job[q]
  BY <1>2, <1>3, <1>4, Assigned DEF Typed
<1>7. /\ source' \in [Native -> Source] /\ source'[s].at = "gone"
      /\ \A u \in Native \ {s} : source'[u] = source[u]
  <2>1. Gone \in Source /\ Gone.at = "gone"
    BY Numbers DEF Gone, Source
  <2> QED
    BY <1>2, <1>4, <2>1, Assigned DEF Typed
<1>8. Typed'
  BY <1>5, <1>6, <1>7 DEF Typed, TablesKept
<1>9. Alone(p) /\ SourceRule'
  BY <1>4, <1>5, <1>6, <1>7 DEF Alone, SourceRule, There
<1>10. SessionRule(p)' /\ ListingRule(p)'
  BY <1>3, <1>5, <1>6, <1>7 DEF SessionRule, ListingRule
<1> QED
  BY <1>8, <1>9, <1>10, OthersKept

\* Whatever happens outside omni keeps it too.
LEMMA OutsideStep ==
  ASSUME IInv, Damage \/ Calm \/ \E s \in Native : SourceWritten(s) \/ SourceDeleted(s)
  PROVE  IInv' /\ TablesKept /\ NoneUnprotected
<1>1. Typed /\ SourceRule
  BY DEF IInv
<1>2. UNCHANGED <<rows, docs, bundles, pc, job>>
  BY DEF Damage, DamageChunk, Calm, SourceWritten, SourceDeleted, tables
<1>3. TablesKept /\ NoneUnprotected
  BY <1>1, <1>2, TablesUnchanged
<1> DEFINE Lives == /\ source' \in [Native -> Source] /\ SourceRule'
                    /\ \A s \in Native : source[s].at = "gone" => source'[s].at = "gone"
<1>4. Lives
  <2>1. CASE Damage \/ Calm
    BY <1>1, <2>1 DEF Damage, Calm, Outside, Typed, SourceRule, There
  <2>2. ASSUME NEW s \in Native, NEW new \in Source, source' = [source EXCEPT ![s] = new],
               source[s].at # "gone" \/ new.at = "gone", new.at = "there" => new.time \in Time
        PROVE  Lives
    <3>1. /\ source' \in [Native -> Source] /\ source'[s] = new
          /\ \A u \in Native \ {s} : source'[u] = source[u]
      BY <1>1, <2>2, Assigned DEF Typed
    <3> QED
      BY <1>1, <2>2, <3>1 DEF SourceRule, There
  <2>3. ASSUME NEW s \in Native, SourceWritten(s) PROVE Lives
    <3>1. PICK r \in BOOLEAN :
            source' = [source EXCEPT ![s] =
                         [at |-> "there", time |-> source[s].time + 1, readable |-> r]]
      BY <2>3 DEF SourceWritten
    <3>2. PICK new : new = [at |-> "there", time |-> source[s].time + 1, readable |-> r]
      OBVIOUS
    <3>3. source[s].time \in 0 .. MaxTime /\ source[s].time < MaxTime /\ source[s].at # "gone"
      BY <1>1, <2>3 DEF SourceWritten, Typed, Source
    <3>4. source[s].time + 1 \in Time
      BY <3>3, Numbers DEF Time
    <3>5. new \in Source /\ new.at = "there" /\ new.time \in Time
      BY <3>2, <3>4, Numbers DEF Source
    <3> QED
      BY <2>2, <3>1, <3>2, <3>3, <3>5
  <2>4. ASSUME NEW s \in Native, SourceDeleted(s) PROVE Lives
    <3>1. Gone \in Source /\ Gone.at = "gone"
      BY Numbers DEF Gone, Source
    <3> QED
      BY <2>2, <2>4, <3>1 DEF SourceDeleted
  <2> QED
    BY <2>1, <2>3, <2>4
<1>5. Typed'
  BY <1>1, <1>2, <1>3, <1>4 DEF Typed, TablesKept
<1>6. ASSUME NEW q \in Procs PROVE SessionRule(q)' /\ ListingRule(q)'
  <2>1. pc'[q] = pc[q] /\ job'[q] = job[q] /\ job[q] \in Job
    BY <1>1, <1>2 DEF Typed
  <2>2. SessionRule(q)'
    BY <1>4, <2>1 DEF IInv, SessionRule
  <2>3. ListingRule(q)'
    BY <1>4, <2>1, Jobs DEF IInv, ListingRule
  <2> QED
    BY <2>2, <2>3
<1> QED
  BY <1>3, <1>4, <1>5, <1>6 DEF IInv

\* Every step keeps the invariant, and touches the documents and the listing as it may.
LEMMA StepKeeps ==
  ASSUME IInv, [Next]_vars
  PROVE  /\ IInv' /\ TablesKept
         /\ NoneUnprotected \/ \E p \in Procs : Forget(p)
<1>1. CASE UNCHANGED vars
  <2>1. /\ UNCHANGED <<rows, docs, bundles, source, pc, job>>
    BY <1>1 DEF vars, tables
  <2>2. IInv'
    BY <2>1 DEF IInv, Typed, SourceRule, There, SessionRule, ListingRule
  <2> QED
    BY <2>1, <2>2, TablesUnchanged DEF IInv
<1>2. ASSUME NEW p \in Procs, Continue(p) \/ Start(p) \/ StopPass(p) \/ Crash(p)
      PROVE  IInv' /\ TablesKept /\ (NoneUnprotected \/ Forget(p))
  <2>1. TablesKept /\ (NoneUnprotected \/ Forget(p))
    BY <1>2, CommandTables
  <2>2. CASE Continue(p)
    BY <2>1, <2>2, PassStep, DiscoveryStep, SessionStep DEF Continue
  <2>3. CASE Start(p)
    BY <2>1, <2>3, DiscoveryStep, SessionStep, DeletionStep DEF Start
  <2>4. CASE StopPass(p) \/ Crash(p)
    BY <2>1, <2>4, PassStep, SessionStep
  <2> QED
    BY <1>2, <2>1, <2>2, <2>3, <2>4
<1> QED
  BY <1>1, <1>2, OutsideStep DEF Next

\* The invariant holds initially, for a new store and for one of an older program.
LEMMA InitHolds == Init => IInv
<1> SUFFICES ASSUME Init PROVE IInv
  OBVIOUS
<1>1. rows \in [Session -> 0 .. MaxTime] /\ docs \in [Session -> Doc \cup {NoDoc}]
      /\ bundles \subseteq Bundles /\ \A s \in Session : rows[s] \in {0, 1}
  <2>1. CASE InitTables
    BY <2>1, Numbers DEF InitTables
  <2>2. CASE LegacyTables
    <3>1. rows \in [Session -> {0, 1}] /\ bundles \subseteq Bundles
      BY <2>2 DEF LegacyTables
    <3>2. PICK of : docs = [s \in Session |->
                              IF s \in of THEN [NoDoc EXCEPT !.time = 1, !.whole = TRUE]
                              ELSE NoDoc]
      BY <2>2 DEF LegacyTables
    <3>3. [NoDoc EXCEPT !.time = 1, !.whole = TRUE] \in Doc
      BY Numbers DEF NoDoc, Doc
    <3> QED
      BY <3>1, <3>2, <3>3, TimesAssumption
  <2> QED
    BY <2>1, <2>2 DEF Init
<1>2. source \in [Native -> Source] /\ SourceRule
  <2>1. ASSUME NEW s \in Native
        PROVE  source[s] \in Source /\ (There(s) => source[s].time \in Time)
    <3>1. CASE rows[s] = 0
      <4>1. source[s] = Unborn
        BY <3>1 DEF Init
      <4> QED
        BY <4>1, Numbers DEF Unborn, Source, There
    <3>2. CASE rows[s] # 0
      <4>1. source[s] = [at |-> "there", time |-> rows[s], readable |-> TRUE]
        BY <3>2 DEF Init
      <4>2. rows[s] = 1
        BY <1>1, <3>2 DEF Session
      <4> QED
        BY <4>1, <4>2, Numbers DEF Source, There
    <3> QED
      BY <3>1, <3>2
  <2>2. source = [s \in Native |-> source[s]]
    BY DEF Init
  <2> QED
    BY <2>1, <2>2 DEF SourceRule
<1>3. /\ pc \in [Procs -> Steps] /\ job \in [Procs -> Job]
      /\ \A p \in Procs : pc[p] = "idle"
  BY Jobs DEF Init, Steps
<1> QED
  BY <1>1, <1>2, <1>3 DEF IInv, Typed, SessionRule, ListingRule

\* The invariant holds in every reachable state.
LEMMA Invariant == Spec => []IInv
BY InitHolds, StepKeeps, PTL DEF Spec

\* Processes that read a session at different times may write what they read in any order:
\* no text is replaced by an older one of the same version.
THEOREM NewerTextsStay == Spec => NewerTextStays
<1> DEFINE Stays == \A s \in Session \ Kept :
      docs[s] # NoDoc /\ docs'[s] # NoDoc /\ docs'[s].version <= docs[s].version
        => /\ docs'[s].version = docs[s].version /\ docs'[s].time >= docs[s].time
           /\ docs'[s].time = docs[s].time /\ docs[s].whole => docs'[s].whole
<1>1. IInv /\ [Next]_vars => [Stays]_vars
  BY StepKeeps DEF TablesKept, Newer
<1> QED
  BY <1>1, Invariant, PTL DEF Spec, NewerTextStays

\* The protected document of a bundle's source goes only with the session omni deletes.
THEOREM ProtectionHolds == Spec => ProtectedSurvives
<1> DEFINE Survives == \A s \in Session :
      docs[s].protected /\ ~docs'[s].protected
        => \E p \in Procs : pc[p] = "deleted" /\ pc'[p] = "idle" /\ job[p].session = s
<1>1. ASSUME IInv, [Next]_vars PROVE Survives
  <2>1. CASE NoneUnprotected
    BY <2>1 DEF NoneUnprotected, StaysProtected
  <2>2. ASSUME NEW p \in Procs, Forget(p) PROVE Survives
    <3>1. Typed /\ SessionRule(p)
      BY <1>1 DEF IInv
    <3>2. pc[p] = "deleted" /\ pc'[p] = "idle" /\ ForgetSession(job[p].session)
      BY <2>2, <3>1 DEF Forget, Ends, Goto, Typed
    <3>3. job[p].session \in Session
      BY <3>1, <3>2 DEF SessionRule, Session
    <3>4. \A u \in Session \ {job[p].session} : StaysProtected(docs[u], docs'[u])
      BY <3>1, <3>2, <3>3, Forgotten
    <3> QED
      BY <3>2, <3>4 DEF StaysProtected
  <2> QED
    BY <1>1, <2>1, <2>2, StepKeeps
<1>2. IInv /\ [Next]_vars => [Survives]_vars
  BY <1>1
<1> QED
  BY <1>2, Invariant, PTL DEF Spec, ProtectedSurvives

\* The steps that may take a session out of the cached listing.
LEMMA RowsRemoved ==
  ASSUME IInv, [Next]_vars, NEW s \in Native, rows[s] # 0, rows'[s] = 0
  PROVE  \E p \in Procs :
           \/ WriteListing(p) /\ job[p].complete /\ job[p].listing[s] = 0
           \/ Forget(p) /\ job[p].session = s
<1>0. Typed /\ s \in Session
  BY DEF IInv, Session
<1>1. rows' # rows
  OBVIOUS
<1>2. PICK p \in Procs : Continue(p) \/ Start(p) \/ StopPass(p) \/ Crash(p)
  <2>1. ~(\E u \in Native : SourceWritten(u) \/ SourceDeleted(u)) /\ ~Damage /\ ~Calm
    BY <1>1 DEF SourceWritten, SourceDeleted, Damage, DamageChunk, Calm, tables
  <2> QED
    BY <1>1, <2>1 DEF Next, vars, tables
<1>3. ~Start(p) /\ ~StopPass(p) /\ ~Crash(p)
  BY <1>1 DEF Start, Discover, ReadSession, SaveNewBundle, SaveBundle, Migrate, DeleteSource,
     OpenStore, StopPass, Crash, tables
<1>4. WriteListing(p) \/ IndexBundleRow(p) \/ Forget(p)
  <2>1. ASSUME NEW u \in Session, NEW retryable \in BOOLEAN
        PROVE  ~Prepare(p, u) /\ ~PrepareFails(p, u, retryable)
    BY <1>1 DEF Prepare, PrepareFails, tables
  <2>2. ~Compare(p) /\ ~WriteListingFails(p) /\ ~Pending(p) /\ ~FlushFails(p) /\ ~PassEnds(p)
        /\ ~CheckCurrent(p)
    BY <1>1 DEF Compare, WriteListingFails, Pending, FlushFails, PassEnds, CheckCurrent, tables
  <2>3. ~WriteUnchanged(p) /\ ~FlushBatch(p) /\ ~FlushOne(p) /\ ~StoreDocument(p)
        /\ ~IndexBundleText(p)
    BY <1>1 DEF WriteUnchanged, RecordUnchanged, FlushBatch, FlushOne, StoreDocument,
       IndexBundleText, UpsertDocuments, tables
  <2> QED
    BY <1>2, <1>3, <2>1, <2>2, <2>3 DEF Continue
<1>5. CASE WriteListing(p)
  <2>1. job[p].complete /\ ReplaceIndexed(job[p].listing)
    BY <1>0, <1>5 DEF WriteListing, MergeIndexed, Typed
  <2>2. rows'[s] = job[p].listing[s]
    BY <1>0, <2>1 DEF ReplaceIndexed
  <2> QED
    BY <1>5, <2>1, <2>2
<1>6. ~IndexBundleRow(p)
  BY <1>0, ProcsAssumption, TimesAssumption DEF IndexBundleRow, UpsertIndexed, Typed, Time
<1>7. CASE Forget(p)
  BY <1>0, <1>7 DEF Forget, ForgetSession, Typed
<1> QED
  BY <1>4, <1>5, <1>6, <1>7

\* No refresh takes a session out of the cached listing while its provider has it, unless
\* it was created after that complete listing began.
THEOREM OmissionsAreProofs == Spec => OmissionProvesDeletion
<1> DEFINE Proves == \A s \in Native :
      rows[s] # 0 /\ rows'[s] = 0 /\ There(s)
        => \E p \in Procs : pc[p] = "write" /\ pc'[p] # "write" /\ job[p].complete
                            /\ s \notin job[p].known
<1>1. ASSUME IInv, [Next]_vars, NEW s \in Native, rows[s] # 0, rows'[s] = 0, There(s)
      PROVE  \E p \in Procs : pc[p] = "write" /\ pc'[p] # "write" /\ job[p].complete
                              /\ s \notin job[p].known
  <2>1. PICK p \in Procs :
          \/ WriteListing(p) /\ job[p].complete /\ job[p].listing[s] = 0
          \/ Forget(p) /\ job[p].session = s
    BY <1>1, RowsRemoved
  <2>2. SessionRule(p) /\ ListingRule(p) /\ pc \in [Procs -> Steps]
    BY <1>1 DEF IInv, Typed
  <2>3. ~(Forget(p) /\ job[p].session = s)
    BY <1>1, <2>2 DEF Forget, Ends, Goto, SessionRule, There
  <2>4. pc[p] = "write" /\ pc'[p] # "write"
    BY <2>1, <2>2, <2>3 DEF WriteListing, Listed, Ends, Goto
  <2>5. s \notin job[p].known
    BY <1>1, <2>1, <2>2, <2>3, <2>4 DEF ListingRule, There
  <2> QED
    BY <2>1, <2>3, <2>4, <2>5
<1>2. IInv /\ [Next]_vars => [Proves]_vars
  BY <1>1
<1> QED
  BY <1>2, Invariant, PTL DEF Spec, OmissionProvesDeletion
==============================================================================
