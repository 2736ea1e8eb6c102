-------------------------------- MODULE Picker --------------------------------
(***************************************************************************)
(* The session picker and its worker threads: the loop of pick_session and *)
(* workers.rs.  The threads talk to the loop through one channel of        *)
(* updates, and the loop to them through one channel each; the threads     *)
(* read the stores of the providers and the search index meanwhile.        *)
(***************************************************************************)
EXTENDS PickerState

CONSTANTS
  Deletable,  \* providers with a guarded deletion
  Homeless,   \* sessions whose workspace is not on this machine
  RecordedBy, \* the launch profile that recorded a session, or NoTarget
  MaxUpdates, \* bound: updates that wait for the loop
  Scenarios   \* which keys and how many, which threads, and what the stores hold at first

Keys == {"type", "clear", "move", "scope", "provider", "delete", "enter", "quit"}
Threads == {"index", "search", "previews"}

ASSUME PickerScenarios ==
  Scenarios \subseteq
    [keys : SUBSET Keys, presses : Nat, threads : SUBSET Threads, opened : BOOLEAN,
     stored : [Session -> Times], native : [Session -> Times], indexed : SUBSET Session,
     records : Seq(Record), stale : SUBSET Provider, newRow : BOOLEAN, faults : BOOLEAN]

VARIABLES
  picker,    \* PickerState
  ui,        \* where the loop is
  updates,   \* what the threads sent, in order
  cacher,    \* the thread that sends what the store holds and starts the listings
  lister,    \* a thread for each provider that is listed again
  indexer, searcher, previewer,
  native,    \* the sessions as their providers keep them, 0 when there is none
  indexed,   \* the time of each session's text in the search index
  used,      \* keys pressed
  opening,   \* the session (or a new one) that the target page is about, and the page
  launch,    \* what is started when the picker is closed, with the row that was shown
  scenario

stores == <<native, indexed>>
pages == <<opening, launch>>
threads == <<cacher, lister, indexer, searcher, previewer>>
vars == <<picker, ui, updates, threads, stores, pages, used, scenario>>

NoPage == [session |-> Nobody, page |-> OpenedPage(NewSession, NoTarget)]

NoLaunch == [session |-> Nobody, row |-> HandoffRow, mode |-> NoMode]

NoSearch == [generation |-> 0, query |-> Blank, eligible |-> {}]

Row == [session : Session, time : Times]

TypeOK ==
  /\ picker.entries \in Seq(Entry) /\ picker.query \in Query \cup {Blank}
  /\ picker.matches \in Seq(Session) /\ picker.generation \in Generations
  /\ picker.provider \in Provider \cup {AnyProvider} /\ picker.selected \in Nat
  /\ picker.new \in {"hidden", "explicit", "auto", "unselected"}
  /\ picker.titles \cup picker.deleted \subseteq Session /\ picker.links \subseteq Record
  /\ picker.window \in Seq(PreviewKey) /\ picker.previews \in Seq(PreviewKey)
  /\ picker.dialog.phase \in {"none", "confirm", "deleting", "failed"}
  /\ ui \in {"updates", "keys", "deleting", "page", "folder", "starting", "closed"} /\ used \in 0 .. scenario.presses
  /\ cacher \in {"rows", "titles", "lineage", "listings", "done"}
  /\ lister \in [Provider -> {"idle", "running"}]
  /\ indexer.at \in {"idle", "pass"} /\ indexer.todo \in Seq(Row)
  /\ searcher.slot \in Seq([generation : Generations, query : Query, eligible : SUBSET Session])
  /\ Len(searcher.slot) <= 1 /\ previewer.queue \in Seq(PreviewKey)
  /\ native \in [Session -> Times] /\ indexed \in [Session -> Times]

RowsOf(times) == {[session |-> s, time |-> times[s]] : s \in {s \in Session : times[s] > 0}}

\* The picker after the updates of the cache thread, when they came before the first key.
Opened ==
  LET new == NewPicker(FALSE, scenario.newRow)
      filled == ReplaceAllEntries([new EXCEPT !.loaded = TRUE], RowsOf(scenario.stored), 1)
      titled == {RememberTitles(st, scenario.indexed) : st \in {filled}}
      linked == {ReplaceLineage(st, scenario.records) : st \in titled}
  IN {Looked(st) : st \in linked}

Init ==
  /\ scenario \in Scenarios
  /\ picker \in IF scenario.opened THEN Opened ELSE {NewPicker(FALSE, scenario.newRow)}
  /\ cacher = IF scenario.opened THEN "listings" ELSE "rows"
  /\ ui = "updates" /\ updates = <<>> /\ used = 0 /\ opening = NoPage /\ launch = NoLaunch
  /\ lister = [p \in Provider |-> "idle"]
  /\ indexer = [channel |-> <<>>, waiting |-> <<>>, at |-> "idle", todo |-> <<>>, titles |-> {}]
  /\ searcher = [slot |-> <<>>, request |-> NoSearch]
  /\ previewer = [channel |-> <<>>, queue |-> <<>>]
  /\ native = scenario.native
  /\ indexed = [s \in Session |-> IF s \in scenario.indexed THEN scenario.stored[s] ELSE 0]

Running == ui # "closed"

Send(update) == Len(updates) < MaxUpdates /\ updates' = Append(updates, update)

MayFail == scenario.faults

\* The list is drawn once after what changed it.
Shown(st) == \E changed \in {st} : picker' = Looked(changed)

-----------------------------------------------------------------------------
(* The threads that list sessions *)

\* What the store holds, then its titles, then its handoffs.
SendCached(ok) ==
  /\ Running /\ cacher = "rows" /\ (ok \/ MayFail) /\ cacher' = IF ok THEN "titles" ELSE "done"
  /\ Send([kind |-> "cached", ok |-> ok, rows |-> RowsOf(scenario.stored)])
  /\ lister' = IF ok THEN lister ELSE [p \in Provider |-> "running"]
  /\ UNCHANGED <<picker, ui, indexer, searcher, previewer, stores, pages, used, scenario>>

SendTitles ==
  /\ Running /\ cacher = "titles" /\ cacher' = "lineage"
  /\ Send([kind |-> "titles", titles |-> {s \in Session : indexed[s] > 0}])
  /\ UNCHANGED <<picker, ui, lister, indexer, searcher, previewer, stores, pages, used, scenario>>

SendLineage ==
  /\ Running /\ cacher = "lineage" /\ cacher' = "listings"
  /\ Send([kind |-> "lineage", records |-> scenario.records])
  /\ UNCHANGED <<picker, ui, lister, indexer, searcher, previewer, stores, pages, used, scenario>>

\* Providers listed a moment ago, by any process, are not listed again.
StartListings ==
  /\ Running /\ cacher = "listings" /\ cacher' = "done"
  /\ Send([kind |-> "started", providers |-> scenario.stale])
  /\ lister' = [p \in Provider |-> IF p \in scenario.stale THEN "running" ELSE "idle"]
  /\ UNCHANGED <<picker, ui, indexer, searcher, previewer, stores, pages, used, scenario>>

\* The index writer's rows are SearchStore's.
SendListing(p, ok) ==
  /\ Running /\ lister[p] = "running" /\ (ok \/ MayFail)
  /\ lister' = [lister EXCEPT ![p] = "idle"]
  /\ Send([kind |-> "listed", provider |-> p, ok |-> ok,
           rows |-> {r \in RowsOf(native) : ProviderOf[r.session] = p}])
  /\ UNCHANGED <<picker, ui, cacher, indexer, searcher, previewer, stores, pages, used, scenario>>

-----------------------------------------------------------------------------
(* The thread that indexes the listed sessions *)

\* A mutant of IndexStart: the list that stopped the last pass is forgotten.
IndexStartAfresh ==
  /\ Running /\ indexer.at = "idle" /\ indexer.channel # <<>>
  /\ indexer' = [channel |-> <<>>, waiting |-> <<>>, at |-> "pass", titles |-> {},
                 todo |-> SelectSeq(Last(indexer.channel), LAMBDA r : indexed[r.session] < r.time)]
  /\ Send([kind |-> "indexing", titles |-> {}])
  /\ UNCHANGED <<picker, ui, cacher, lister, searcher, previewer, stores, pages, used, scenario>>

\* The newest list counts: of the channel, or else the one that stopped the last pass.
IndexStart ==
  /\ Running /\ indexer.at = "idle" /\ indexer.waiting \o indexer.channel # <<>>
  /\ LET newest == Last(indexer.waiting \o indexer.channel)
     IN indexer' = [channel |-> <<>>, waiting |-> <<>>, at |-> "pass", titles |-> {},
                    todo |-> SelectSeq(newest, LAMBDA r : indexed[r.session] < r.time)]
  /\ Send([kind |-> "indexing", titles |-> {}])
  /\ UNCHANGED <<picker, ui, cacher, lister, searcher, previewer, stores, pages, used, scenario>>

\* should_stop takes the newer lists off the channel before each session.
IndexStop ==
  /\ Running /\ indexer.at = "pass" /\ indexer.todo # <<>> /\ indexer.channel # <<>>
  /\ indexer' = [indexer EXCEPT !.channel = <<>>, !.waiting = <<Last(indexer.channel)>>,
                                !.at = "idle", !.todo = <<>>, !.titles = {}]
  /\ Send([kind |-> "indexing", titles |-> indexer.titles])
  /\ UNCHANGED <<picker, ui, cacher, lister, searcher, previewer, stores, pages, used, scenario>>

IndexNext(reports) ==
  /\ Running /\ indexer.at = "pass" /\ indexer.todo # <<>> /\ indexer.channel = <<>>
  /\ LET s == Head(indexer.todo).session
         time == Max({indexed[s], Head(indexer.todo).time})
         read == IF native[s] > 0 THEN {s} ELSE {}
         titles == indexer.titles \cup read
     IN /\ indexed' = IF read = {} THEN indexed ELSE [indexed EXCEPT ![s] = time]
        /\ indexer' = [indexer EXCEPT !.todo = Tail(@), !.titles = IF reports THEN {} ELSE titles]
        /\ IF reports THEN Send([kind |-> "indexing", titles |-> titles]) ELSE UNCHANGED updates
  /\ UNCHANGED <<picker, ui, cacher, lister, searcher, previewer, native, pages, used, scenario>>

IndexEnd ==
  /\ Running /\ indexer.at = "pass" /\ indexer.todo = <<>>
  /\ indexer' = [indexer EXCEPT !.at = "idle", !.titles = {}]
  /\ Send([kind |-> "indexing", titles |-> indexer.titles])
  /\ UNCHANGED <<picker, ui, cacher, lister, searcher, previewer, stores, pages, used, scenario>>

-----------------------------------------------------------------------------
(* The threads that search the index and read previews *)

SearchTake ==
  /\ Running /\ searcher.request = NoSearch /\ searcher.slot # <<>>
  /\ searcher' = [slot |-> <<>>, request |-> Head(searcher.slot)]
  /\ UNCHANGED <<picker, ui, updates, cacher, lister, indexer, previewer, stores, pages, used, scenario>>

Newer(a, b) == indexed[a] > indexed[b]

Found(request) ==
  SetToSortSeq({s \in request.eligible \cap TextMatches[request.query] : indexed[s] > 0}, Newer)

SearchAnswer(ok) ==
  /\ Running /\ searcher.request # NoSearch /\ (ok \/ MayFail)
  /\ searcher' = [searcher EXCEPT !.request = NoSearch]
  /\ Send([kind |-> "search", generation |-> searcher.request.generation, ok |-> ok,
           page |-> Found(searcher.request)])
  /\ UNCHANGED <<picker, ui, cacher, lister, indexer, previewer, stores, pages, used, scenario>>

PreviewTake ==
  /\ Running /\ previewer.queue = <<>> /\ previewer.channel # <<>>
  /\ previewer' = [channel |-> Tail(previewer.channel), queue |-> Head(previewer.channel)]
  /\ UNCHANGED <<picker, ui, updates, cacher, lister, indexer, searcher, stores, pages, used, scenario>>

\* Newer windows replace the queue only after its first key was taken.
PreviewRead ==
  /\ Running /\ previewer.queue # <<>>
  /\ LET key == Head(previewer.queue)
         there == native[key.session] > 0
     IN /\ previewer' = [channel |-> <<>>, queue |-> IF previewer.channel = <<>>
                           THEN Tail(previewer.queue) ELSE Last(previewer.channel)]
        /\ indexed' = IF there
             THEN [indexed EXCEPT ![key.session] = Max({@, native[key.session]})] ELSE indexed
        /\ Send([kind |-> "preview", key |-> key,
                 titles |-> IF there THEN {key.session} ELSE {}])
  /\ UNCHANGED <<picker, ui, cacher, lister, indexer, searcher, native, pages, used, scenario>>
-----------------------------------------------------------------------------
(* The loop: updates first, then requests that are due, then a key *)

\* Searches that a thread or a waiting update remembers.
Remembered ==
  {picker.generation, searcher.request.generation}
    \cup {searcher.slot[i].generation : i \in DOMAIN searcher.slot}
    \cup {updates[i].generation : i \in {i \in DOMAIN updates : updates[i].kind = "search"}}

Fresh == Min(Generations \ Remembered)

\* A mutant of SearchAnswered: whatever search it was of.
SearchAnsweredAny(st, update) ==
  LET answered == [st EXCEPT !.pending = FALSE]
  IN IF update.ok THEN ReplaceMatches(answered, update.page) ELSE answered

\* The answer to an older search is dropped.
SearchAnswered(st, update) ==
  LET answered == [st EXCEPT !.pending = FALSE]
  IN IF update.generation # st.generation THEN st
     ELSE IF update.ok THEN ReplaceMatches(answered, update.page) ELSE answered

Received(st, update) ==
  CASE update.kind = "cached" ->
         LET loaded == [st EXCEPT !.loaded = TRUE]
         IN IF update.ok THEN ReplaceAllEntries(loaded, update.rows, Fresh) ELSE loaded
    [] update.kind = "titles" -> RememberTitles(st, update.titles)
    [] update.kind = "lineage" -> ReplaceLineage(st, update.records)
    [] update.kind = "started" -> [st EXCEPT !.refreshing = @ \cup update.providers]
    [] update.kind = "listed" ->
         LET listed == [st EXCEPT !.refreshing = @ \ {update.provider}]
         IN IF update.ok
              THEN ReplaceProviderEntries(listed, update.provider, update.rows, Fresh)
              ELSE listed
    [] update.kind = "indexing" ->
         TextIndexChanged(RememberTitles(st, update.titles), Fresh)
    [] update.kind = "preview" ->
         TextIndexChanged(InsertPreview(RememberTitles(st, update.titles), update.key), Fresh)
    [] update.kind = "search" -> SearchAnswered(st, update)

Receive ==
  /\ ui = "updates" /\ updates # <<>> /\ updates' = Tail(updates)
  /\ Shown(Received(picker, Head(updates)))
  /\ UNCHANGED <<ui, threads, stores, pages, used, scenario>>

Eligible(st) == {e.session : e \in {e \in Range(st.entries) : InScope(st, e)}}

\* A mutant of AskSearch: a request that finds the channel full is given up.
AskSearchOnce(st) ==
  LET request == [generation |-> st.generation, query |-> st.query, eligible |-> Eligible(st)]
  IN /\ picker' = [st EXCEPT !.searchDue = FALSE, !.pending = TRUE]
     /\ searcher' = IF searcher.slot = <<>> THEN [searcher EXCEPT !.slot = <<request>>]
                    ELSE searcher

\* A mutant of AskSearch: the request is queued although the channel is full.
AskSearchQueued(st) ==
  LET request == [generation |-> st.generation, query |-> st.query, eligible |-> Eligible(st)]
  IN /\ picker' = [st EXCEPT !.searchDue = FALSE, !.pending = TRUE]
     /\ searcher' = [searcher EXCEPT !.slot = Append(@, request)]

\* The channel holds one request; when it is full the search is due again a little later.
AskSearch(st) ==
  LET request == [generation |-> st.generation, query |-> st.query, eligible |-> Eligible(st)]
  IN IF searcher.slot = <<>>
       THEN /\ picker' = [st EXCEPT !.searchDue = FALSE, !.pending = TRUE]
            /\ searcher' = [searcher EXCEPT !.slot = <<request>>]
       ELSE picker' = [st EXCEPT !.pending = FALSE] /\ UNCHANGED searcher

Candidates(st) ==
  LET CurrentWorkspace(e) == e.session \in Here
      Other(e) == ~CurrentWorkspace(e)
      ordered == SelectSeq(st.entries, CurrentWorkspace) \o SelectSeq(st.entries, Other)
  IN [i \in DOMAIN ordered |-> [session |-> ordered[i].session, time |-> ordered[i].time]]

\* The channel was emptied; `elapsed` names the requests whose delay is over.
Dispatch(elapsed) ==
  \E st \in {RefreshPreviewWindow(picker)} :
     LET asked == [st EXCEPT !.previewDue = @ /\ "previews" \notin elapsed,
                             !.indexDue = @ /\ "index" \notin elapsed]
     IN /\ ui = "updates" /\ updates = <<>> /\ ui' = "keys"
        /\ "previews" \in elapsed => st.previewDue
        /\ "index" \in elapsed => st.indexDue
        /\ "search" \in elapsed => st.searchDue
        /\ previewer' = IF "previews" \in elapsed \cap scenario.threads /\ Missing(st) # <<>>
                          THEN [previewer EXCEPT !.channel = Append(@, Missing(st))]
                          ELSE previewer
        /\ indexer' = IF "index" \in elapsed \cap scenario.threads
                        THEN [indexer EXCEPT !.channel = Append(@, Candidates(st))] ELSE indexer
        /\ IF "search" \in elapsed THEN AskSearch(asked)
           ELSE picker' = asked /\ UNCHANGED searcher
        /\ UNCHANGED <<updates, cacher, lister, stores, pages, used, scenario>>

\* No key within one tick.
NoKey ==
  /\ ui = "keys" /\ ui' = "updates"
  /\ UNCHANGED <<picker, updates, threads, stores, pages, used, scenario>>

Key(key, st) ==
  /\ ui = "keys" /\ key \in scenario.keys /\ used < scenario.presses /\ used' = used + 1
  /\ picker.dialog = NoDialog /\ ui' = "updates" /\ Shown(st)
  /\ UNCHANGED <<updates, threads, stores, pages, scenario>>

\* A character more or less.
Type(query) ==
  /\ query # picker.query
  /\ Key("type", ResetSelection(QueryChanged([picker EXCEPT !.query = query], Fresh)))

ClearQuery ==
  Key("clear", ResetSelection(QueryChanged([picker EXCEPT !.query = Blank, !.touched = FALSE],
                                           Fresh)))

Move(delta) == Key("move", MoveSelection(picker, delta))

\* Home, End or a click on a row.
Select(row) ==
  /\ row < Len(Visible(picker)) + NewRows(picker) /\ Key("move", SelectRow(picker, row))

SwitchScope ==
  Key("scope", ResetSelection(QueryChanged([picker EXCEPT !.all = ~@], Fresh)))

SwitchProvider(p) ==
  /\ p # picker.provider
  /\ Key("provider", ResetSelection(QueryChanged([picker EXCEPT !.provider = p], Fresh)))

RequestDelete ==
  LET s == SelectedSession(picker)
      asked == [picker EXCEPT !.dialog = [session |-> s, phase |-> "confirm"]]
  IN Key("delete", IF s # Nobody /\ ProviderOf[s] \in Deletable THEN asked ELSE picker)

CloseDialog ==
  /\ ui = "keys" /\ ui' = "updates" /\ picker.dialog # NoDialog
  /\ picker' = [picker EXCEPT !.dialog = NoDialog]
  /\ UNCHANGED <<updates, threads, stores, pages, used, scenario>>

ConfirmDelete ==
  /\ ui = "keys" /\ ui' = "deleting" /\ picker.dialog.phase = "confirm"
  /\ picker' = [picker EXCEPT !.dialog.phase = "deleting"]
  /\ UNCHANGED <<updates, threads, stores, pages, used, scenario>>

\* delete_session also forgets the text.
Deleted(s) ==
  /\ native' = [native EXCEPT ![s] = 0] /\ indexed' = [indexed EXCEPT ![s] = 0]
  /\ Shown([RemoveSession(picker, s, Fresh) EXCEPT !.dialog = NoDialog])

\* The loop waits for the deletion; the threads do not.
FinishDelete ==
  /\ ui = "deleting" /\ ui' = "updates"
  /\ Deleted(picker.dialog.session)
  /\ UNCHANGED <<updates, threads, pages, used, scenario>>

DeleteFails ==
  /\ ui = "deleting" /\ ui' = "updates" /\ MayFail
  /\ picker' = [picker EXCEPT !.dialog.phase = "failed"]
  /\ UNCHANGED <<updates, threads, stores, pages, used, scenario>>

-----------------------------------------------------------------------------
(* The pages that Enter opens: the loop and its updates wait until they are left. *)

\* Nothing to start anything with: a notice.
Enter ==
  LET s == SelectedSession(picker)
      source == IF s = Nobody THEN NewSession ELSE ProviderOf[s]
      profile == IF s = Nobody THEN NoTarget ELSE RecordedBy[s]
      opens == IF s = Nobody THEN NewSelected(picker) /\ TargetChoices(NewSession) # <<>> ELSE TRUE
  IN /\ ui = "keys" /\ "enter" \in scenario.keys /\ used < scenario.presses /\ used' = used + 1
     /\ picker.dialog = NoDialog /\ ui' = IF opens THEN "page" ELSE "updates"
     /\ opening' = IF opens THEN [session |-> s, page |-> OpenedPage(source, profile)] ELSE opening
     /\ UNCHANGED <<picker, updates, threads, stores, launch, scenario>>

OnPage(page) ==
  /\ ui = "page" /\ used < scenario.presses /\ used' = used + 1
  /\ opening' = [opening EXCEPT !.page = page]
  /\ UNCHANGED <<picker, ui, updates, threads, stores, launch, scenario>>

TypeFilter(filter) == filter # opening.page.filter /\ OnPage(Filtered(opening.page, filter))

MoveRow(forward) == OnPage(RowMoved(opening.page, forward))

StepMode(right) == opening.page.selected # 0 /\ OnPage(ModeStepped(opening.page, right))

\* Esc, on either page.
LeavePage ==
  /\ ui \in {"page", "folder"} /\ ui' = "updates" /\ opening' = NoPage /\ launch' = NoLaunch
  /\ UNCHANGED <<picker, updates, threads, stores, used, scenario>>

\* A session whose folder is missing asks for one first; the handoff is only copied.
ChooseTarget ==
  LET row == opening.page.rows[opening.page.selected]
  IN /\ ui = "page" /\ opening.page.selected # 0
     /\ ui' = IF row.target = Clipboard THEN "closed"
              ELSE IF opening.session \in Homeless THEN "folder" ELSE "starting"
     /\ launch' = [session |-> opening.session, row |-> row, mode |-> row.mode]
     /\ UNCHANGED <<picker, updates, threads, stores, opening, used, scenario>>

ChooseFolder ==
  /\ ui = "folder" /\ ui' = "starting"
  /\ UNCHANGED <<picker, updates, threads, stores, pages, used, scenario>>

\* The agent is asked for the modes it has: an older one lists fewer, or its answer is unusable.
Start(listed) ==
  LET agent == AgentOf[launch.row.target]
  IN /\ ui = "starting" /\ ui' = "closed"
     /\ launch' = IF Refused(agent, launch.row.mode, listed) THEN NoLaunch
                  ELSE [launch EXCEPT !.mode = ResolvedMode(agent, launch.row.mode, listed)]
     /\ UNCHANGED <<picker, updates, threads, stores, opening, used, scenario>>

\* Esc on an empty query, or Ctrl-C.
Quit ==
  /\ ui = "keys" /\ "quit" \in scenario.keys /\ ui' = "closed"
  /\ UNCHANGED <<picker, updates, threads, stores, pages, used, scenario>>
-----------------------------------------------------------------------------

Workers ==
  \/ \E ok \in BOOLEAN : SendCached(ok)
  \/ SendTitles
  \/ SendLineage
  \/ StartListings
  \/ \E p \in Provider, ok \in BOOLEAN : SendListing(p, ok)
  \/ IndexStart
  \/ IndexStop
  \/ \E reports \in BOOLEAN : IndexNext(reports)
  \/ IndexEnd
  \/ SearchTake
  \/ \E ok \in BOOLEAN : SearchAnswer(ok)
  \/ PreviewTake
  \/ PreviewRead

Requests == {"index", "search", "previews"}

User ==
  \/ \E query \in Query \cup {Blank} : Type(query)
  \/ ClearQuery
  \/ \E delta \in {-1, 1} : Move(delta)
  \/ \E row \in 0 .. Cardinality(Session) : Select(row)
  \/ SwitchScope
  \/ \E p \in Provider \cup {AnyProvider} : SwitchProvider(p)
  \/ RequestDelete
  \/ CloseDialog
  \/ ConfirmDelete
  \/ Enter
  \/ \E filter \in Filter \cup {NoFilter} : TypeFilter(filter)
  \/ \E way \in BOOLEAN : MoveRow(way) \/ StepMode(way)
  \/ LeavePage
  \/ ChooseTarget
  \/ ChooseFolder
  \/ Quit

Next ==
  \/ Workers
  \/ User
  \/ Receive
  \/ \E elapsed \in SUBSET Requests : Dispatch(elapsed)
  \/ NoKey
  \/ FinishDelete
  \/ DeleteFails
  \/ \E listed \in SUBSET (1 .. 4) : Start(listed)

Due ==
  {r \in Requests : \/ r = "index" /\ picker.indexDue
                    \/ r = "search" /\ picker.searchDue
                    \/ r = "previews" /\ RefreshPreviewWindow(picker).previewDue}

\* Threads run, the loop turns, and a delay that is not started again and again ends.  The
\* weak fairness of Receive and the strong one of the last Dispatch are written out, each with
\* the guard that enables it.
Fairness ==
  /\ WF_vars(\E ok \in BOOLEAN : SendCached(ok)) /\ WF_vars(SendTitles) /\ WF_vars(SendLineage)
  /\ WF_vars(StartListings)
  /\ \A p \in Provider : WF_vars(\E ok \in BOOLEAN : SendListing(p, ok))
  /\ WF_vars(IndexStart \/ IndexStop \/ (\E r \in BOOLEAN : IndexNext(r)) \/ IndexEnd)
  /\ WF_vars(SearchTake \/ \E ok \in BOOLEAN : SearchAnswer(ok))
  /\ WF_vars(PreviewTake \/ PreviewRead)
  /\ []<>(ui # "updates" \/ updates = <<>>) \/ []<><<Receive>>_vars
  /\ <>[](ui # "updates" \/ updates # <<>>) \/ []<><<Dispatch(Due)>>_vars
  /\ WF_ui(ui = "keys" /\ ui' = "updates") /\ WF_ui(ui = "deleting" /\ ui' = "updates")

Spec == Init /\ [][Next]_vars /\ Fairness

-----------------------------------------------------------------------------

MatchesQuery(e, query) ==
  \/ query = Blank
  \/ ByMetadata(e, query)
  \/ e.session \in TextMatches[query]

\* The list shows the sessions as they are known now and for the query on the screen, each
\* once: the memo of the list is not older than what it was made from, no match is of an
\* earlier query, and without a query every session of the scope has its row.
ListIsCurrent ==
  LET rows == Visible(picker)
      shown == {e \in Range(picker.entries) : e.session \in Range(rows)}
  IN /\ rows = Listed(picker) /\ IsInjective(rows)
     /\ \A e \in shown : MatchesQuery(e, picker.query)
     /\ picker.query = Blank => Range(rows) = Eligible(picker)

\* Without a query a continuation stands below the session it continues, when both are shown
\* and the links do not form a cycle.
ParentsFirst ==
  LET rows == Visible(picker)
      Index(s) == CHOOSE i \in DOMAIN rows : rows[i] = s
      acyclic == \A s \in Session :
        \E r \in Component(picker.links, s) : Parent(picker.links, r) = {}
  IN picker.query = Blank /\ acyclic =>
       \A l \in picker.links :
         {l.source, l.target} \subseteq Range(rows) /\ l.source # l.target =>
           Index(l.source) < Index(l.target)

\* A deleted session does not come back, whatever listings and answers were under way.
DeletedStaysGone ==
  picker.deleted \cap
    (Range(SessionsOf(picker.entries)) \cup Range(picker.matches) \cup Range(Visible(picker))) = {}

\* What arrives in the background does not move the user's selection to another session
\* while the selected one stays in the list: Enter opens what was highlighted.
SelectionKept ==
  [][LET s == SelectedSession(picker)
     IN ui = "updates" /\ ui' = "updates" /\ ~Untouched(picker) /\ s # Nobody
          /\ s \in Range(Visible(picker'))
        => SelectedSession(picker') = s]_vars

\* What starts is what was on the screen when Enter was pressed: the selected row of the page
\* is drawn, its mode is one of its agent's, and the agent starts in that mode or, when it
\* does not have it, in a less permissive one; asking always is never given up for less.
LaunchIsAsShown ==
  LET page == opening.page
      row == launch.row
  IN /\ ui = "page" /\ page.selected # 0 => page.selected \in Range(Drawn(page))
     /\ \A i \in DOMAIN page.rows : page.rows[i].mode # NoMode =>
          page.rows[i].mode \in ModeSet(AgentOf[page.rows[i].target])
     /\ launch.session \in {Nobody, opening.session} /\ launch.mode <= row.mode
     /\ row.mode = AlwaysAsk => launch.mode = AlwaysAsk

SearchDone ==
  picker.query # Blank =>
    /\ ~picker.pending
    /\ Range(picker.matches) =
         {s \in Eligible(picker) \cap TextMatches[picker.query] : indexed[s] > 0}

PreviewsShown == Len(picker.window) <= PreviewCapacity => Missing(picker) = <<>>

IndexDone ==
  \A e \in Range(picker.entries) : native[e.session] > 0 => indexed[e.session] >= e.time

\* Once the user stops, the whole list gets indexed, the last query its complete answer and
\* every row on the screen its preview, however requests and answers crossed before.
WorkCatchesUp ==
  <>[](ui \in {"updates", "keys"} /\ picker.dialog.phase # "confirm" =>
         /\ "search" \in scenario.threads /\ ~scenario.faults => SearchDone
         /\ "previews" \in scenario.threads => PreviewsShown
         /\ "index" \in scenario.threads => IndexDone)
===============================================================================
