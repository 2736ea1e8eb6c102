------------------------------ MODULE LocalFiles ------------------------------
(* The files omni publishes outside any agent's store, by commands that run at  *)
(* once, may be killed at any step and may lose power: its own binary (omni     *)
(* updating itself), exports, kept handoff documents, and the cache of the      *)
(* modes an installed agent offers.                                             *)
(*                                                                              *)
(* A file is [of, whole, durable]: what it holds, whether all of it is there,   *)
(* and whether it was synchronised.  A new file has a random name until it is   *)
(* published by a rename or a link, so only published files have a path.        *)
EXTENDS Naturals, FiniteSets

CONSTANTS
  Users,         \* the omni processes
  Releases,      \* the versions that exist, as numbers
  Installed,     \* the version installed at first
  AgentUpdates,  \* how often the agent is replaced (a bound)
  PowerLosses,   \* how often the power goes (a bound)
  MaxCached,     \* MAX_CACHED_BINARIES
  Missing        \* no file

ASSUME ReleasesAssumption == Releases \subseteq Nat \ {0} /\ Installed \in Releases

ASSUME MissingAssumption == Missing \notin Users
ASSUME UsersAssumption == Users \cap {"binary", "export", "modes"} = {}

\* A release that does not run.
Broken == 0

VARIABLES
  entry,     \* [path -> the published file]
  older,     \* [path -> what the path named since its directory was synchronised]
  locked,    \* who holds self-update.lock, or Missing
  agent,     \* how often the agent was replaced: its identity, and what it lists
  losses,    \* the power losses so far
  at,        \* [process -> where its command is]
  staged,    \* [process -> the new file it writes]
  backup,    \* [process -> an update's copy of the current binary]
  task,      \* [process -> what its command does]
  moments    \* history: [process -> the agents there were since its probe began]

published == <<entry, older>>
others == <<agent, losses, moments>>
fileVars == <<entry, older, locked, agent, losses, at, staged, backup, task, moments>>

\* A handoff document has a random name: its path is its writer here.
Paths == {"binary", "export", "modes"} \cup Users
Over == {"idle", "done", "failed", "killed"}

Whole(of) == [of |-> of, whole |-> TRUE, durable |-> FALSE]
Durable(file) == [file EXCEPT !.durable = TRUE]

FilesFrom(place, updates, powers) ==
  /\ entry = [path \in Paths |-> IF path = "binary" THEN Durable(Whole(Installed)) ELSE Missing]
  /\ older = [path \in Paths |-> {}]
  /\ locked = Missing /\ agent = updates /\ losses = powers
  /\ at = [p \in Users |-> place]
  /\ staged = [p \in Users |-> Missing] /\ backup = [p \in Users |-> Missing]
  /\ task = [p \in Users |-> Missing] /\ moments = [p \in Users |-> {}]

FilesInit == FilesFrom("idle", 0, 0)

\* No command runs and none will.
FilesIdle == FilesFrom("done", AgentUpdates, PowerLosses)

Follow(p, here, there) == at[p] = here /\ at' = [at EXCEPT ![p] = there]

\* The rename or link that publishes a file; the directory is not synchronised by it.
Publish(path, file) ==
  /\ older' = [older EXCEPT ![path] = @ \cup {entry[path]}]
  /\ entry' = [entry EXCEPT ![path] = file]

\* Any step may fail: the command ends, its new files are removed, its lock is freed.
Free(p) == IF locked = p THEN Missing ELSE locked

Fail(p, here) ==
  /\ Follow(p, here, "failed")
  /\ locked' = Free(p)
  /\ UNCHANGED <<published, staged, backup, task, others>>

\* Writing a new file, and sync_all.
Stage(p, here, there, of) ==
  /\ Follow(p, here, there)
  /\ staged' = [staged EXCEPT ![p] = Whole(of)]
  /\ UNCHANGED <<published, locked, backup, task, others>>

\* A mutant of Synced: the file is published without being synchronised.
Unsynced(file) == file

Synced(file) == Durable(file)

Sync(p, here, there) ==
  /\ Follow(p, here, there)
  /\ staged' = [staged EXCEPT ![p] = Synced(@)]
  /\ UNCHANGED <<published, locked, backup, task, others>>

-----------------------------------------------------------------------------
(* omni updates itself                                                          *)

\* verify_binary_version: the binary runs and reports the version.
Reports(file, version) == file # Missing /\ file.whole /\ file.of = version

\* A mutant of Unlocked: the lock is opened and never taken.
LockIgnored(p) == TRUE

\* acquire_update_lock: who finds it taken gives up.
Unlocked(p) == locked = Missing

BeginUpdate(p) ==
  /\ Follow(p, "idle", "lock")
  /\ \E v \in Releases : task' = [task EXCEPT ![p] = [version |-> v, candidate |-> v]]
  /\ UNCHANGED <<published, locked, staged, backup, others>>

Lock(p) ==
  /\ Follow(p, "lock", "download")
  /\ Unlocked(p)
  /\ locked' = p
  /\ UNCHANGED <<published, staged, backup, task, others>>

\* verify_checksum, verify_archive_layout, extract_bounded_member: what comes out of an
\* archive with the published checksum and layout is the release as it was made, which may
\* not run.  Any other archive ends the command (Fail).
Extracted(version) == {version, Broken}

Download(p) ==
  /\ Follow(p, "download", "stage")
  /\ \E made \in Extracted(task[p].version) : task' = [task EXCEPT ![p].candidate = made]
  /\ UNCHANGED <<published, locked, staged, backup, others>>

VerifyStaged(p) ==
  /\ Follow(p, "verify", "backup")
  /\ Reports(staged[p], task[p].version)
  /\ UNCHANGED <<published, locked, staged, backup, task, others>>

Backup(p) ==
  /\ Follow(p, "backup", "publish")
  /\ backup' = [backup EXCEPT ![p] = Synced(entry["binary"])]
  /\ UNCHANGED <<published, locked, staged, task, others>>

PublishBinary(p) ==
  /\ Follow(p, "publish", "sync_directory")
  /\ Publish("binary", staged[p])
  /\ UNCHANGED <<locked, staged, backup, task, others>>

SyncDirectory(p) ==
  /\ Follow(p, "sync_directory", "check")
  /\ older' = [older EXCEPT !["binary"] = {}]
  /\ UNCHANGED <<entry, locked, staged, backup, task, others>>

CheckPublished(p) ==
  /\ Follow(p, "check", "done")
  /\ Reports(entry["binary"], task[p].version)
  /\ locked' = Free(p)
  /\ UNCHANGED <<published, staged, backup, task, others>>

\* The synchronisation or the check fails, by a timeout for instance.
Distrust(p) ==
  /\ Follow(p, "sync_directory", "restore") \/ Follow(p, "check", "restore")
  /\ UNCHANGED <<published, locked, staged, backup, task, others>>

RestoreBackup(p) ==
  /\ Follow(p, "restore", "failed")
  /\ Publish("binary", backup[p])
  /\ locked' = Free(p)
  /\ UNCHANGED <<staged, backup, task, others>>

Update(p) ==
  \/ BeginUpdate(p) \/ Lock(p) \/ Download(p)
  \/ Stage(p, "stage", "sync", task[p].candidate) \/ Sync(p, "sync", "verify")
  \/ VerifyStaged(p) \/ Backup(p) \/ PublishBinary(p) \/ SyncDirectory(p)
  \/ CheckPublished(p) \/ Distrust(p) \/ RestoreBackup(p)
  \/ \E here \in {"lock", "download", "stage", "sync", "verify", "backup", "publish",
                  "restore"} : Fail(p, here)

-----------------------------------------------------------------------------
(* Exports, as bundles and as Markdown: write_new_file                          *)

\* Nothing is written of a bundle that omni import would refuse, or of a file too large.
RefuseExport(p) ==
  /\ Follow(p, "idle", "failed")
  /\ UNCHANGED <<published, locked, staged, backup, task, others>>

BeginExport(p) ==
  /\ \/ entry["export"] = Missing /\ Follow(p, "idle", "export_stage")
     \/ entry["export"] # Missing /\ Follow(p, "idle", "failed")
  /\ UNCHANGED <<published, locked, staged, backup, task, others>>

\* persist_noclobber
MayPublish(path) == entry[path] = Missing

PublishExport(p) ==
  /\ Follow(p, "export_publish", "done")
  /\ MayPublish("export")
  /\ Publish("export", staged[p])
  /\ UNCHANGED <<locked, staged, backup, task, others>>

Export(p) ==
  \/ RefuseExport(p) \/ BeginExport(p)
  \/ Stage(p, "export_stage", "export_sync", p) \/ Sync(p, "export_sync", "export_publish")
  \/ PublishExport(p)
  \/ \E here \in {"export_stage", "export_sync", "export_publish"} : Fail(p, here)

-----------------------------------------------------------------------------
(* omni handoff: the document has its name from the start, so it can be seen    *)
(* while it is written; the compact text goes to the clipboard.                 *)

Handoff(p, here, there, file) ==
  /\ Follow(p, here, there)
  /\ entry' = [entry EXCEPT ![p] = file]
  /\ UNCHANGED <<older, locked, staged, backup, task, others>>

Unfinished(p) == [Whole(p) EXCEPT !.whole = FALSE]

KeepHandoff(p) ==
  \/ Handoff(p, "idle", "handoff_write", Unfinished(p))
  \/ Handoff(p, "handoff_write", "handoff_sync", Whole(p))
  \/ Handoff(p, "handoff_sync", "handoff_keep", Synced(Whole(p)))
  \/ \E here \in {"handoff_write", "handoff_sync"} : Handoff(p, here, "failed", Missing)

\* The clipboard may refuse: the document is kept and named all the same.
FillClipboard(p) ==
  /\ Follow(p, "handoff_keep", "done")
  /\ UNCHANGED <<published, locked, staged, backup, task, others>>

-----------------------------------------------------------------------------
(* The modes of an installed agent, asked before it is launched                 *)

NoEntries == [stamp \in {} |-> 0]

\* read_cache: what cannot be parsed counts as empty.
ReadCache ==
  IF entry["modes"] # Missing /\ entry["modes"].whole THEN entry["modes"].of ELSE NoEntries

\* binary_identity
Identify(p) ==
  /\ Follow(p, "idle", "lookup")
  /\ task' = [task EXCEPT ![p] = [stamp |-> agent, cache |-> NoEntries, lists |-> Missing]]
  /\ moments' = [moments EXCEPT ![p] = {agent}]
  /\ UNCHANGED <<published, locked, agent, losses, staged, backup>>

\* The entry of this path with this stamp.
Cached(cache, stamp) == DOMAIN cache \cap {stamp}

LookUp(p) ==
  /\ at[p] = "lookup"
  /\ \E cache \in {ReadCache} :
       \/ \E stamp \in Cached(cache, task[p].stamp) :
            /\ Follow(p, "lookup", "answered")
            /\ task' = [task EXCEPT ![p].lists = cache[stamp]]
       \/ /\ Cached(cache, task[p].stamp) = {}
          /\ Follow(p, "lookup", "help")
          /\ task' = [task EXCEPT ![p].cache = cache]
  /\ UNCHANGED <<published, locked, staged, backup, others>>

\* help_output: the agent there is now; one that fails or is late is not remembered.
AskHelp(p) ==
  /\ \/ Follow(p, "help", "remember") /\ task' = [task EXCEPT ![p].lists = agent]
     \/ Follow(p, "help", "answered") /\ UNCHANGED task
  /\ UNCHANGED <<published, locked, staged, backup, others>>

\* write_cache, which does not synchronise and may fail.
Remember(p) ==
  /\ Follow(p, "remember", "answered")
  /\ LET kept == IF Cardinality(DOMAIN task[p].cache) >= MaxCached THEN NoEntries
                 ELSE task[p].cache
         stamps == DOMAIN kept \cup {task[p].stamp}
     IN  \/ Publish("modes", Whole([s \in stamps |-> IF s = task[p].stamp THEN task[p].lists
                                                     ELSE kept[s]]))
         \/ UNCHANGED published
  /\ UNCHANGED <<locked, staged, backup, task, others>>

Launch(p) ==
  /\ Follow(p, "answered", "done")
  /\ UNCHANGED <<published, locked, staged, backup, task, others>>

Probe(p) == Identify(p) \/ LookUp(p) \/ AskHelp(p) \/ Remember(p) \/ Launch(p)

-----------------------------------------------------------------------------

\* The agent is updated: another file, with another stamp (external).
ReplaceAgent ==
  /\ agent < AgentUpdates
  /\ agent' = agent + 1
  /\ moments' = [p \in Users |-> IF moments[p] = {} THEN {} ELSE moments[p] \cup {agent + 1}]
  /\ UNCHANGED <<published, locked, losses, at, staged, backup, task>>

\* A killed process frees its lock; what it published stays.
KillUser(p) ==
  /\ at[p] \notin Over
  /\ at' = [at EXCEPT ![p] = "killed"]
  /\ locked' = Free(p)
  /\ UNCHANGED <<published, staged, backup, task, others>>

\* What a file holds after a power loss, and which file a path names.
Survivors(file) ==
  IF file = Missing \/ (file # Missing /\ file.durable) THEN {file}
  ELSE {Durable(file), Durable([file EXCEPT !.whole = FALSE])}

AfterLoss(path) == UNION {Survivors(file) : file \in older[path] \cup {entry[path]}}

\* Users start a command again afterwards (external).
LosePower ==
  /\ losses < PowerLosses
  /\ losses' = losses + 1
  /\ \E binary \in AfterLoss("binary"), export \in AfterLoss("export"),
        modes \in AfterLoss("modes") :
       entry' = [path \in Paths |->
                   CASE path = "binary" -> binary
                     [] path = "export" -> export
                     [] path = "modes" -> modes
                     [] path \in Users -> Missing]
  /\ older' = [path \in Paths |-> {}]
  /\ locked' = Missing
  /\ at' = [p \in Users |-> IF at[p] = "idle" THEN "idle" ELSE "killed"]
  /\ UNCHANGED <<agent, staged, backup, task, moments>>

FilesNext ==
  \/ \E p \in Users : Update(p) \/ Export(p) \/ KeepHandoff(p) \/ FillClipboard(p) \/ Probe(p)
                      \/ KillUser(p)
  \/ ReplaceAgent \/ LosePower

FilesSpec == FilesInit /\ [][FilesNext]_fileVars

-----------------------------------------------------------------------------
(* Properties                                                                   *)

\* Whatever is killed and whenever the power goes, the path of omni names a binary that
\* ran and reported its version before it got there, an exported file is whole or not
\* there at all, and a handoff document that was named to the user is whole.
PublishedFilesAreWhole ==
  /\ entry["binary"].whole /\ entry["binary"].of \in Releases
  /\ entry["export"] # Missing => entry["export"].whole
  /\ \A p \in Users : at[p] = "handoff_keep" => entry[p].whole

\* An update that is undone takes back its own binary and never one that another update
\* published meanwhile; one that succeeds survives a power loss; an export never replaces a
\* file; and the modes an agent is launched by are those that an agent installed since the
\* probe began lists.
PublishesExactly(p) ==
  /\ at[p] = "restore" /\ at'[p] = "failed" /\ published' # published =>
       entry["binary"].of = task[p].version
  /\ at[p] = "check" /\ at'[p] = "done" =>
       AfterLoss("binary")' = {Durable(Whole(task[p].version))}
  /\ at[p] = "export_publish" /\ at'[p] = "done" => entry["export"] = Missing
  /\ at[p] = "answered" /\ at'[p] = "done" => task[p].lists \in moments[p] \cup {Missing}

PublishingIsExact == [][\A p \in Users : PublishesExactly(p)]_fileVars
==============================================================================
