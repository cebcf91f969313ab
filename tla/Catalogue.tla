----------------------------- MODULE Catalogue -----------------------------
(***************************************************************************)
(* The catalogue of the system's own parts (scripts/dr_sync.py): one run   *)
(* of it, from the API's start-up hook, cron or the command line, scans    *)
(* its targets one after another, each into its own table, and commits     *)
(* once with a row about the run.                                          *)
(*                                                                         *)
(* The first write of a run takes SQLite's write lock, which it holds to   *)
(* its commit: runs follow each other.  The sources change meanwhile.      *)
(*                                                                         *)
(* Abstractions.  A row is its status; the texts that a scan refreshes are *)
(* left out, and the tables of one target are one.  The rolling log of     *)
(* runs is left out: nothing but a page reads it.                          *)
(***************************************************************************)
EXTENDS Naturals, Sequences, FiniteSets

CONSTANTS Targets,   \* the targets of a run, in order, of SYNCS
          Entries,   \* what each target may ever list
          MaxFaults  \* a bound: runs that die and scans that fail

ASSUME CatalogueAssumption == MaxFaults \in Nat /\ \A i \in DOMAIN Targets : Targets[i] \in DOMAIN Entries

VARIABLES rows,   \* the dr_ tables, by target
          run,    \* a run: the targets it has scanned, and the rows it has written
          gone,   \* history: entries missing once, of targets that revive no row
          faults  \* deaths and failures so far

catVars == <<rows, run, gone, faults>>

NoRun == [scanned |-> 0, draft |-> rows]

\* The rows a scan finds are there; one whose status is not set keeps it.
Upserted(old, found, revives) ==
    [e \in DOMAIN old |-> IF e \in found /\ (revives \/ old[e] = "none") THEN "active" ELSE old[e]]

\* Active rows become retired, but for those to keep.
Retired(old, keep) ==
    [e \in DOMAIN old |-> IF old[e] = "active" /\ e \notin keep THEN "retired" ELSE old[e]]

\* _reap: a scan that found nothing is taken for one that failed, and a list
\* without entries retires nothing.
Reaped(old, found) == IF found = {} THEN old ELSE Retired(old, found)

(***************************************************************************)
(* The targets: which of them revive a retired row, and which retire any   *)
(***************************************************************************)

SyncApis(old, found) == Reaped(Upserted(old, found, FALSE), found)

\* A mutant: a dependency that is no longer declared stays active.
SyncDepsKept(old, found) == Upserted(old, found, TRUE)

SyncDeps(old, found) == Reaped(Upserted(old, found, TRUE), found)

\* None are found without ecosystem.config.cjs, or without node to read it.
SyncServices(old, found, read) == IF read THEN Upserted(old, found, FALSE) ELSE old

SyncLibs(old, found) == Reaped(Upserted(old, found, FALSE), found)

SyncPages(old, found) == Reaped(Upserted(old, found, TRUE), found)

SyncRepos(old, found) == Upserted(old, found, FALSE)

\* Of the listed paths a run sees some, and keeps the rows of all.
SyncFilepaths(old, seen, listed) == Reaped(Upserted(old, seen, FALSE), listed)

SyncAutomations(old, found) == Reaped(Upserted(old, found, TRUE), found)

SyncEnv(old, found) == Reaped(Upserted(old, found, TRUE), found)

SyncDb(old, found) == Reaped(Upserted(old, found, TRUE), found)

\* What a target makes of its rows: the paths a run sees and whether it can read
\* the services are a choice.
Synced(target, old, found) ==
    CASE target = "apis" -> {SyncApis(old, found)}
      [] target = "deps" -> {SyncDeps(old, found)}
      [] target = "services" -> {SyncServices(old, found, read) : read \in BOOLEAN}
      [] target = "libs" -> {SyncLibs(old, found)}
      [] target = "pages" -> {SyncPages(old, found)}
      [] target = "repos" -> {SyncRepos(old, found)}
      [] target = "filepaths" -> {SyncFilepaths(old, seen, found) : seen \in SUBSET found}
      [] target = "automations" -> {SyncAutomations(old, found)}
      [] target = "env" -> {SyncEnv(old, found)}
      [] target = "db" -> {SyncDb(old, found)}

Revives(target) == target \in {"deps", "pages", "automations", "env", "db"}
Retires(target) == target \notin {"services", "repos"}

(***************************************************************************)
(* A run                                                                   *)
(***************************************************************************)

\* sync_all, or main with every target: the next of them.
NextTarget == Targets[run.scanned + 1]

\* One target is scanned, with what its sources hold now.
ScanTarget(sources) ==
    /\ run.scanned < Len(Targets)
    /\ \E new \in Synced(NextTarget, run.draft[NextTarget], sources[NextTarget]) :
          run' = [scanned |-> run.scanned + 1, draft |-> [run.draft EXCEPT ![NextTarget] = new]]
    /\ UNCHANGED <<rows, gone, faults>>

\* The scan of one target raises, after some of its upserts: it is recorded as
\* failed, what it has written stays, and the run goes on.
ScanFails(sources) ==
    /\ run.scanned < Len(Targets)
    /\ faults < MaxFaults
    /\ \E some \in SUBSET sources[NextTarget] :
          run' = [scanned |-> run.scanned + 1,
                  draft |-> [run.draft EXCEPT
                                ![NextTarget] = Upserted(@, some, Revives(NextTarget))]]
    /\ faults' = faults + 1
    /\ UNCHANGED <<rows, gone>>

\* _record_run and the commit.
RunCommit ==
    /\ run.scanned = Len(Targets)
    /\ rows' = run.draft
    /\ run' = [scanned |-> 0, draft |-> run.draft]
    /\ UNCHANGED <<gone, faults>>

\* The process of a run dies, and its transaction with it.
RunDies ==
    /\ run.scanned # 0
    /\ faults < MaxFaults
    /\ faults' = faults + 1
    /\ run' = NoRun
    /\ UNCHANGED <<rows, gone>>

CatalogueInit ==
    /\ rows = [t \in DOMAIN Entries |-> [e \in Entries[t] |-> "none"]]
    /\ run = NoRun
    /\ gone = {}
    /\ faults = 0

(***************************************************************************)
(* Properties                                                              *)
(***************************************************************************)

\* The row of an entry says whether the entry is there.  It may lag where the
\* code lets it: an entry that went and came back stays retired in a table whose
\* rows are not revived, a path or a service may never have been seen, and
\* rows stay active when no entry of their target is left.
RowAgrees(target, e, found) ==
    LET status == rows[target][e] IN
    IF e \in found
    THEN \/ status = "active"
         \/ status = "retired" /\ <<target, e>> \in gone
         \/ status = "none" /\ target \in {"filepaths", "services"}
    ELSE \/ status # "active"
         \/ ~Retires(target)
         \/ found = {}
=============================================================================
