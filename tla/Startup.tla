------------------------------ MODULE Startup ------------------------------
(***************************************************************************)
(* A checkout, its database and its catalogue together: the database is    *)
(* made and migrated (Schema), and the runs of dr_sync list what the       *)
(* checkout and the database hold (Catalogue).  They meet in the database, *)
(* whose tables are themselves entries of the catalogue, and in its        *)
(* existence: the API and its start-up hook come after bootstrap.  A run   *)
(* holds the write lock from its first write to its commit; a migration    *)
(* that waits too long for it fails, as one that is killed does.           *)
(***************************************************************************)
EXTENDS Schema, Catalogue

CONSTANTS TableOf,   \* tables, and the migration that creates each
          MaxChanges \* a bound: entries that come or go, and databases removed

VARIABLES checkout, \* what the checkout holds, by target
          changes   \* how often so far

vars == <<schemaVars, catVars, checkout, changes>>

\* What sync_db reads of sqlite_master, and the other targets of the checkout.
Sources ==
    [t \in DOMAIN Entries |-> IF t = "db" THEN {e \in Entries[t] : effects[TableOf[e]] > 0}
                              ELSE checkout[t]]

\* A file, a manifest line or a list entry comes or goes.
Change(t, e) ==
    /\ changes < MaxChanges
    /\ changes' = changes + 1
    /\ checkout' = [checkout EXCEPT ![t] = IF e \in @ THEN @ \ {e} ELSE @ \cup {e}]
    /\ gone' = IF e \in checkout[t] /\ ~Revives(t) THEN gone \cup {<<t, e>>} ELSE gone
    /\ UNCHANGED <<schemaVars, rows, run, faults>>

\* The database may be removed only while nothing runs on it, and the catalogue
\* goes with it.
Remove ==
    /\ run.scanned = 0 /\ changes < MaxChanges
    /\ RemoveDb
    /\ rows' = [t \in DOMAIN Entries |-> [e \in Entries[t] |-> "none"]]
    /\ run' = [scanned |-> 0, draft |-> rows']
    /\ gone' = {}
    /\ changes' = changes + 1
    /\ UNCHANGED <<faults, checkout>>

\* A run needs the tables of the catalogue, and follows bootstrap.
CatalogueStep ==
    /\ ~StageAt(1) /\ ~booting
    /\ UNCHANGED <<schemaVars, checkout, changes>>
    /\ ScanTarget(Sources) \/ ScanFails(Sources) \/ RunCommit \/ RunDies

\* The steps of a run that fails nowhere.
RunStep ==
    /\ ~StageAt(1) /\ ~booting
    /\ UNCHANGED <<schemaVars, checkout, changes>>
    /\ ScanTarget(Sources) \/ RunCommit

Init ==
    /\ SchemaInit /\ CatalogueInit
    /\ checkout = [t \in DOMAIN Entries |-> IF t = "db" THEN {} ELSE Entries[t]]
    /\ changes = 0

Next ==
    \/ /\ SchemaStep
       /\ run.scanned > 0 => UNCHANGED <<effects, stamps>>
       /\ UNCHANGED <<catVars, checkout, changes>>
    \/ Remove \/ CatalogueStep
    \/ \E t \in DOMAIN Entries \ {"db"} : \E e \in Entries[t] : Change(t, e)

\* Cron starts a run every day, and a run that is not killed ends.
Spec == Init /\ [][Next]_vars /\ WF_vars(RunStep)

(***************************************************************************)
(* Properties                                                              *)
(***************************************************************************)

\* The catalogue settles: when the checkout has stopped changing and the
\* database its migrations, every row comes to say whether its entry is there,
\* though runs died, scans failed halfway and a run saw only part of the paths
\* ("a partial filesystem view must never retire entries that are still
\* curated"), or there is no database, or bootstrap waits for its user.
CatalogueSettles ==
    <>[](StageAt(1) \/ booting \/ \A t \in DOMAIN Entries : \A e \in Entries[t] : RowAgrees(t, e, Sources[t]))
=============================================================================
