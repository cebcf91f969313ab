------------------------------- MODULE Schema -------------------------------
(***************************************************************************)
(* How a database comes to be and is kept up to date: bootstrap.py loads   *)
(* schema.sql, stamps the migrations it reflects and seeds the first rows, *)
(* committing in between; migrate.py applies the pending migrations, each  *)
(* in a transaction of its own with its stamp, and halts at the first that *)
(* fails.                                                                  *)
(*                                                                         *)
(* Abstractions.  A migration is its number NNN, and what it has done to   *)
(* the database is how often its statements have taken effect; loading     *)
(* schema.sql counts once for every migration there is.  One that is       *)
(* applied to a database that has it already collides with its own         *)
(* tables and fails, unless it changes data only.                          *)
(***************************************************************************)
EXTENDS Naturals, FiniteSets

CONSTANTS Migrations, \* numbers of migrations
          Shipped,    \* those of the first release
          DataOnly,   \* those that run again without a collision
          Failing,    \* those that fail on this database
          Runners     \* runs of migrate.py at a time

ASSUME SchemaAssumption ==
    /\ Migrations \subseteq Nat /\ IsFiniteSet(Migrations)
    /\ Shipped \subseteq Migrations /\ DataOnly \subseteq Migrations
    /\ Failing \subseteq Migrations \ Shipped

VARIABLES released, \* files under migrations/
          effects,  \* how often each migration has taken effect
          stamps,   \* schema_migrations
          stage,    \* how far bootstrap.py has come
          booting,  \* whether it runs
          todo,     \* what each run of migrate.py has left
          early,    \* history: a run or a release met a schema without stamps
          late      \* history: migrations released after a later one was due

schemaVars == <<released, effects, stamps, stage, booting, todo, early, late>>

\* The commits of bootstrap.py: the statements of schema.sql, each its own, the last
\* of them, the stamps, the seeds up to the prompt for the first user, and what needs
\* that user.
Stages == <<"none", "partial", "schema", "stamped", "seeded", "done">>
StageAt(i) == stage = Stages[i]

Due(r) == todo[r]
Running == {r \in Runners : Due(r) # {}}

(***************************************************************************)
(* bootstrap.py                                                            *)
(***************************************************************************)

\* DB_PATH does not exist: connect makes it, and some of schema.sql is executed.
BootOpen ==
    /\ StageAt(1) /\ ~booting
    /\ booting' = TRUE
    /\ \E some \in SUBSET released :
          effects' = [m \in Migrations |-> IF m \in some THEN 1 ELSE 0]
    /\ stage' = Stages[2]
    /\ UNCHANGED <<released, stamps, todo, early, late>>

\* The rest of it, which collides with the tables of a migration that has been
\* applied meanwhile.
BootSchema ==
    /\ booting /\ StageAt(2)
    /\ stamps \subseteq DataOnly
    /\ effects' = [m \in Migrations |->
          (IF m \in released THEN 1 ELSE 0) + (IF m \in stamps THEN 1 ELSE 0)]
    /\ stage' = Stages[3]
    /\ UNCHANGED <<released, stamps, booting, todo, early, late>>

\* INSERT OR IGNORE INTO schema_migrations.
BootStamp ==
    /\ booting /\ StageAt(3)
    /\ stamps' = stamps \cup released
    /\ stage' = Stages[4]
    /\ UNCHANGED <<released, effects, booting, todo, early, late>>

\* seed_skills, seed_models and ensure_forge; then prompt_and_create,
\* seed_exp_prime and seed_tools.
BootSeed ==
    /\ booting
    /\ \E i \in 4..5 : StageAt(i) /\ stage' = Stages[i + 1]
    /\ booting' = (stage' # Stages[6])
    /\ UNCHANGED <<released, effects, stamps, todo, early, late>>

\* It is interrupted, or fails, or the user's name is left empty: what is committed stays,
\* and a second run of it, or of setup.sh, finds a database and does nothing.
BootAbort ==
    /\ booting
    /\ booting' = FALSE
    /\ UNCHANGED <<released, effects, stamps, stage, todo, early, late>>

\* "Remove it manually to start over."
RemoveDb ==
    /\ ~booting /\ ~StageAt(1) /\ ~StageAt(6)
    /\ Running = {}
    /\ effects' = [m \in Migrations |-> 0]
    /\ stamps' = {}
    /\ stage' = Stages[1]
    /\ early' = FALSE /\ late' = {}
    /\ UNCHANGED <<released, booting, todo>>

(***************************************************************************)
(* migrate.py                                                              *)
(***************************************************************************)

\* main reads which migrations are applied, and takes the others in order.
MigrateStart(r) ==
    /\ ~StageAt(1)
    /\ Due(r) = {}
    /\ todo' = [todo EXCEPT ![r] = released \ stamps]
    /\ early' = (early \/ StageAt(2) \/ StageAt(3))
    /\ UNCHANGED <<released, effects, stamps, stage, booting, late>>

\* A mutant: the stamp is written with INSERT OR IGNORE.
SucceedsTwice(m) == m \notin Failing /\ (effects[m] = 0 \/ m \in DataOnly)

\* The statements of m and its stamp, which is a primary key, succeed together.
Succeeds(m) == m \notin Failing /\ m \notin stamps /\ (effects[m] = 0 \/ m \in DataOnly)

\* A mutant: a failure is passed over.
AfterFailureGoOn(due, m) == due \ {m}

\* What is left after a failure: it halts.
AfterFailure(due, m) == {}

\* The earliest of what is left.
Earliest(due) == {m \in due : \A d \in due : m <= d}

MigrateOne(r) ==
    /\ \E m \in Earliest(Due(r)) :
          IF Succeeds(m)
          THEN /\ effects' = [effects EXCEPT ![m] = @ + 1]
               /\ stamps' = stamps \cup {m}
               /\ todo' = [todo EXCEPT ![r] = @ \ {m}]
          ELSE /\ todo' = [todo EXCEPT ![r] = AfterFailure(@, m)]
               /\ UNCHANGED <<effects, stamps>>
    /\ UNCHANGED <<released, stage, booting, early, late>>

\* The run is killed; SQLite rolls its open transaction back.
MigrateDie(r) ==
    /\ Due(r) # {}
    /\ todo' = [todo EXCEPT ![r] = {}]
    /\ UNCHANGED <<released, effects, stamps, stage, booting, early, late>>

\* A new release, whose number may come before one that is applied already.
Release(m) ==
    /\ m \notin released
    /\ released' = released \cup {m}
    /\ late' = IF \E n \in stamps \cup UNION {Due(r) : r \in Runners} : n > m
               THEN late \cup {m} ELSE late
    /\ early' = (early \/ (booting /\ (StageAt(2) \/ StageAt(3))))
    /\ UNCHANGED <<effects, stamps, stage, booting, todo>>

SchemaInit ==
    /\ released = Shipped
    /\ effects = [m \in Migrations |-> 0]
    /\ stamps = {}
    /\ stage = Stages[1]
    /\ booting = FALSE
    /\ todo = [r \in Runners |-> {}]
    /\ early = FALSE /\ late = {}

\* The steps on a database that stays.
SchemaStep ==
    \/ BootOpen \/ BootSchema \/ BootStamp \/ BootSeed \/ BootAbort
    \/ \E r \in Runners : MigrateStart(r) \/ MigrateOne(r) \/ MigrateDie(r)
    \/ \E m \in Migrations : Release(m)

SchemaSpec == SchemaInit /\ [][SchemaStep \/ RemoveDb]_schemaVars

(***************************************************************************)
(* Properties                                                              *)
(***************************************************************************)

\* "Applied in order, once each": once stamped, a database has had the effect of
\* exactly the migrations its stamps name, each once, though a bootstrap may stop
\* anywhere and runs of migrate.py that read the stamps side by side then have the
\* same migrations to apply.  It is false, and left out, where a run reads them before
\* bootstrap has written them, and applies again what the schema has already, or a
\* release comes just then, which bootstrap stamps though the schema has it not.
AppliedOnce ==
    ~early /\ (StageAt(4) \/ StageAt(5) \/ StageAt(6)) =>
        \A m \in Migrations : effects[m] = IF m \in stamps THEN 1 ELSE 0

\* "HALTS on the first failure": no migration is applied over an earlier one
\* that is pending, unless that one was released after it was due.
AppliedInOrder ==
    \A m \in stamps : \A n \in released \ (stamps \cup late) : m < n
=============================================================================
