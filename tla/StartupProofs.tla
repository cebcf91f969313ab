---------------------------- MODULE StartupProofs ---------------------------
(***************************************************************************)
(* What module Schema promises holds for any migrations, releases and      *)
(* number of runs of migrate.py, and for the system that module Startup    *)
(* composes of it and the catalogue.  Then, what users may rely on of the  *)
(* registry of models, which other scripts that start with the system      *)
(* write to: module ModelRegistry, which shares no state with Startup.     *)
(***************************************************************************)
EXTENDS Startup, ModelRegistry, TLAPS

SchemaTypes ==
    /\ released \subseteq Migrations
    /\ effects \in [Migrations -> Nat]
    /\ stamps \subseteq released
    /\ stage \in {"none", "partial", "schema", "stamped", "seeded", "done"}
    /\ booting \in BOOLEAN /\ early \in BOOLEAN
    /\ todo \in [Runners -> SUBSET released]

\* Without a file, nothing is applied and nothing runs.
NothingYet ==
    StageAt(1) => stamps = {} /\ Running = {} /\ ~booting

\* Before its stamps no run has met the schema, which holds the released migrations
\* once it is whole.
Unstamped ==
    ~early /\ (StageAt(2) \/ StageAt(3)) =>
        /\ Running = {} /\ stamps = {}
        /\ booting /\ StageAt(3) =>
              \A m \in Migrations : effects[m] = IF m \in released THEN 1 ELSE 0

\* What a run has still to do comes before everything else that is pending.
DueFirst ==
    \A r \in Runners : \A n \in released \ (stamps \cup late \cup Due(r)) :
        \A d \in Due(r) : d < n

IInv == SchemaTypes /\ NothingYet /\ Unstamped /\ AppliedOnce /\ DueFirst /\ AppliedInOrder

\* The stages by their names.
LEMMA StageNames ==
    /\ StageAt(1) <=> stage = "none"
    /\ StageAt(2) <=> stage = "partial"
    /\ StageAt(3) <=> stage = "schema"
    /\ StageAt(4) <=> stage = "stamped"
    /\ StageAt(5) <=> stage = "seeded"
    /\ StageAt(6) <=> stage = "done"
    /\ Stages[1] = "none" /\ Stages[2] = "partial" /\ Stages[3] = "schema"
    /\ Stages[4] = "stamped" /\ Stages[5] = "seeded" /\ Stages[6] = "done"
BY DEF StageAt, Stages

(***************************************************************************)
(* The steps                                                               *)
(***************************************************************************)

LEMMA Initially == SchemaInit => IInv
<1> SUFFICES ASSUME SchemaInit PROVE IInv
  OBVIOUS
<1>1. stage = "none"  BY StageNames DEF SchemaInit
<1>2. SchemaTypes  BY <1>1, SchemaAssumption DEF SchemaInit, SchemaTypes
<1>3. \A r \in Runners : Due(r) = {}  BY DEF SchemaInit, Due
<1> QED
  BY <1>1, <1>2, <1>3, StageNames
  DEF SchemaInit, IInv, NothingYet, Unstamped, AppliedOnce, DueFirst, AppliedInOrder, Running

LEMMA BootOpenKeeps == ASSUME IInv, BootOpen PROVE IInv'
<1>1. /\ stage = "none" /\ stage' = "partial" /\ stamps' = {}
      /\ \A r \in Runners : Due(r)' = {}
  BY StageNames DEF IInv, NothingYet, BootOpen, Running, Due
<1>2. effects' \in [Migrations -> Nat]  BY DEF BootOpen
<1>3. SchemaTypes'  BY <1>1, <1>2 DEF IInv, SchemaTypes, BootOpen
<1>4. NothingYet' /\ AppliedOnce'  BY <1>1 DEF NothingYet, AppliedOnce, StageAt, Stages
<1>5. Unstamped'  BY <1>1 DEF Unstamped, StageAt, Stages, Running
<1>6. DueFirst' /\ AppliedInOrder'  BY <1>1 DEF DueFirst, AppliedInOrder
<1> QED  BY <1>3, <1>4, <1>5, <1>6 DEF IInv

LEMMA BootSchemaKeeps == ASSUME IInv, BootSchema PROVE IInv'
<1>1. /\ stage = "partial" /\ stage' = "schema"
      /\ UNCHANGED <<released, stamps, booting, todo, early, late>>
  BY StageNames DEF BootSchema
<1>2. effects' = [m \in Migrations |->
          (IF m \in released THEN 1 ELSE 0) + (IF m \in stamps THEN 1 ELSE 0)]
  BY DEF BootSchema
<1>3. SchemaTypes'
  <2>1. effects' \in [Migrations -> Nat]  BY <1>2
  <2> QED  BY <1>1, <2>1 DEF IInv, SchemaTypes
<1>4. NothingYet' /\ AppliedOnce'  BY <1>1 DEF NothingYet, AppliedOnce, StageAt, Stages
<1>5. Unstamped'
  <2>1. ~early => Running = {} /\ stamps = {}
    BY <1>1, StageNames DEF IInv, Unstamped
  <2>2. Running' = Running  BY <1>1 DEF Running, Due
  <2>3. stamps = {} => \A m \in Migrations : effects'[m] = IF m \in released THEN 1 ELSE 0
    BY <1>2
  <2> QED  BY <1>1, <2>1, <2>2, <2>3 DEF Unstamped
<1>6. DueFirst' /\ AppliedInOrder'  BY <1>1 DEF IInv, DueFirst, AppliedInOrder, Due
<1> QED  BY <1>3, <1>4, <1>5, <1>6 DEF IInv

LEMMA BootStampKeeps == ASSUME IInv, BootStamp PROVE IInv'
<1>1. stage = "schema" /\ stage' = "stamped" /\ booting /\ stamps' = released /\ released' = released
  BY StageNames DEF IInv, SchemaTypes, BootStamp
<1>2. SchemaTypes'  BY <1>1 DEF IInv, SchemaTypes, BootStamp
<1>3. NothingYet' /\ Unstamped'  BY <1>1 DEF NothingYet, Unstamped, StageAt, Stages
<1>4. AppliedOnce'  BY <1>1, StageNames DEF IInv, Unstamped, AppliedOnce, BootStamp
<1>5. DueFirst' /\ AppliedInOrder'  BY <1>1 DEF DueFirst, AppliedInOrder
<1> QED  BY <1>2, <1>3, <1>4, <1>5 DEF IInv

LEMMA BootSeedKeeps == ASSUME IInv, BootSeed PROVE IInv'
<1>1. \/ stage = "stamped" /\ stage' = "seeded"
      \/ stage = "seeded" /\ stage' = "done"
  BY StageNames DEF BootSeed, StageAt
<1>2. UNCHANGED <<released, effects, stamps, todo, early, late>> /\ booting' \in BOOLEAN
  BY DEF BootSeed
<1>3. SchemaTypes'  BY <1>1, <1>2 DEF IInv, SchemaTypes
<1>4. NothingYet' /\ Unstamped'  BY <1>1 DEF NothingYet, Unstamped, StageAt, Stages
<1>5. AppliedOnce'  BY <1>1, <1>2 DEF IInv, AppliedOnce, StageAt, Stages
<1>6. DueFirst' /\ AppliedInOrder'  BY <1>2 DEF IInv, DueFirst, AppliedInOrder, Due
<1> QED  BY <1>3, <1>4, <1>5, <1>6 DEF IInv

LEMMA BootAbortKeeps == ASSUME IInv, BootAbort PROVE IInv'
<1>1. UNCHANGED <<released, effects, stamps, stage, todo, early, late>> /\ booting' = FALSE
  BY DEF BootAbort
<1>2. SchemaTypes'  BY <1>1 DEF IInv, SchemaTypes
<1>3. NothingYet' /\ Unstamped' /\ AppliedOnce'
  BY <1>1 DEF IInv, NothingYet, Unstamped, AppliedOnce, StageAt, Running, Due
<1>4. DueFirst' /\ AppliedInOrder'  BY <1>1 DEF IInv, DueFirst, AppliedInOrder, Due
<1> QED  BY <1>2, <1>3, <1>4 DEF IInv

LEMMA RemoveDbKeeps == ASSUME IInv, RemoveDb PROVE IInv'
<1>1. /\ stage' = "none" /\ stamps' = {} /\ ~booting'
      /\ \A r \in Runners : Due(r)' = {}
  BY StageNames DEF RemoveDb, Running, Due
<1>2. SchemaTypes'  BY <1>1 DEF IInv, SchemaTypes, RemoveDb
<1>3. NothingYet' /\ Unstamped' /\ AppliedOnce'
  BY <1>1 DEF NothingYet, Unstamped, AppliedOnce, StageAt, Stages, Running
<1>4. DueFirst' /\ AppliedInOrder'  BY <1>1 DEF DueFirst, AppliedInOrder
<1> QED  BY <1>2, <1>3, <1>4 DEF IInv

LEMMA MigrateStartKeeps == ASSUME IInv, NEW r \in Runners, MigrateStart(r) PROVE IInv'
<1>1. /\ ~StageAt(1) /\ UNCHANGED <<released, effects, stamps, stage, booting, late>>
      /\ early' = (early \/ StageAt(2) \/ StageAt(3))
  BY DEF MigrateStart
<1>2. /\ Due(r)' = released \ stamps
      /\ \A q \in Runners \ {r} : Due(q)' = Due(q)
  BY DEF MigrateStart, Due, IInv, SchemaTypes
<1>3. SchemaTypes'  BY <1>1, StageNames DEF IInv, SchemaTypes, MigrateStart
<1>4. NothingYet' /\ Unstamped' /\ AppliedOnce'
  BY <1>1 DEF IInv, NothingYet, Unstamped, AppliedOnce, StageAt
<1>5. DueFirst' /\ AppliedInOrder'
  BY <1>1, <1>2 DEF IInv, DueFirst, AppliedInOrder
<1> QED  BY <1>3, <1>4, <1>5 DEF IInv

LEMMA MigrateDieKeeps == ASSUME IInv, NEW r \in Runners, MigrateDie(r) PROVE IInv'
<1>1. UNCHANGED <<released, effects, stamps, stage, booting, early, late>>
  BY DEF MigrateDie
<1>2. Due(r)' = {} /\ \A q \in Runners \ {r} : Due(q)' = Due(q)
  BY DEF MigrateDie, Due, IInv, SchemaTypes
<1>3. SchemaTypes'  BY <1>1 DEF IInv, SchemaTypes, MigrateDie
<1>4. NothingYet' /\ Unstamped' /\ AppliedOnce'
  BY <1>1, <1>2 DEF IInv, NothingYet, Unstamped, AppliedOnce, StageAt, Running
<1>5. DueFirst' /\ AppliedInOrder'
  BY <1>1, <1>2 DEF IInv, DueFirst, AppliedInOrder
<1> QED  BY <1>3, <1>4, <1>5 DEF IInv

\* A run that has something to do meets no schema without stamps, unless early.
LEMMA RunsLate == ASSUME IInv, NEW r \in Runners, Due(r) # {}
                  PROVE ~StageAt(1) /\ (early \/ ~(StageAt(2) \/ StageAt(3)))
BY DEF IInv, NothingYet, Unstamped, Running

LEMMA MigrateOneKeeps == ASSUME IInv, NEW r \in Runners, MigrateOne(r) PROVE IInv'
<1>1. UNCHANGED <<released, stage, booting, early, late>>
  BY DEF MigrateOne
<1>2. PICK m \in Earliest(Due(r)) :
          IF Succeeds(m)
          THEN /\ effects' = [effects EXCEPT ![m] = @ + 1]
               /\ stamps' = stamps \cup {m}
               /\ todo' = [todo EXCEPT ![r] = @ \ {m}]
          ELSE /\ todo' = [todo EXCEPT ![r] = AfterFailure(@, m)]
               /\ UNCHANGED <<effects, stamps>>
  BY DEF MigrateOne
<1>3. m \in Due(r) /\ \A d \in Due(r) : m <= d
  BY DEF Earliest
<1>6. m \in released /\ m \in Nat /\ m \in Migrations
  BY <1>3, SchemaAssumption DEF IInv, SchemaTypes, Due
<1>4. CASE Succeeds(m)
  <2>1. /\ effects' = [effects EXCEPT ![m] = @ + 1]
        /\ stamps' = stamps \cup {m} /\ m \notin stamps
        /\ todo' = [todo EXCEPT ![r] = @ \ {m}]
    BY <1>2, <1>4 DEF Succeeds
  <2>2. Due(r)' = Due(r) \ {m} /\ \A q \in Runners \ {r} : Due(q)' = Due(q)
    BY <2>1 DEF Due, IInv, SchemaTypes
  <2>3. SchemaTypes'
    <3>1. effects' \in [Migrations -> Nat]  BY <1>6, <2>1 DEF IInv, SchemaTypes
    <3>2. todo' \in [Runners -> SUBSET released]  BY <2>1 DEF IInv, SchemaTypes
    <3>3. stamps' \subseteq released  BY <1>6, <2>1 DEF IInv, SchemaTypes
    <3> QED  BY <1>1, <3>1, <3>2, <3>3 DEF IInv, SchemaTypes
  <2>4. NothingYet' /\ Unstamped'
    BY <1>1, <1>3, RunsLate DEF NothingYet, Unstamped, StageAt
  <2>5. AppliedOnce'
    BY <1>1, <1>6, <2>1 DEF IInv, SchemaTypes, AppliedOnce, StageAt
  <2>6. DueFirst'  BY <1>1, <2>1, <2>2 DEF IInv, DueFirst
  <2>7. AppliedInOrder'
    <3> SUFFICES ASSUME NEW n \in released \ (stamps \cup {m} \cup late)
                 PROVE  m < n
      BY <1>1, <2>1 DEF IInv, AppliedInOrder
    <3>1. n \in Nat  BY SchemaAssumption DEF IInv, SchemaTypes
    <3>2. CASE n \in Due(r)  BY <1>3, <1>6, <3>1, <3>2
    <3>3. CASE n \notin Due(r)  BY <1>3, <3>3 DEF IInv, DueFirst
    <3> QED  BY <3>2, <3>3
  <2> QED  BY <2>3, <2>4, <2>5, <2>6, <2>7 DEF IInv
<1>5. CASE ~Succeeds(m)
  <2>1. UNCHANGED <<effects, stamps>> /\ todo' = [todo EXCEPT ![r] = {}]
    BY <1>2, <1>5 DEF AfterFailure
  <2>2. Due(r)' = {} /\ \A q \in Runners \ {r} : Due(q)' = Due(q)
    BY <2>1 DEF Due, IInv, SchemaTypes
  <2>3. SchemaTypes'  BY <1>1, <2>1 DEF IInv, SchemaTypes
  <2>4. NothingYet' /\ Unstamped' /\ AppliedOnce'
    BY <1>1, <2>1, <2>2 DEF IInv, NothingYet, Unstamped, AppliedOnce, StageAt, Running
  <2>5. DueFirst' /\ AppliedInOrder'
    BY <1>1, <2>1, <2>2 DEF IInv, DueFirst, AppliedInOrder
  <2> QED  BY <2>3, <2>4, <2>5 DEF IInv
<1> QED  BY <1>4, <1>5

LEMMA ReleaseKeeps == ASSUME IInv, NEW m \in Migrations, Release(m) PROVE IInv'
<1>1. /\ m \notin released /\ released' = released \cup {m}
      /\ UNCHANGED <<effects, stamps, stage, booting, todo>>
      /\ early' = (early \/ (booting /\ (StageAt(2) \/ StageAt(3))))
  BY DEF Release
<1>2. late' = late \/ late' = late \cup {m}  BY DEF Release
<1>3. m \notin late' => \A d \in stamps \cup UNION {Due(r) : r \in Runners} : ~(d > m)
  BY DEF Release
<1>4. SchemaTypes'  BY <1>1 DEF IInv, SchemaTypes, StageAt
<1>5. NothingYet' /\ Unstamped' /\ AppliedOnce'
  BY <1>1 DEF IInv, SchemaTypes, NothingYet, Unstamped, AppliedOnce, StageAt, Running, Due
<1>6. \A d \in released : d \in Nat /\ d # m  BY <1>1, SchemaAssumption DEF IInv, SchemaTypes
<1>7. m \in Nat  BY SchemaAssumption
<1>8. m \notin late' => \A d \in stamps \cup UNION {Due(r) : r \in Runners} : d < m
  <2>1. \A r \in Runners : Due(r) \subseteq released  BY DEF IInv, SchemaTypes, Due
  <2>2. stamps \subseteq released  BY DEF IInv, SchemaTypes
  <2> QED  BY <1>3, <1>6, <1>7, <2>1, <2>2
<1>9. DueFirst'
  <2> SUFFICES ASSUME NEW r \in Runners, NEW n \in (released \cup {m}) \ (stamps \cup late' \cup Due(r)),
                      NEW d \in Due(r)
               PROVE  d < n
    BY <1>1 DEF DueFirst, Due
  <2>1. CASE n = m  BY <1>8, <2>1
  <2>2. CASE n # m  BY <1>2, <2>2 DEF IInv, DueFirst
  <2> QED  BY <2>1, <2>2
<1>10. AppliedInOrder'
  <2> SUFFICES ASSUME NEW d \in stamps, NEW n \in (released \cup {m}) \ (stamps \cup late')
               PROVE  d < n
    BY <1>1 DEF AppliedInOrder
  <2>1. CASE n = m  BY <1>8, <2>1
  <2>2. CASE n # m  BY <1>2, <2>2 DEF IInv, AppliedInOrder
  <2> QED  BY <2>1, <2>2
<1> QED  BY <1>4, <1>5, <1>9, <1>10 DEF IInv

(***************************************************************************)
(* The theorems                                                            *)
(***************************************************************************)

\* The invariant is kept by every step of bootstrap.py, migrate.py, a release or
\* the removal of the database.
LEMMA StepKeeps == ASSUME IInv, [SchemaStep \/ RemoveDb]_schemaVars PROVE IInv'
<1>1. CASE BootOpen \/ BootSchema  BY <1>1, BootOpenKeeps, BootSchemaKeeps
<1>2. CASE BootStamp  BY <1>2, BootStampKeeps
<1>3. CASE BootSeed  BY <1>3, BootSeedKeeps
<1>4. CASE BootAbort  BY <1>4, BootAbortKeeps
<1>5. CASE RemoveDb  BY <1>5, RemoveDbKeeps
<1>6. CASE \E r \in Runners : MigrateStart(r) \/ MigrateOne(r) \/ MigrateDie(r)
  BY <1>6, MigrateStartKeeps, MigrateOneKeeps, MigrateDieKeeps
<1>7. CASE \E m \in Migrations : Release(m)  BY <1>7, ReleaseKeeps
<1>8. CASE UNCHANGED schemaVars
  BY <1>8 DEF schemaVars, IInv, SchemaTypes, NothingYet, Unstamped, AppliedOnce, DueFirst,
              AppliedInOrder, StageAt, Running, Due
<1> QED  BY <1>1, <1>2, <1>3, <1>4, <1>5, <1>6, <1>7, <1>8 DEF SchemaStep

\* The strengthened invariant holds in every state of a database.
THEOREM SchemaInductive == SchemaSpec => []IInv
<1>1. IInv /\ [SchemaStep \/ RemoveDb]_schemaVars => IInv'  BY StepKeeps
<1> QED  BY Initially, <1>1, PTL DEF SchemaSpec

\* Seen from the database, the composed system does what Schema does: the runs
\* of dr_sync and changes of the checkout leave it alone.
THEOREM StartupKeepsSchema == Spec => SchemaSpec
<1>1. Init => SchemaInit  BY DEF Init
<1>2. [Next]_vars => [SchemaStep \/ RemoveDb]_schemaVars
  <2> SUFFICES ASSUME [Next]_vars PROVE [SchemaStep \/ RemoveDb]_schemaVars
    OBVIOUS
  <2>1. CASE SchemaStep  BY <2>1
  <2>2. CASE Remove  BY <2>2 DEF Remove
  <2>3. CASE CatalogueStep  BY <2>3 DEF CatalogueStep
  <2>4. CASE \E t \in DOMAIN Entries \ {"db"} : \E e \in Entries[t] : Change(t, e)
    BY <2>4 DEF Change
  <2>5. CASE UNCHANGED vars  BY <2>5 DEF vars
  <2> QED  BY <2>1, <2>2, <2>3, <2>4, <2>5 DEF Next
<1> QED  BY <1>1, <1>2, PTL DEF Spec, SchemaSpec

\* Applied once each: a stamped database has had the effect of exactly the
\* migrations its stamps name (bootstrap.py, migrate.py).
THEOREM OnceEach == Spec => []AppliedOnce
<1>1. IInv => AppliedOnce  BY DEF IInv
<1> QED  BY SchemaInductive, StartupKeepsSchema, <1>1, PTL

\* Applied in order: none before an earlier pending one, unless that was released
\* late (migrate.py).
THEOREM InOrder == Spec => []AppliedInOrder
<1>1. IInv => AppliedInOrder  BY DEF IInv
<1> QED  BY SchemaInductive, StartupKeepsSchema, <1>1, PTL

(***************************************************************************)
(* The registry of models                                                  *)
(***************************************************************************)

ModelRow == [provider : Providers \cup {"none", "local"}, active : BOOLEAN,
             tools : {0, 1, Null}, accepts : {0, 1, Null}, context : {0, 1, Null},
             verified : BOOLEAN]

RegistryTypes ==
    /\ models \in [Names -> ModelRow]
    /\ installed \subseteq Locals
    /\ refreshes \in [Refreshers -> [provider : Providers \cup {"none"},
                                     seen : SUBSET Listed]]

\* A remote row belongs to the provider whose catalogue has its name, never to Ollama.
Homed ==
    \A m \in Names \ Locals :
        /\ models[m].provider # "local"
        /\ \A p \in Providers : models[m].provider = p => m \in Catalogue[p]

\* What a refresh has fetched is of its provider's catalogue, and the names that it
\* lacks are noted, also against a PATCH that came after it: it has yet to write.
LacksNoted ==
    \A r \in Refreshers :
        /\ refreshes[r] # Idle => refreshes[r].provider # "none"
        /\ \A p \in Providers : refreshes[r].provider = p =>
              /\ refreshes[r].seen \subseteq Catalogue[p]
              /\ Catalogue[p] \ refreshes[r].seen \subseteq unlisted

\* ChoiceKept, of names without a row too.
Chosen ==
    \A m \in Names \ Locals :
        /\ models[m].active => m \in wanted
        /\ m \in wanted /\ ~models[m].active => models[m].verified /\ m \in unlisted

\* Whatever its probe may say later, a model that was moved is written down as one
\* that does not accept the substrate's prompt.
MovedRefused == \A m \in moved \cap (Locals \ Listed) : models[m].accepts = 0

RegistryInv == RegistryTypes /\ Homed /\ LacksNoted /\ Chosen /\ MovedRefused

\* Nothing is a provider's name that stands for no provider or for Ollama.
LEMMA NoProvider ==
    /\ "none" \notin Providers
    /\ "local" \notin Providers
    /\ 0 # Null /\ 1 # Null
BY RegistryAssumption

\* The seeded rows of db_init, and none else.
LEMMA RegistryInitially ==
    ASSUME RegistryInit
    PROVE  RegistryInv
<1> DEFINE home(m) == CHOOSE p \in Providers : m \in Catalogue[p]
<1>1. ASSUME NEW m \in HandSeeded
      PROVE  home(m) \in Providers /\ m \in Catalogue[home(m)] /\ m \notin Locals
  <2>1. m \in Listed /\ m \notin Locals
    BY <1>1, RegistryAssumption
  <2>2. \E p \in Providers : m \in Catalogue[p]
    BY <2>1 DEF Listed
  <2> QED  BY <2>1, <2>2
<1>2. models = [m \in Names |->
          IF m \in HandSeeded
          THEN [provider |-> home(m), active |-> TRUE, tools |-> Null, accepts |-> Null,
                context |-> Null, verified |-> FALSE]
          ELSE [provider |-> "none", active |-> FALSE, tools |-> Null, accepts |-> Null,
                context |-> Null, verified |-> FALSE]]
  BY DEF RegistryInit, NoRow
<1>3. /\ installed = {} /\ wanted = HandSeeded /\ unlisted = {} /\ moved = {}
      /\ refreshes = [r \in Refreshers |-> [provider |-> "none", seen |-> {}]]
  BY DEF RegistryInit, Idle
<1> HIDE DEF home
<1>4. RegistryTypes  BY <1>1, <1>2, <1>3 DEF RegistryTypes, ModelRow
<1>5. Homed
  <2> SUFFICES ASSUME NEW m \in Names
               PROVE  /\ models[m].provider # "local"
                      /\ \A p \in Providers : models[m].provider = p => m \in Catalogue[p]
    BY DEF Homed
  <2> QED  BY <1>1, <1>2, NoProvider
<1>6. LacksNoted  BY <1>3, NoProvider DEF LacksNoted, Idle
<1>7. Chosen  BY <1>2, <1>3 DEF Chosen
<1>8. MovedRefused  BY <1>3 DEF MovedRefused
<1> QED  BY <1>4, <1>5, <1>6, <1>7, <1>8 DEF RegistryInv

\* A classification that is written stays.
LEMMA StickyStays ==
    ASSUME NEW prior, NEW fresh, prior # Null
    PROVE  Sticky(prior, fresh) = prior
BY DEF Sticky

\* What a sync makes of a row: of a remote name nothing but a sweep of its local row.
LEMMA SyncRows ==
    ASSUME RegistryTypes, SyncLocal
    PROVE  /\ models' \in [Names -> ModelRow]
           /\ \A m \in Names \ Locals :
                 /\ models'[m].provider = models[m].provider
                 /\ models'[m].verified = models[m].verified
                 /\ models'[m].active # models[m].active =>
                       models[m].active /\ models[m].provider = "local"
           /\ \A m \in Names : models[m].accepts = 0 => models'[m].accepts = 0
<1>1. PICK flaked \in SUBSET installed :
        models' = [m \in Names |->
                      IF m \in installed THEN Promoted(m, m \in flaked)
                      ELSE Demoted(m)]
  BY DEF SyncLocal
<1>2. ASSUME NEW m \in Names
      PROVE  /\ models[m] \in ModelRow
             /\ models'[m] \in ModelRow
             /\ models[m].accepts = 0 => models'[m].accepts = 0
             /\ m \notin Locals =>
                   /\ models'[m].provider = models[m].provider
                   /\ models'[m].verified = models[m].verified
                   /\ models'[m].active # models[m].active =>
                         models[m].active /\ models[m].provider = "local"
  <2>0. models[m] \in ModelRow  BY <1>2 DEF RegistryTypes
  <2>1. CASE m \in installed
    <3> DEFINE old == models[m]
               tools == Sticky(old.tools, IF m \in flaked THEN Null
                                                   ELSE Bool(m \in Tooled))
               accepts == Sticky(old.accepts, IF m \in flaked THEN Null
                                                       ELSE Bool(m \in Accepting))
               context == IF m \in flaked THEN Null ELSE Bool(m \in Roomy)
    <3>1. models'[m] = [old EXCEPT !.provider = "local", !.tools = tools,
                                   !.accepts = accepts, !.context = context,
                                   !.active = (tools = 1 /\ accepts = 1)]
      BY <1>1, <2>1 DEF Promoted
    <3>2. tools \in {0, 1, Null} /\ accepts \in {0, 1, Null} /\ context \in {0, 1, Null}
      BY <2>0 DEF ModelRow, Sticky, Bool
    <3>3. old.accepts = 0 => accepts = 0
      BY NoProvider, StickyStays
    <3>4. m \in Locals  BY <2>1 DEF RegistryTypes
    <3> HIDE DEF tools, accepts, context
    <3> QED  BY <2>0, <3>1, <3>2, <3>3, <3>4 DEF ModelRow
  <2>2. CASE m \notin installed
    <3>1. models'[m] = IF models[m].provider = "local"
                       THEN [models[m] EXCEPT !.active = FALSE] ELSE models[m]
      BY <1>1, <2>2 DEF Demoted
    <3> QED  BY <2>0, <3>1 DEF ModelRow
  <2> QED  BY <2>1, <2>2
<1> QED  BY <1>1, <1>2

\* Every step of the watcher, of a refresh and of users keeps the invariant.
LEMMA SyncKeeps ==
    ASSUME RegistryInv, SyncLocal
    PROVE  RegistryInv'
<1>1. RegistryTypes  BY DEF RegistryInv
<1>2. UNCHANGED <<installed, refreshes, wanted, unlisted, moved>>
  BY DEF SyncLocal
<1>3. RegistryTypes'  BY <1>1, <1>2, SyncRows DEF RegistryTypes
<1>4. Homed' /\ LacksNoted'
  BY <1>1, <1>2, SyncRows DEF RegistryInv, Homed, LacksNoted
<1>5. Chosen'
  <2> SUFFICES ASSUME NEW m \in Names \ Locals
               PROVE  /\ models'[m].active => m \in wanted
                      /\ m \in wanted /\ ~models'[m].active =>
                            models'[m].verified /\ m \in unlisted
    BY <1>2 DEF Chosen
  <2>1. UNCHANGED <<models[m].active, models[m].verified>>
    BY <1>1, SyncRows DEF RegistryInv, Homed
  <2> QED  BY <2>1 DEF RegistryInv, Chosen
<1>6. MovedRefused'
  BY <1>1, <1>2, SyncRows DEF RegistryInv, MovedRefused, Names
<1> QED  BY <1>3, <1>4, <1>5, <1>6 DEF RegistryInv

LEMMA FetchKeeps ==
    ASSUME RegistryInv,
           NEW r \in Refreshers, NEW p \in Providers, Fetch(r, p)
    PROVE  RegistryInv'
<1>1. PICK seen \in Offered(p) :
        /\ refreshes' = [refreshes EXCEPT ![r] = [provider |-> p, seen |-> seen]]
        /\ unlisted' = unlisted \cup (Catalogue[p] \ seen)
  BY DEF Fetch
<1>2. UNCHANGED <<models, installed, wanted, moved>>  BY DEF Fetch
<1>3. seen \subseteq Catalogue[p]
  BY DEF Offered, Survivors
<1>4. RegistryTypes'
  BY <1>1, <1>2, <1>3 DEF RegistryInv, RegistryTypes, Listed
<1>5. LacksNoted'
  <2> SUFFICES ASSUME NEW k \in Refreshers
               PROVE  /\ refreshes'[k] # Idle => refreshes'[k].provider # "none"
                      /\ \A q \in Providers : refreshes'[k].provider = q =>
                            /\ refreshes'[k].seen \subseteq Catalogue[q]
                            /\ Catalogue[q] \ refreshes'[k].seen \subseteq unlisted'
    BY DEF LacksNoted
  <2>1. CASE k = r
    <3>1. refreshes'[k] = [provider |-> p, seen |-> seen]
      BY <1>1, <2>1 DEF RegistryInv, RegistryTypes
    <3> QED  BY <1>1, <1>3, <3>1, NoProvider
  <2>2. CASE k # r
    <3>1. refreshes'[k] = refreshes[k]
      BY <1>1, <2>2 DEF RegistryInv, RegistryTypes
    <3> QED  BY <1>1, <3>1 DEF RegistryInv, LacksNoted
  <2> QED  BY <2>1, <2>2
<1>6. Homed' /\ Chosen' /\ MovedRefused'
  BY <1>1, <1>2 DEF RegistryInv, Homed, Chosen, MovedRefused
<1> QED  BY <1>4, <1>5, <1>6 DEF RegistryInv

LEMMA RefreshWriteKeeps ==
    ASSUME RegistryInv,
           NEW r \in Refreshers, RefreshWrite(r)
    PROVE  RegistryInv'
<1> DEFINE p == refreshes[r].provider
           seen == refreshes[r].seen
<1>0. RegistryTypes /\ Homed /\ LacksNoted /\ Chosen /\ MovedRefused  BY DEF RegistryInv
<1>1. /\ refreshes[r] # Idle
      /\ models' = [m \in Names |-> IF m \in seen THEN Refreshed(m, p)
                                             ELSE Swept(m, p)]
      /\ refreshes' = [refreshes EXCEPT ![r] = Idle]
      /\ UNCHANGED <<installed, wanted, unlisted, moved>>
  BY DEF RefreshWrite
<1>2. /\ p \in Providers
      /\ seen \subseteq Listed
      /\ seen \subseteq Catalogue[p]
      /\ Catalogue[p] \ seen \subseteq unlisted
  BY <1>0, <1>1 DEF RegistryTypes, LacksNoted
<1> HIDE DEF p, seen
<1>3. ASSUME NEW m \in Names
      PROVE  models[m] \in ModelRow /\ models'[m] \in ModelRow
  <2>1. models[m] \in ModelRow  BY <1>0 DEF RegistryTypes
  <2>2. Refreshed(m, p) \in ModelRow
    BY <1>2, <2>1 DEF ModelRow, Refreshed
  <2>3. Swept(m, p) \in ModelRow
    BY <2>1 DEF ModelRow, Swept
  <2> QED  BY <1>1, <2>1, <2>2, <2>3
<1>4. RegistryTypes'
  <2>1. models' \in [Names -> ModelRow]  BY <1>1, <1>3
  <2> QED  BY <1>0, <1>1, <2>1 DEF RegistryTypes, Idle
<1>5. LacksNoted'
  BY <1>0, <1>1, NoProvider DEF LacksNoted, RegistryTypes, Idle
<1>6. Homed'
  BY <1>0, <1>1, <1>2, <1>3, NoProvider DEF Homed, ModelRow, Refreshed, Swept
<1>7. Chosen'
  <2> SUFFICES ASSUME NEW m \in Names \ Locals
               PROVE  /\ models'[m].active => m \in wanted
                      /\ m \in wanted /\ ~models'[m].active =>
                            models'[m].verified /\ m \in unlisted
    BY <1>1 DEF Chosen
  <2>1. models[m] \in ModelRow /\ models'[m] \in ModelRow  BY <1>3
  <2>2. CASE m \in seen
    <3>1. models'[m].active = models[m].active /\ models'[m].verified
      BY <1>1, <2>2 DEF Refreshed
    <3> QED  BY <1>0, <3>1 DEF Chosen
  <2>3. CASE m \notin seen
    <3>1. models'[m] = Swept(m, p)  BY <1>1, <2>3
    <3>2. CASE models[m].provider = p /\ models[m].verified
      <4>1. ~models'[m].active /\ models'[m].verified
        BY <2>1, <3>1, <3>2 DEF Swept, ModelRow
      <4>2. m \in Catalogue[p]
        BY <1>0, <1>2, <3>2 DEF Homed
      <4> QED  BY <1>2, <2>3, <4>1, <4>2
    <3>3. CASE ~(models[m].provider = p /\ models[m].verified)
      BY <1>0, <3>1, <3>3 DEF Swept, Chosen
    <3> QED  BY <3>2, <3>3
  <2> QED  BY <2>2, <2>3
<1>8. MovedRefused'
  BY <1>0, <1>1, <1>2, <1>3 DEF MovedRefused, ModelRow, Swept, Names
<1> QED  BY <1>4, <1>5, <1>6, <1>7, <1>8 DEF RegistryInv

LEMMA SetStatusKeeps ==
    ASSUME RegistryInv,
           NEW m \in Names, NEW active \in BOOLEAN, SetStatus(m, active)
    PROVE  RegistryInv'
<1>0. RegistryTypes /\ Homed /\ LacksNoted /\ Chosen /\ MovedRefused  BY DEF RegistryInv
<1>1. /\ models' = [models EXCEPT ![m].active = active]
      /\ wanted' = IF active THEN wanted \cup {m} ELSE wanted \ {m}
      /\ unlisted' = unlisted \ {n \in {m} : \A r \in Refreshers :
                        \A p \in Providers : refreshes[r].provider = p =>
                            m \in refreshes[r].seen \/ m \notin Catalogue[p]}
      /\ UNCHANGED <<installed, refreshes, moved>>
  BY DEF SetStatus
<1>2. ASSUME NEW n \in Names
      PROVE  /\ models'[n] \in ModelRow
             /\ models'[n].provider = models[n].provider
             /\ models'[n].accepts = models[n].accepts
             /\ models'[n].verified = models[n].verified
             /\ models'[n].active = IF n = m THEN active ELSE models[n].active
  BY <1>0, <1>1 DEF RegistryTypes, ModelRow
<1>3. RegistryTypes'
  <2>1. models' \in [Names -> ModelRow]
    BY <1>0, <1>1, <1>2 DEF RegistryTypes
  <2> QED  BY <1>0, <1>1, <2>1 DEF RegistryTypes
<1>4. Homed'  BY <1>0, <1>2 DEF Homed
<1>5. LacksNoted'
  <2> SUFFICES ASSUME NEW r \in Refreshers, NEW p \in Providers,
                      refreshes[r].provider = p
               PROVE  Catalogue[p] \ refreshes[r].seen \subseteq unlisted'
    BY <1>0, <1>1 DEF LacksNoted
  <2> QED  BY <1>0, <1>1 DEF LacksNoted
<1>6. Chosen'
  BY <1>0, <1>1, <1>2 DEF Chosen
<1>7. MovedRefused'  BY <1>0, <1>1, <1>2 DEF MovedRefused, Names
<1> QED  BY <1>3, <1>4, <1>5, <1>6, <1>7 DEF RegistryInv

LEMMA RouteToAgentsKeeps ==
    ASSUME RegistryInv,
           NEW m \in Names, RouteToAgents(m)
    PROVE  RegistryInv'
<1>0. RegistryTypes /\ Homed /\ LacksNoted /\ Chosen /\ MovedRefused  BY DEF RegistryInv
<1>1. /\ models' = [models EXCEPT ![m].accepts = 0]
      /\ moved' = moved \cup {m}
      /\ UNCHANGED <<installed, refreshes, wanted, unlisted>>
  BY DEF RouteToAgents
<1>2. ASSUME NEW n \in Names
      PROVE  /\ models'[n] \in ModelRow
             /\ models'[n].provider = models[n].provider
             /\ models'[n].accepts = IF n = m THEN 0 ELSE models[n].accepts
             /\ models'[n].verified = models[n].verified
             /\ models'[n].active = models[n].active
  BY <1>0, <1>1 DEF RegistryTypes, ModelRow
<1>3. RegistryTypes'
  <2>1. models' \in [Names -> ModelRow]
    BY <1>0, <1>1, <1>2 DEF RegistryTypes
  <2> QED  BY <1>0, <1>1, <2>1 DEF RegistryTypes
<1>4. Homed' /\ LacksNoted'  BY <1>0, <1>1, <1>2 DEF Homed, LacksNoted
<1>5. Chosen'  BY <1>0, <1>1, <1>2 DEF Chosen
<1>6. MovedRefused'  BY <1>0, <1>1, <1>2 DEF MovedRefused, Names
<1> QED  BY <1>3, <1>4, <1>5, <1>6 DEF RegistryInv

\* The registry's invariant holds in every state, for any catalogues, models, refreshes
\* and failing probes.
THEOREM RegistryInductive == RegistrySpec => []RegistryInv
<1>1. RegistryInit => RegistryInv  BY RegistryInitially
<1>2. RegistryInv /\ [RegistryNext]_registryVars => RegistryInv'
  <2> SUFFICES ASSUME RegistryInv, [RegistryNext]_registryVars PROVE RegistryInv'
    OBVIOUS
  <2>1. CASE UNCHANGED <<models, installed, refreshes, wanted, unlisted, moved>>
    BY <2>1 DEF RegistryInv, RegistryTypes, Homed, LacksNoted, Chosen, MovedRefused
  <2>2. ASSUME WatchTick \/ WatchSyncFails \/ WatchRestart PROVE RegistryInv'
    BY <2>1, <2>2 DEF WatchTick, WatchSyncFails, WatchRestart
  <2>3. ASSUME WatchSync \/ SyncByHand PROVE RegistryInv'
    BY <2>3, SyncKeeps DEF WatchSync, SyncByHand
  <2>4. ASSUME NEW r \in Refreshers, RefreshWrite(r) PROVE RegistryInv'
    BY <2>4, RefreshWriteKeeps
  <2>5. ASSUME NEW r \in Refreshers, NEW p \in Providers, Fetch(r, p)
        PROVE  RegistryInv'
    BY <2>5, FetchKeeps
  <2>6. ASSUME NEW m \in Names, RouteToAgents(m) PROVE RegistryInv'
    BY <2>6, RouteToAgentsKeeps
  <2>7. ASSUME NEW m \in Names, NEW active \in BOOLEAN,
               SetStatus(m, active)
        PROVE  RegistryInv'
    BY <2>7, SetStatusKeeps
  <2>8. ASSUME NEW m \in Locals, Install(m) PROVE RegistryInv'
    <3>1. /\ installed' \subseteq Locals
          /\ UNCHANGED <<models, refreshes, wanted, unlisted, moved>>
      BY <2>8 DEF Install, RegistryInv, RegistryTypes
    <3> QED
      BY <3>1 DEF RegistryInv, RegistryTypes, Homed, LacksNoted, Chosen, MovedRefused
  <2>9. CASE UNCHANGED registryVars  BY <2>1, <2>9 DEF registryVars
  <2> QED  BY <2>2, <2>3, <2>4, <2>5, <2>6, <2>7, <2>8, <2>9 DEF RegistryNext
<1> QED  BY <1>1, <1>2, PTL DEF RegistrySpec

\* What users chose of remote models stays chosen, whatever catalogues list and
\* whenever refreshes write (cloud_model_sync.py, remote_model_sync.py, models.py).
THEOREM ChoicesKept == RegistrySpec => []ChoiceKept
<1>1. RegistryInv => ChoiceKept
  BY DEF RegistryInv, Chosen, ChoiceKept
<1> QED  BY <1>1, RegistryInductive, PTL

\* A local model that was moved to the agents never comes back into the picker
\* (model_sync.py).
THEOREM MovedStays == RegistrySpec => []MovedStaysOut
<1>1. RegistryInv => MovedStaysOut
  BY DEF RegistryInv, MovedRefused, MovedStaysOut, Picker
<1> QED  BY <1>1, RegistryInductive, PTL

\* The row of a model that only Ollama has is one that a sync has written.
OwnRows == \A m \in Locals \ Listed : models[m].provider \in {"none", "local"}

\* A step that rewrites no row of a model that only Ollama has, or patches it.
LEMMA RowsKept ==
    ASSUME OwnRows, MirrorsLastSync, synced' = synced, patched \subseteq patched',
           \A m \in Locals \ Listed : /\ models'[m].provider = models[m].provider
                                      /\ m \notin patched' => models'[m] = models[m]
    PROVE  OwnRows' /\ MirrorsLastSync'
BY DEF OwnRows, MirrorsLastSync, Exists

\* A sync makes every such row say what it saw.
LEMMA SyncMirrors ==
    ASSUME RegistryTypes, OwnRows, SyncLocal
    PROVE  OwnRows' /\ MirrorsLastSync'
<1>1. PICK flaked \in SUBSET installed :
        models' = [m \in Names |->
                      IF m \in installed THEN Promoted(m, m \in flaked)
                      ELSE Demoted(m)]
  BY DEF SyncLocal
<1>2. synced' = installed /\ patched' = {}  BY DEF SyncLocal
<1>3. SUFFICES ASSUME NEW m \in Locals \ Listed
      PROVE  /\ models'[m].provider \in {"none", "local"}
             /\ models'[m].provider # "none" =>
                   (models'[m].active <=>
                      m \in installed /\ models'[m].tools = 1 /\ models'[m].accepts = 1)
  BY <1>2 DEF OwnRows, MirrorsLastSync, Exists
<1>4. m \in Names /\ models[m] \in ModelRow /\ models[m].provider \in {"none", "local"}
  BY DEF RegistryTypes, OwnRows, Names
<1>5. CASE m \in installed
  <2> DEFINE tools == Sticky(models[m].tools, IF m \in flaked THEN Null ELSE Bool(m \in Tooled))
             accepts == Sticky(models[m].accepts,
                               IF m \in flaked THEN Null ELSE Bool(m \in Accepting))
             context == IF m \in flaked THEN Null ELSE Bool(m \in Roomy)
  <2>1. models'[m] = [models[m] EXCEPT !.provider = "local", !.tools = tools,
                                       !.accepts = accepts, !.context = context,
                                       !.active = (tools = 1 /\ accepts = 1)]
    BY <1>1, <1>4, <1>5 DEF Promoted
  <2> HIDE DEF tools, accepts, context
  <2> QED  BY <1>4, <1>5, <2>1 DEF ModelRow
<1>6. CASE m \notin installed
  <2>1. models'[m] = IF models[m].provider = "local"
                     THEN [models[m] EXCEPT !.active = FALSE] ELSE models[m]
    BY <1>1, <1>4, <1>6 DEF Demoted
  <2> QED  BY <1>4, <1>6, <2>1 DEF ModelRow
<1> QED  BY <1>5, <1>6

\* The local rows always say what the last sync saw (model_sync.py), whatever is
\* installed, probed, refreshed and patched, for any models and catalogues.
THEOREM RowsMirror == RegistrySpec => []MirrorsLastSync
<1> DEFINE Inv == OwnRows /\ MirrorsLastSync
<1>1. RegistryInit => Inv
  <2> SUFFICES ASSUME RegistryInit, NEW m \in Locals \ Listed
               PROVE  models[m].provider = "none"
    BY DEF OwnRows, MirrorsLastSync, Exists
  <2>1. m \in Names /\ m \notin HandSeeded  BY RegistryAssumption DEF Names
  <2> QED  BY <2>1 DEF RegistryInit, NoRow
<1>2. RegistryInv /\ Inv /\ [RegistryNext]_registryVars => Inv'
  <2> SUFFICES ASSUME RegistryInv, OwnRows, MirrorsLastSync, [RegistryNext]_registryVars
               PROVE  OwnRows' /\ MirrorsLastSync'
    OBVIOUS
  <2>1. RegistryTypes  BY DEF RegistryInv
  <2>2. ASSUME UNCHANGED <<models, synced, patched>> PROVE OwnRows' /\ MirrorsLastSync'
    BY <2>2, RowsKept
  <2>3. ASSUME WatchTick \/ WatchSyncFails \/ WatchRestart
        PROVE  OwnRows' /\ MirrorsLastSync'
    BY <2>2, <2>3 DEF WatchTick, WatchSyncFails, WatchRestart
  <2>4. ASSUME WatchSync \/ SyncByHand PROVE OwnRows' /\ MirrorsLastSync'
    BY <2>1, <2>4, SyncMirrors DEF WatchSync, SyncByHand
  <2>5. ASSUME NEW r \in Refreshers, RefreshWrite(r) PROVE OwnRows' /\ MirrorsLastSync'
    <3> DEFINE p == refreshes[r].provider
               seen == refreshes[r].seen
    <3>1. /\ models' = [m \in Names |-> IF m \in seen THEN Refreshed(m, p) ELSE Swept(m, p)]
          /\ refreshes[r] # Idle
          /\ UNCHANGED <<synced, patched>>
      BY <2>5 DEF RefreshWrite
    <3>2. seen \subseteq Listed  BY <2>1 DEF RegistryTypes
    <3>3. p \in Providers  BY <2>1, <3>1 DEF RegistryInv, RegistryTypes, LacksNoted
    <3> HIDE DEF p, seen
    <3>4. \A m \in Locals \ Listed : models'[m] = models[m]
      BY <3>1, <3>2, <3>3, NoProvider DEF Swept, OwnRows, Names
    <3> QED  BY <3>1, <3>4, RowsKept
  <2>6. ASSUME NEW r \in Refreshers, NEW p \in Providers, Fetch(r, p)
        PROVE  OwnRows' /\ MirrorsLastSync'
    BY <2>2, <2>6 DEF Fetch
  <2>7. ASSUME NEW m \in Names, RouteToAgents(m) \/ \E active \in BOOLEAN : SetStatus(m, active)
        PROVE  OwnRows' /\ MirrorsLastSync'
    <3>1. /\ synced' = synced /\ patched' = patched \cup ({m} \cap Locals)
          /\ \A n \in Names : /\ n # m => models'[n] = models[n]
                              /\ models'[n].provider = models[n].provider
      BY <2>1, <2>7 DEF RouteToAgents, SetStatus, RegistryTypes, ModelRow
    <3> QED  BY <3>1, RowsKept DEF Names
  <2>8. ASSUME NEW m \in Locals, Install(m) PROVE OwnRows' /\ MirrorsLastSync'
    BY <2>2, <2>8 DEF Install
  <2>9. CASE UNCHANGED registryVars  BY <2>2, <2>9 DEF registryVars
  <2> QED  BY <2>3, <2>4, <2>5, <2>6, <2>7, <2>8, <2>9 DEF RegistryNext
<1> QED  BY <1>1, <1>2, RegistryInductive, PTL DEF RegistrySpec
=============================================================================
