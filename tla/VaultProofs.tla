---------------------------- MODULE VaultProofs ----------------------------
(***************************************************************************)
(* The promises of module Vault hold for any secrets, accounts, time to    *)
(* live and numbers of data keys and key files.                            *)
(***************************************************************************)
EXTENDS Vault, TLAPS

Rotations == [pc : {"idle", "read", "rewrapped"}, read : [Names -> Envelope],
              new : 0..MaxKeks, wrote : SUBSET Names]

Run == [pc : {"idle", "set", "import"}, kek : 0..MaxKeks, name : Names \cup {NoName}]

VaultTypes ==
    /\ secrets \in [Names -> Envelope]
    /\ seeds \in [Accounts -> Envelope]
    /\ drawn \in 0..MaxDeks /\ kek \in 1..MaxKeks
    /\ cache \in [Names -> [val : Nat, left : 0..CacheTTL]]
    /\ rotation \in Rotations
    /\ Rotating => rotation.new \in 1..MaxKeks
    /\ held \in 0..MaxKeks
    /\ runs \in [Procs -> Run]
    /\ since \in [Names -> 0..CacheTTL]

\* A row that nothing has set since the rotation read it is still what it read.
ReadIsCurrent ==
    rotation.pc = "read" =>
        \A n \in Names \ rotation.wrote : Stored(secrets[n]) => secrets[n] = rotation.read[n]

IInv == VaultTypes /\ ReadIsCurrent /\ NoSecretLost /\ StaleWithinTTL

LEMMA EnvelopeTypes ==
    ASSUME VaultTypes, drawn < MaxDeks, NEW k \in 0..MaxKeks
    PROVE  Sealed(k) \in Envelope /\ drawn + 1 \in 0..MaxDeks
BY VaultAssumption DEF VaultTypes, Sealed, Envelope

LEMMA EntryTypes ==
    Absent \in Envelope /\ NoEntry \in [val : Nat, left : 0..CacheTTL] /\ NoRun \in Run
BY VaultAssumption DEF Absent, Envelope, NoEntry, NoRun, Run

LEMMA Initially == Init => IInv
<1> SUFFICES ASSUME Init PROVE IInv
  OBVIOUS
<1>1. NoRotation \in Rotations
  BY EntryTypes, VaultAssumption DEF NoRotation, Rotations
<1>2. VaultTypes
  BY <1>1, EntryTypes, VaultAssumption DEF Init, VaultTypes, NoRotation, Rotating
<1>3. ReadIsCurrent  BY DEF Init, ReadIsCurrent, NoRotation
<1>4. NoSecretLost  BY DEF Init, NoSecretLost, Stored
<1>5. StaleWithinTTL  BY DEF Init, StaleWithinTTL, NoEntry
<1> QED  BY <1>2, <1>3, <1>4, <1>5 DEF IInv

(***************************************************************************)
(* Sets and deletions                                                      *)
(***************************************************************************)

\* What a set does to the rows and to a rotation under way, whoever makes it
\* and whatever key file it has loaded.
LEMMA SetKeeps ==
    ASSUME IInv, NEW n \in Names, NEW k \in 0..MaxKeks, SetSecret(n, k), UNCHANGED <<seeds, kek>>
    PROVE  /\ secrets' \in [Names -> Envelope] /\ drawn' \in 0..MaxDeks
           /\ rotation' \in Rotations /\ (Rotating' => rotation'.new \in 1..MaxKeks)
           /\ ReadIsCurrent' /\ NoSecretLost'
           /\ \A m \in Names \ {n} : secrets'[m] = secrets[m]
<1>1. /\ secrets' = [secrets EXCEPT ![n] = Sealed(k)]
      /\ drawn' = drawn + 1 /\ drawn < MaxDeks
      /\ crossed' = IF k = kek THEN crossed \ {n} ELSE crossed \cup {n}
  BY DEF SetSecret, Upserted, Marked
<1>2. /\ rotation'.pc = rotation.pc /\ rotation'.read = rotation.read
      /\ rotation'.new = rotation.new
      /\ Rotating => rotation'.wrote = rotation.wrote \cup {n}
      /\ ~Rotating => rotation' = rotation
      /\ rotation' \in Rotations
  BY DEF SetSecret, Noted, Rotating, Rotations, IInv, VaultTypes
<1>3. secrets' \in [Names -> Envelope] /\ drawn' \in 0..MaxDeks
  BY <1>1, EnvelopeTypes DEF IInv, VaultTypes
<1>4. secrets'[n] = Sealed(k) /\ \A m \in Names \ {n} : secrets'[m] = secrets[m]
  BY <1>1 DEF IInv, VaultTypes
<1>5. ReadIsCurrent'
  BY <1>2, <1>4 DEF IInv, ReadIsCurrent, Rotating
<1>6. NoSecretLost'
  <2>1. Opens(Sealed(k), k)  BY DEF Opens, Sealed
  <2>2. CurrentKek' = CurrentKek  BY <1>2 DEF CurrentKek
  <2>3. \/ Opens(secrets'[n], CurrentKek)
        \/ n \in crossed'
        \/ rotation'.pc = "rewrapped" /\ n \in rotation'.wrote
    BY <1>1, <1>2, <1>4, <2>1 DEF CurrentKek, Rotating
  <2>4. \A m \in Names \ {n} : Stored(secrets'[m]) =>
          \/ Opens(secrets'[m], CurrentKek)
          \/ m \in crossed'
          \/ rotation'.pc = "rewrapped" /\ m \in rotation'.wrote
    BY <1>1, <1>2, <1>4 DEF IInv, NoSecretLost, Rotating
  <2>5. \A a \in Accounts : Stored(seeds'[a]) => Opens(seeds'[a], kek') \/ a \in crossed'
    BY <1>1, VaultAssumption DEF IInv, NoSecretLost
  <2> QED  BY <2>2, <2>3, <2>4, <2>5 DEF NoSecretLost, Stored, Opens
<1> QED  BY <1>2, <1>3, <1>4, <1>5, <1>6 DEF Rotating, IInv, VaultTypes

LEMMA AdminSetKeeps == ASSUME IInv, NEW n \in Names, AdminSet(n) PROVE IInv'
<1>1. /\ SetSecret(n, held) /\ held \in 0..MaxKeks /\ held' = 0
      /\ cache' = [cache EXCEPT ![n] = NoEntry]
      /\ UNCHANGED <<seeds, kek, runs, since>>
  BY DEF AdminSet, Popped, IInv, VaultTypes
<1>2. PICK k \in 0..MaxKeks : k = held
  BY <1>1
<1>3. SetSecret(n, k)
  BY <1>1, <1>2
<1>4. cache' \in [Names -> [val : Nat, left : 0..CacheTTL]]
  BY <1>1, EntryTypes DEF IInv, VaultTypes
<1>5. VaultTypes'  BY <1>1, <1>3, <1>4, SetKeeps, VaultAssumption DEF IInv, VaultTypes
<1>6. StaleWithinTTL'
  BY <1>1, <1>3, SetKeeps DEF IInv, VaultTypes, StaleWithinTTL, NoEntry
<1> QED  BY <1>1, <1>3, <1>5, <1>6, SetKeeps DEF IInv

\* A set of another process starts the clock of the name.
LEMMA OutsideSetKeeps ==
    ASSUME IInv, NEW n \in Names, NEW k \in 0..MaxKeks, SetSecret(n, k),
           since' = [since EXCEPT ![n] = 0],
           UNCHANGED <<seeds, kek, cache, held>>, runs' \in [Procs -> Run]
    PROVE  IInv'
<1>1. since' \in [Names -> 0..CacheTTL]
  BY VaultAssumption DEF IInv, VaultTypes
<1>2. VaultTypes'  BY <1>1, SetKeeps DEF IInv, VaultTypes
<1>3. StaleWithinTTL'
  <2>1. since'[n] = 0 /\ \A m \in Names \ {n} : since'[m] = since[m]
    BY DEF IInv, VaultTypes
  <2>2. \A m \in Names : cache[m].left \in 0..CacheTTL
    BY DEF IInv, VaultTypes
  <2> QED  BY <2>1, <2>2, SetKeeps, VaultAssumption DEF IInv, StaleWithinTTL
<1> QED  BY <1>2, <1>3, SetKeeps DEF IInv

LEMMA CliSetKeeps == ASSUME IInv, NEW p \in Procs, NEW n \in Names, CliSet(p, n) PROVE IInv'
<1>1. runs[p] \in Run
  BY DEF IInv, VaultTypes
<1>2. PICK k \in 0..MaxKeks : k = runs[p].kek
  BY <1>1 DEF Run
<1>3. SetSecret(n, k) /\ since' = [since EXCEPT ![n] = 0] /\ UNCHANGED <<seeds, kek, cache, held>>
  BY <1>2 DEF CliSet
<1>4. runs' \in [Procs -> Run]
  BY EntryTypes DEF CliSet, IInv, VaultTypes
<1> QED  BY <1>3, <1>4, OutsideSetKeeps

LEMMA ImportSetKeeps == ASSUME IInv, NEW p \in Procs, ImportSet(p) PROVE IInv'
<1>1. runs[p] \in Run
  BY DEF IInv, VaultTypes
<1>2. PICK k \in 0..MaxKeks, n \in Names : k = runs[p].kek /\ n = runs[p].name
  BY <1>1 DEF Run, ImportSet
<1>3. SetSecret(n, k) /\ since' = [since EXCEPT ![n] = 0] /\ UNCHANGED <<seeds, kek, cache, held>>
  BY <1>2 DEF ImportSet
<1>4. runs' = [runs EXCEPT ![p] = [runs[p] EXCEPT !.name = NoName]]
  BY DEF ImportSet, IInv, VaultTypes
<1>5. [runs[p] EXCEPT !.name = NoName] \in Run
  BY <1>1 DEF Run
<1>6. runs' \in [Procs -> Run]
  BY <1>4, <1>5 DEF IInv, VaultTypes
<1> QED  BY <1>3, <1>6, OutsideSetKeeps

\* Loading the key file, looking for a name, and ending without a write.
LEMMA HandsKeep ==
    ASSUME IInv, \/ BrokerLoads \/ SealFails
                 \/ \E p \in Procs : \/ CliLoads(p, "set") \/ CliLoads(p, "import") \/ CliEnds(p)
                                     \/ \E n \in Names : ImportCheck(p, n)
    PROVE  IInv'
<1>1. UNCHANGED <<secrets, seeds, drawn, kek, cache, rotation, crossed, since>>
  BY DEF BrokerLoads, SealFails, CliLoads, CliEnds, ImportCheck
<1>2. held' \in 0..MaxKeks
  BY VaultAssumption DEF BrokerLoads, SealFails, CliLoads, CliEnds, ImportCheck, IInv, VaultTypes
<1>3. runs' \in [Procs -> Run]
  <2>1. ASSUME NEW p \in Procs, CliLoads(p, "set") \/ CliLoads(p, "import") PROVE runs' \in [Procs -> Run]
    <3>1. PICK cmd \in {"set", "import"} : CliLoads(p, cmd)
      BY <2>1
    <3>2. [pc |-> cmd, kek |-> kek, name |-> NoName] \in Run
      BY VaultAssumption DEF Run, IInv, VaultTypes
    <3> QED  BY <3>1, <3>2 DEF CliLoads, IInv, VaultTypes
  <2>2. ASSUME NEW p \in Procs, NEW n \in Names, ImportCheck(p, n) PROVE runs' \in [Procs -> Run]
    <3>1. runs' = [runs EXCEPT ![p] = [runs[p] EXCEPT !.name = n]] /\ runs[p] \in Run
      BY <2>2 DEF ImportCheck, IInv, VaultTypes
    <3>2. [runs[p] EXCEPT !.name = n] \in Run
      BY <3>1 DEF Run
    <3> QED  BY <3>1, <3>2 DEF IInv, VaultTypes
  <2>3. ASSUME NEW p \in Procs, CliEnds(p) PROVE runs' \in [Procs -> Run]
    BY <2>3, EntryTypes DEF CliEnds, IInv, VaultTypes
  <2>4. BrokerLoads \/ SealFails => runs' \in [Procs -> Run]
    BY DEF BrokerLoads, SealFails, IInv, VaultTypes
  <2> QED  BY <2>1, <2>2, <2>3, <2>4
<1> QED
  BY <1>1, <1>2, <1>3
  DEF IInv, VaultTypes, ReadIsCurrent, NoSecretLost, StaleWithinTTL, CurrentKek, Rotating

LEMMA AdminDeleteKeeps == ASSUME IInv, NEW n \in Names, AdminDelete(n) PROVE IInv'
<1>1. /\ secrets' = [secrets EXCEPT ![n] = Absent]
      /\ cache' = [cache EXCEPT ![n] = NoEntry]
      /\ crossed' = crossed \ {n}
      /\ UNCHANGED <<seeds, drawn, kek, rotation, held, runs, since>>
  BY DEF AdminDelete, Popped
<1>2. VaultTypes'  BY <1>1, EntryTypes DEF IInv, VaultTypes, Rotating
<1>3. secrets'[n] = Absent /\ \A m \in Names \ {n} : secrets'[m] = secrets[m]
  BY <1>1 DEF IInv, VaultTypes
<1>4. ReadIsCurrent'  BY <1>1, <1>3 DEF IInv, ReadIsCurrent, Stored
<1>5. NoSecretLost'
  BY <1>1, <1>3, VaultAssumption DEF IInv, NoSecretLost, Stored, CurrentKek
<1>6. StaleWithinTTL'
  BY <1>1, <1>3 DEF IInv, VaultTypes, StaleWithinTTL, NoEntry
<1> QED  BY <1>2, <1>4, <1>5, <1>6 DEF IInv

LEMMA EnrollSeedKeeps == ASSUME IInv, NEW a \in Accounts, EnrollSeed(a) PROVE IInv'
<1>1. PICK k \in 0..MaxKeks : k = held
  BY DEF IInv, VaultTypes
<1>2. /\ drawn < MaxDeks /\ drawn' = drawn + 1
      /\ seeds' = [seeds EXCEPT ![a] = Sealed(k)]
      /\ crossed' = IF k = kek THEN crossed \ {a} ELSE crossed \cup {a}
      /\ held' = 0
      /\ UNCHANGED <<secrets, kek, cache, rotation, runs, since>>
  BY <1>1 DEF EnrollSeed, Marked
<1>3. VaultTypes'  BY <1>2, EnvelopeTypes, VaultAssumption DEF IInv, VaultTypes, Rotating
<1>4. seeds'[a] = Sealed(k) /\ \A b \in Accounts \ {a} : seeds'[b] = seeds[b]
  BY <1>2 DEF IInv, VaultTypes
<1>5. ReadIsCurrent' /\ StaleWithinTTL'  BY <1>2 DEF IInv, ReadIsCurrent, StaleWithinTTL
<1>6. NoSecretLost'
  <2>1. Opens(seeds'[a], kek') \/ a \in crossed'  BY <1>2, <1>4 DEF Opens, Sealed
  <2>2. \A n \in Names : n \in crossed' <=> n \in crossed  BY <1>2, VaultAssumption
  <2> QED  BY <1>2, <1>4, <2>1, <2>2 DEF IInv, NoSecretLost, CurrentKek
<1> QED  BY <1>3, <1>5, <1>6 DEF IInv

LEMMA ResetSeedKeeps == ASSUME IInv, NEW a \in Accounts, ResetSeed(a) PROVE IInv'
<1>1. /\ seeds' = [seeds EXCEPT ![a] = Absent]
      /\ crossed' = crossed \ {a}
      /\ UNCHANGED <<secrets, drawn, kek, cache, rotation, held, runs, since>>
  BY DEF ResetSeed
<1>2. VaultTypes'  BY <1>1, EntryTypes DEF IInv, VaultTypes, Rotating
<1>3. seeds'[a] = Absent /\ \A b \in Accounts \ {a} : seeds'[b] = seeds[b]
  BY <1>1 DEF IInv, VaultTypes
<1>4. ReadIsCurrent' /\ StaleWithinTTL'  BY <1>1 DEF IInv, ReadIsCurrent, StaleWithinTTL
<1>5. NoSecretLost'
  <2>1. \A n \in Names : n \in crossed' <=> n \in crossed  BY <1>1, VaultAssumption
  <2> QED  BY <1>1, <1>3, <2>1 DEF IInv, NoSecretLost, CurrentKek, Stored
<1> QED  BY <1>2, <1>4, <1>5 DEF IInv

(***************************************************************************)
(* The cache and the rotation                                              *)
(***************************************************************************)

LEMMA ProxyMissKeeps == ASSUME IInv, NEW n \in Names, ProxyMiss(n) PROVE IInv'
<1>1. /\ cache' = [cache EXCEPT ![n] = [val |-> secrets[n].seal, left |-> CacheTTL]]
      /\ UNCHANGED <<secrets, seeds, drawn, kek, rotation, held, runs, crossed, since>>
  BY DEF ProxyMiss
<1>2. VaultTypes'
  <2>1. secrets[n].seal \in Nat
    BY VaultAssumption DEF IInv, VaultTypes, Envelope
  <2>2. cache' \in [Names -> [val : Nat, left : 0..CacheTTL]]
    BY <1>1, <2>1, VaultAssumption DEF IInv, VaultTypes
  <2> QED  BY <1>1, <2>2 DEF IInv, VaultTypes, Rotating
<1>3. ReadIsCurrent' /\ NoSecretLost'
  BY <1>1 DEF IInv, ReadIsCurrent, NoSecretLost, CurrentKek
<1>4. StaleWithinTTL'
  BY <1>1 DEF IInv, VaultTypes, StaleWithinTTL
<1> QED  BY <1>2, <1>3, <1>4 DEF IInv

LEMMA RestartKeeps == ASSUME IInv, Restart PROVE IInv'
<1>1. /\ cache' = [n \in Names |-> NoEntry] /\ held' = 0
      /\ UNCHANGED <<secrets, seeds, drawn, kek, rotation, runs, crossed, since>>
  BY DEF Restart
<1>2. VaultTypes'  BY <1>1, EntryTypes, VaultAssumption DEF IInv, VaultTypes, Rotating
<1>3. ReadIsCurrent' /\ NoSecretLost'
  BY <1>1 DEF IInv, ReadIsCurrent, NoSecretLost, CurrentKek
<1>4. StaleWithinTTL'  BY <1>1 DEF StaleWithinTTL, NoEntry
<1> QED  BY <1>2, <1>3, <1>4 DEF IInv

\* An entry's time goes down as the clock of its name goes up.
LEMMA TickKeeps == ASSUME IInv, Tick PROVE IInv'
<1>1. /\ cache' = [n \in Names |-> IF cache[n].left <= 1 THEN NoEntry
                                   ELSE [cache[n] EXCEPT !.left = @ - 1]]
      /\ since' = [n \in Names |-> IF since[n] = CacheTTL THEN CacheTTL ELSE since[n] + 1]
      /\ UNCHANGED <<secrets, seeds, drawn, kek, rotation, held, runs, crossed>>
  BY DEF Tick
<1>2. \A n \in Names : /\ cache[n] \in [val : Nat, left : 0..CacheTTL]
                       /\ since[n] \in 0..CacheTTL
  BY DEF IInv, VaultTypes
<1>3. \A n \in Names :
        /\ cache[n].left <= 1 => cache'[n] = NoEntry
        /\ ~(cache[n].left <= 1) => /\ cache'[n].val = cache[n].val
                                    /\ cache'[n].left = cache[n].left - 1
                                    /\ cache'[n] \in [val : Nat, left : 0..CacheTTL]
  <2> SUFFICES ASSUME NEW n \in Names, ~(cache[n].left <= 1)
               PROVE  /\ cache'[n].val = cache[n].val
                      /\ cache'[n].left = cache[n].left - 1
                      /\ cache'[n] \in [val : Nat, left : 0..CacheTTL]
    BY <1>1
  <2>1. cache'[n] = [cache[n] EXCEPT !.left = @ - 1]  BY <1>1
  <2>2. cache[n].left - 1 \in 0..CacheTTL  BY <1>2, VaultAssumption
  <2> QED  BY <1>2, <2>1, <2>2
<1>4. VaultTypes'
  <2>1. \A n \in Names : cache'[n] \in [val : Nat, left : 0..CacheTTL]
    BY <1>3, EntryTypes
  <2>2. ASSUME NEW n \in Names PROVE since'[n] \in 0..CacheTTL
    <3>1. since'[n] = IF since[n] = CacheTTL THEN CacheTTL ELSE since[n] + 1
      BY <1>1
    <3> QED  BY <1>2, <3>1, VaultAssumption
  <2> QED  BY <1>1, <2>1, <2>2 DEF IInv, VaultTypes, Rotating
<1>5. ReadIsCurrent' /\ NoSecretLost'
  BY <1>1 DEF IInv, ReadIsCurrent, NoSecretLost, CurrentKek
<1>6. StaleWithinTTL'
  <2> SUFFICES ASSUME NEW n \in Names, cache'[n].left > 0, cache'[n].val # secrets[n].seal
               PROVE  since'[n] + cache'[n].left <= CacheTTL
    BY <1>1 DEF StaleWithinTTL
  <2>1. ~(cache[n].left <= 1)  BY <1>3 DEF NoEntry
  <2>2. cache'[n].left = cache[n].left - 1 /\ cache'[n].val = cache[n].val  BY <1>3, <2>1
  <2>3. since[n] + cache[n].left <= CacheTTL
    BY <1>2, <2>1, <2>2 DEF IInv, StaleWithinTTL
  <2>4. since'[n] = since[n] + 1  BY <1>1, <1>2, <2>1, <2>3, VaultAssumption
  <2> QED  BY <1>2, <2>2, <2>3, <2>4, VaultAssumption
<1> QED  BY <1>4, <1>5, <1>6 DEF IInv

LEMMA RotateReadKeeps == ASSUME IInv, RotateRead PROVE IInv'
<1>1. /\ rotation.pc = "idle" /\ kek < MaxKeks
      /\ rotation' = [pc |-> "read", read |-> secrets, new |-> kek + 1, wrote |-> {}]
      /\ UNCHANGED <<secrets, seeds, drawn, kek, cache, held, runs, crossed, since>>
  BY DEF RotateRead, Rotating
<1>2. kek + 1 \in 1..MaxKeks  BY <1>1, VaultAssumption DEF IInv, VaultTypes
<1>3. rotation' \in Rotations /\ rotation'.new = kek + 1
  BY <1>1, <1>2 DEF IInv, VaultTypes, Rotations
<1>4. VaultTypes'  BY <1>1, <1>2, <1>3 DEF IInv, VaultTypes
<1>5. ReadIsCurrent'  BY <1>1 DEF ReadIsCurrent
<1>6. NoSecretLost' /\ StaleWithinTTL'
  BY <1>1 DEF IInv, NoSecretLost, StaleWithinTTL, CurrentKek
<1> QED  BY <1>4, <1>5, <1>6 DEF IInv

LEMMA RotateWriteKeeps == ASSUME IInv, RotateWrite PROVE IInv'
<1>1. /\ rotation.pc = "read"
      /\ secrets' = [n \in Names |->
            IF Stored(rotation.read[n]) /\ Stored(secrets[n]) THEN Rewrapped(n) ELSE secrets[n]]
      /\ rotation' = [rotation EXCEPT !.pc = "rewrapped"]
      /\ UNCHANGED <<seeds, drawn, kek, cache, held, runs, crossed, since>>
  BY DEF RotateWrite
<1>2. /\ rotation' \in Rotations /\ rotation'.pc = "rewrapped"
      /\ rotation'.new = rotation.new /\ rotation'.wrote = rotation.wrote
  BY <1>1 DEF IInv, VaultTypes, Rotations
<1>3. rotation.new \in 1..MaxKeks  BY <1>1 DEF IInv, VaultTypes, Rotating
<1>4. \A n \in Names : /\ Rewrapped(n) \in Envelope
                       /\ Rewrapped(n).seal = secrets[n].seal
                       /\ Rewrapped(n).dek = rotation.read[n].dek
                       /\ Rewrapped(n).kek = rotation.new
  <2> SUFFICES ASSUME NEW n \in Names
               PROVE  /\ Rewrapped(n) \in Envelope
                      /\ Rewrapped(n).seal = secrets[n].seal
                      /\ Rewrapped(n).dek = rotation.read[n].dek
                      /\ Rewrapped(n).kek = rotation.new
    OBVIOUS
  <2>1. secrets[n] \in Envelope /\ rotation.read[n] \in Envelope /\ rotation.new \in 0..MaxKeks
    BY DEF IInv, VaultTypes, Rotations
  <2> QED  BY <2>1 DEF Rewrapped, Envelope
<1>5. secrets' \in [Names -> Envelope]  BY <1>1, <1>4 DEF IInv, VaultTypes
<1>6. VaultTypes'  BY <1>1, <1>2, <1>3, <1>5 DEF IInv, VaultTypes
<1>7. ReadIsCurrent'  BY <1>2 DEF ReadIsCurrent
<1>8. StaleWithinTTL'
  <2>1. \A n \in Names : secrets'[n].seal = secrets[n].seal  BY <1>1, <1>4
  <2> QED  BY <1>1, <2>1 DEF IInv, StaleWithinTTL
<1>9. NoSecretLost'
  <2>1. \A a \in Accounts : Stored(seeds'[a]) => Opens(seeds'[a], kek') \/ a \in crossed'
    BY <1>1 DEF IInv, NoSecretLost
  <2>2. ASSUME NEW n \in Names, Stored(secrets'[n]), n \notin crossed, n \notin rotation.wrote
        PROVE  Opens(secrets'[n], rotation.new)
    <3>1. Stored(secrets[n])  BY <1>1, <2>2
    <3>2. secrets[n] = rotation.read[n]  BY <1>1, <2>2, <3>1 DEF IInv, ReadIsCurrent
    <3>3. secrets[n].dek = secrets[n].seal
      BY <1>1, <2>2, <3>1 DEF IInv, NoSecretLost, Opens
    <3>4. secrets'[n] = Rewrapped(n)  BY <1>1, <3>1, <3>2
    <3> QED  BY <1>4, <3>2, <3>3, <3>4 DEF Opens
  <2> QED  BY <1>1, <1>2, <2>1, <2>2 DEF NoSecretLost, CurrentKek
<1> QED  BY <1>6, <1>7, <1>8, <1>9 DEF IInv

LEMMA RotateAbortKeeps == ASSUME IInv, RotateAbort PROVE IInv'
<1>1. /\ rotation.pc = "read" /\ rotation' = NoRotation
      /\ UNCHANGED <<secrets, seeds, drawn, kek, cache, held, runs, crossed, since>>
  BY DEF RotateAbort
<1>2. NoRotation \in Rotations /\ NoRotation.pc = "idle"
  BY EntryTypes, VaultAssumption DEF NoRotation, Rotations
<1>3. VaultTypes'  BY <1>1, <1>2 DEF IInv, VaultTypes, Rotating
<1>4. ReadIsCurrent' /\ NoSecretLost' /\ StaleWithinTTL'
  BY <1>1, <1>2 DEF IInv, ReadIsCurrent, NoSecretLost, StaleWithinTTL, CurrentKek
<1> QED  BY <1>3, <1>4 DEF IInv

LEMMA SwapKeeps == ASSUME IInv, Swap PROVE IInv'
<1>1. /\ rotation.pc = "rewrapped" /\ rotation' = NoRotation /\ kek' = rotation.new
      /\ crossed' = crossed \cup rotation.wrote \cup {a \in Accounts : Stored(seeds[a])}
      /\ UNCHANGED <<secrets, seeds, drawn, cache, held, runs, since>>
  BY DEF Swap
<1>2. NoRotation \in Rotations /\ NoRotation.pc = "idle"
  BY EntryTypes, VaultAssumption DEF NoRotation, Rotations
<1>3. VaultTypes'  BY <1>1, <1>2 DEF IInv, VaultTypes, Rotating
<1>4. ReadIsCurrent' /\ NoSecretLost' /\ StaleWithinTTL'
  BY <1>1, <1>2 DEF IInv, ReadIsCurrent, NoSecretLost, StaleWithinTTL, CurrentKek
<1> QED  BY <1>3, <1>4 DEF IInv

(***************************************************************************)
(* The theorems                                                            *)
(***************************************************************************)

\* The strengthened invariant: rows a rotation has read are what it read unless
\* they were set since, rows open, the cache is stale within bounds.
THEOREM VaultInductive == Spec => []IInv
<1>1. IInv /\ [Next]_vars => IInv'
  <2> SUFFICES ASSUME IInv, [Next]_vars PROVE IInv'
    OBVIOUS
  <2>1. CASE \E n \in Names : AdminSet(n) \/ AdminDelete(n) \/ ProxyMiss(n)
    BY <2>1, AdminSetKeeps, AdminDeleteKeeps, ProxyMissKeeps
  <2>2. CASE \/ BrokerLoads \/ SealFails
             \/ \E p \in Procs : \/ CliLoads(p, "set") \/ CliLoads(p, "import") \/ CliEnds(p)
                                 \/ \E n \in Names : ImportCheck(p, n)
    BY <2>2, HandsKeep
  <2>7. CASE \E p \in Procs : ImportSet(p) \/ \E n \in Names : CliSet(p, n)
    BY <2>7, ImportSetKeeps, CliSetKeeps
  <2>3. CASE \E a \in Accounts : EnrollSeed(a) \/ ResetSeed(a)
    BY <2>3, EnrollSeedKeeps, ResetSeedKeeps
  <2>4. CASE RotateRead \/ RotateWrite \/ RotateAbort \/ Swap
    BY <2>4, RotateReadKeeps, RotateWriteKeeps, RotateAbortKeeps, SwapKeeps
  <2>5. CASE Restart \/ Tick  BY <2>5, RestartKeeps, TickKeeps
  <2>6. CASE UNCHANGED vars
    BY <2>6 DEF vars, IInv, VaultTypes, ReadIsCurrent, NoSecretLost, StaleWithinTTL, CurrentKek,
                Rotating
  <2> QED  BY <2>1, <2>2, <2>3, <2>4, <2>5, <2>6, <2>7 DEF Next
<1> QED  BY Initially, <1>1, PTL DEF Spec

\* Rows stay openable through sets, imports, deletions and rotations, whatever key
\* file each process has loaded before, except those that a swap of the key file
\* came across: set under the completed rotation, sealed under a key file loaded
\* before the swap, and seeds (secrets_store.py).
THEOREM SecretsKept == Spec => []NoSecretLost
<1>1. IInv => NoSecretLost  BY DEF IInv
<1> QED  BY VaultInductive, <1>1, PTL

\* The broker's cache is stale no longer than its time to live (get_cached).
THEOREM CacheFresh == Spec => []StaleWithinTTL
<1>1. IInv => StaleWithinTTL  BY DEF IInv
<1> QED  BY VaultInductive, <1>1, PTL
=============================================================================
