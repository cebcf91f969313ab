---------------------------- MODULE AccessProofs ----------------------------
(***************************************************************************)
(* The promises of module ShellAccess hold for any users, shells, requests *)
(* and numbers of keys.                                                    *)
(***************************************************************************)
EXTENDS ShellAccess, FiniteSetTheorems, TLAPS

\* A row that does not exist is nobody's, and no request is about it.
RowsInUse ==
    /\ \A s \in Shells : ~shells[s].exists => shells[s].owner = NoUser
    /\ \A s \in Shells : shells[s].owner \in joined \cup {NoUser}
    /\ \A c \in Clients : toggles[c] # Idle => toggles[c].shell \in Shells /\ toggles[c].owner \in joined

\* The two columns of a key are of one draw, and no two rows of the same.
KeysMatch ==
    /\ \A s \in Shells : shells[s].key = shells[s].hash /\ shells[s].key <= drawn
    /\ \A s, t \in Shells : shells[s].key = shells[t].key /\ shells[s].key # 0 => s = t

\* A turn nothing has outdated carries the key of its shell.
TurnHasKey ==
    turn.fresh => /\ turn.shell \in Existing
                  /\ turn.key = shells[turn.shell].key /\ turn.key # 0

\* OneTarget without counting.
LoneTarget == \A u \in Users \ strayed : \A s, t \in Targets(u) : s = t

IInv == TypeOK /\ RowsInUse /\ KeysMatch /\ TurnHasKey /\ LoneTarget

LEMMA Initially == Init => IInv
<1> SUFFICES ASSUME Init PROVE IInv
  OBVIOUS
<1>1. \A s \in Shells : shells[s] = [exists |-> s \in Seeds,
           owner |-> IF s \in Seeds \ SharedShells THEN Owner1 ELSE NoUser,
           chat |-> s \in Seeds \ SharedShells, key |-> 0, hash |-> 0]
  BY DEF Init
<1>2. TypeOK
  <2>1. shells \in [Shells -> Shell]
    BY ShellAccessAssumption DEF Init, Shell
  <2>2. toggles \in [Clients -> Toggling]
    BY DEF Init, Idle, Toggling
  <2>3. turn \in [shell : Shells \cup {NoShell}, key : Nat, fresh : BOOLEAN]
    BY DEF Init, NoTurn
  <2> QED  BY <2>1, <2>2, <2>3, ShellAccessAssumption DEF Init, TypeOK
<1>3. RowsInUse  BY <1>1, ShellAccessAssumption DEF Init, RowsInUse
<1>4. KeysMatch  BY <1>1 DEF Init, KeysMatch
<1>5. TurnHasKey  BY DEF Init, TurnHasKey, NoTurn
<1>6. LoneTarget
  BY <1>1, ShellAccessAssumption DEF Init, LoneTarget, Targets, Owned, Existing
<1> QED  BY <1>2, <1>3, <1>4, <1>5, <1>6 DEF IInv

(***************************************************************************)
(* Chat targets                                                            *)
(***************************************************************************)

\* Types of what the requests write to a row.
LEMMA ShellTypes ==
    ASSUME TypeOK, NEW s \in Shells
    PROVE  /\ shells[s] \in Shell
           /\ \A u \in Users \cup {NoUser} : [shells[s] EXCEPT !.owner = u] \in Shell
           /\ \A b \in BOOLEAN : [shells[s] EXCEPT !.chat = b] \in Shell
           /\ \A n \in Nat : Minted(shells[s], n) \in Shell
BY DEF TypeOK, Shell, Minted

\* What Retargeted writes: of every row the chat flag and nothing else.
LEMMA RetargetedRows ==
    ASSUME TypeOK, NEW s \in Shells, NEW u \in Users, shells' = Retargeted(s, u)
    PROVE  /\ shells' \in [Shells -> Shell]
           /\ \A t \in Shells : /\ shells'[t].exists = shells[t].exists
                                /\ shells'[t].owner = shells[t].owner
                                /\ shells'[t].key = shells[t].key
                                /\ shells'[t].hash = shells[t].hash
                                /\ shells'[t].chat = (t = s \/ (shells[t].chat /\ t \notin Owned(u)))
<1>1. \A t \in Shells : shells'[t] = [shells[t] EXCEPT !.chat = (t = s \/ (@ /\ t \notin Owned(u)))]
  BY DEF Retargeted
<1>2. \A t \in Shells : (t = s \/ (shells[t].chat /\ t \notin Owned(u))) \in BOOLEAN
  OBVIOUS
<1>3. \A t \in Shells : shells'[t] \in Shell
  BY <1>1, <1>2, ShellTypes
<1>4. shells' = [t \in Shells |-> shells'[t]]
  BY DEF Retargeted
<1>5. shells' \in [Shells -> Shell]
  BY <1>3, <1>4
<1>6. ASSUME NEW t \in Shells
      PROVE  /\ shells'[t].exists = shells[t].exists
             /\ shells'[t].owner = shells[t].owner
             /\ shells'[t].key = shells[t].key
             /\ shells'[t].hash = shells[t].hash
             /\ shells'[t].chat = (t = s \/ (shells[t].chat /\ t \notin Owned(u)))
  <2> DEFINE b == t = s \/ (shells[t].chat /\ t \notin Owned(u))
  <2>1. shells'[t] = [shells[t] EXCEPT !.chat = b]
    BY <1>1
  <2> HIDE DEF b
  <2>2. shells[t] \in Shell
    BY ShellTypes
  <2>3. /\ shells'[t].exists = shells[t].exists
        /\ shells'[t].owner = shells[t].owner
        /\ shells'[t].key = shells[t].key
        /\ shells'[t].hash = shells[t].hash
        /\ shells'[t].chat = b
    BY <2>1, <2>2 DEF Shell
  <2> QED  BY <2>3 DEF b
<1> QED  BY <1>5, <1>6

\* Rows keep what a key and a turn depend on.
LEMMA KeysStay ==
    ASSUME IInv, shells' \in [Shells -> Shell], UNCHANGED <<drawn, turn>>,
           \A t \in Shells : /\ shells'[t].exists = shells[t].exists
                             /\ shells'[t].key = shells[t].key
                             /\ shells'[t].hash = shells[t].hash
    PROVE  KeysMatch' /\ TurnHasKey'
<1>1. KeysMatch'  BY DEF IInv, KeysMatch
<1>2. Existing' = Existing  BY DEF Existing
<1>3. TurnHasKey'  BY <1>2 DEF IInv, TurnHasKey, Existing
<1> QED  BY <1>1, <1>3

LEMMA ActivateKeeps == ASSUME IInv, NEW s \in Shells, Activate(s) PROVE IInv'
<1> DEFINE u == shells[s].owner
<1>1. /\ u \in Users /\ u = shells[s].owner /\ shells' = Retargeted(s, u)
      /\ strayed' = strayed \ {u}
      /\ UNCHANGED <<joined, drawn, toggles, ensures, turn>>
  BY ShellTypes DEF IInv, Activate, Shell
<1> HIDE DEF u
<1>2. TypeOK'  BY <1>1, RetargetedRows DEF IInv, TypeOK
<1>3. RowsInUse'  BY <1>1, RetargetedRows DEF IInv, RowsInUse
<1>4. KeysMatch' /\ TurnHasKey'  BY <1>1, RetargetedRows, KeysStay DEF IInv
<1>5. LoneTarget'
  <2>1. ASSUME NEW v \in Users, NEW t \in Targets(v)'
        PROVE  IF v = u THEN t = s ELSE t \in Targets(v)
    <3>1. t \in Shells /\ shells'[t].exists /\ shells'[t].owner = v /\ shells'[t].chat
      BY DEF Targets, Owned, Existing
    <3>2. t \in Owned(v)
      BY <1>1, <3>1, RetargetedRows DEF IInv, Owned, Existing
    <3>3. shells'[t].chat = (t = s \/ (shells[t].chat /\ t \notin Owned(u)))
      BY <1>1, <3>1, RetargetedRows DEF IInv
    <3>4. v # u => t # s
      BY <1>1, <3>2 DEF Owned
    <3> QED  BY <3>1, <3>2, <3>3, <3>4 DEF Targets
  <2>2. ASSUME NEW v \in Users \ strayed', NEW a \in Targets(v)', NEW b \in Targets(v)' PROVE a = b
    <3>1. CASE v = u  BY <2>1, <2>2, <3>1
    <3>2. CASE v # u
      <4>1. v \in Users \ strayed /\ a \in Targets(v) /\ b \in Targets(v)
        BY <1>1, <2>1, <2>2, <3>2
      <4> QED  BY <4>1 DEF IInv, LoneTarget
    <3> QED  BY <3>1, <3>2
  <2> QED  BY <2>2 DEF LoneTarget
<1> QED  BY <1>2, <1>3, <1>4, <1>5 DEF IInv

LEMMA ToggleReadKeeps ==
    ASSUME IInv, NEW c \in Clients, NEW s \in Shells, ToggleRead(c, s) PROVE IInv'
<1> DEFINE r == [shell |-> s, owner |-> shells[s].owner, chat |-> shells[s].chat]
<1>1. /\ shells[s].owner # NoUser
      /\ toggles' = [toggles EXCEPT ![c] = r]
      /\ UNCHANGED <<joined, shells, drawn, ensures, turn, strayed>>
  BY DEF ToggleRead
<1>2. r \in Toggling /\ r.owner \in joined
  BY <1>1, ShellTypes DEF IInv, RowsInUse, Toggling, Shell
<1>3. TypeOK'  BY <1>1, <1>2 DEF IInv, TypeOK
<1>4. RowsInUse'  BY <1>1, <1>2 DEF IInv, RowsInUse, TypeOK
<1> QED
  BY <1>1, <1>3, <1>4 DEF IInv, KeysMatch, TurnHasKey, LoneTarget, Targets, Owned, Existing

LEMMA ToggleWriteKeeps == ASSUME IInv, NEW c \in Clients, ToggleWrite(c) PROVE IInv'
<1> DEFINE r == toggles[c]
           current == shells[r.shell].owner
<1>1. /\ r # Idle
      /\ shells' = IF r.chat THEN [shells EXCEPT ![r.shell].chat = FALSE] ELSE Retargeted(r.shell, r.owner)
      /\ strayed' = CASE r.chat -> strayed
                      [] ~r.chat /\ current = r.owner -> strayed \ {current}
                      [] OTHER -> Handed(current, r.shell)
      /\ toggles' = [toggles EXCEPT ![c] = Idle]
      /\ UNCHANGED <<joined, drawn, ensures, turn>>
  BY DEF ToggleWrite
<1>2. r.shell \in Shells /\ r.owner \in Users /\ r.owner \in joined /\ r.chat \in BOOLEAN
  BY <1>1 DEF IInv, RowsInUse, TypeOK, Toggling
<1>3. current \in Users \cup {NoUser}
  BY <1>2, ShellTypes DEF IInv, Shell
<1>4. toggles' \in [Clients -> Toggling]
  BY <1>1 DEF IInv, TypeOK, Idle, Toggling
<1>5. /\ shells' \in [Shells -> Shell]
      /\ \A t \in Shells : /\ shells'[t].exists = shells[t].exists
                           /\ shells'[t].owner = shells[t].owner
                           /\ shells'[t].key = shells[t].key
                           /\ shells'[t].hash = shells[t].hash
      /\ r.chat => \A t \in Shells : shells'[t].chat => shells[t].chat
      /\ ~r.chat => \A t \in Shells :
            shells'[t].chat = (t = r.shell \/ (shells[t].chat /\ t \notin Owned(r.owner)))
  <2>1. CASE r.chat
    <3>1. shells' = [shells EXCEPT ![r.shell] = [shells[r.shell] EXCEPT !.chat = FALSE]]
      BY <1>1, <1>2, <2>1 DEF IInv, TypeOK
    <3>2. [shells[r.shell] EXCEPT !.chat = FALSE] \in Shell
      BY <1>2, ShellTypes DEF IInv
    <3> QED  BY <2>1, <1>2, <3>1, <3>2, ShellTypes DEF IInv, TypeOK, Shell
  <2>2. CASE ~r.chat
    BY <2>2, <1>1, <1>2, RetargetedRows DEF IInv
  <2> QED  BY <2>1, <2>2, <1>2
<1>6. TypeOK'
  BY <1>1, <1>2, <1>3, <1>4, <1>5 DEF IInv, TypeOK, Handed
<1>7. RowsInUse'
  BY <1>1, <1>5 DEF IInv, RowsInUse, TypeOK
<1>8. KeysMatch' /\ TurnHasKey'  BY <1>1, <1>5, KeysStay
<1>9. LoneTarget'
  <2>1. CASE r.chat
    <3>1. \A u \in Users : Targets(u)' \subseteq Targets(u)
      BY <1>5, <2>1 DEF Targets, Owned, Existing
    <3> QED  BY <1>1, <2>1, <3>1 DEF IInv, LoneTarget
  <2>2. CASE ~r.chat
    <3>1. \A u \in Users : u # r.owner =>
             /\ Targets(u)' \subseteq Targets(u) \cup {r.shell}
             /\ u # current => Targets(u)' \subseteq Targets(u)
      BY <1>2, <1>5, <2>2 DEF Targets, Owned, Existing
    <3>2. \A u \in Users : u = r.owner => \A t \in Targets(u)' : t = r.shell
      BY <1>2, <1>5, <2>2 DEF Targets, Owned, Existing
    <3>3. strayed' = IF current = r.owner THEN strayed \ {current}
                     ELSE Handed(current, r.shell)
      BY <1>1, <2>2
    <3>4. ASSUME NEW u \in Users \ strayed', NEW a \in Targets(u)', NEW b \in Targets(u)' PROVE a = b
      <4>1. CASE u = r.owner  BY <3>2, <3>4, <4>1
      <4>2. CASE u # r.owner /\ u # current
        <5>1. u \in Users \ strayed
          BY <3>3, <3>4, <4>2 DEF Handed
        <5>2. a \in Targets(u) /\ b \in Targets(u)
          BY <3>1, <3>4, <4>2
        <5> QED  BY <5>1, <5>2 DEF IInv, LoneTarget
      <4>3. CASE u # r.owner /\ u = current
        <5>1. Targets(u) \subseteq {r.shell}
          BY <3>3, <3>4, <4>3 DEF Handed
        <5> QED  BY <3>1, <3>4, <4>3, <5>1
      <4> QED  BY <4>1, <4>2, <4>3
    <3> QED  BY <3>4 DEF LoneTarget
  <2> QED  BY <2>1, <2>2, <1>2
<1> QED  BY <1>6, <1>7, <1>8, <1>9 DEF IInv

LEMMA AssignKeeps ==
    ASSUME IInv, NEW s \in Shells, NEW to \in joined \cup {NoUser}, Assign(s, to) PROVE IInv'
<1>1. /\ s \in Existing
      /\ shells' = [shells EXCEPT ![s] = [shells[s] EXCEPT !.owner = to]]
      /\ strayed' = IF shells[s].chat THEN Handed(to, s) ELSE strayed
      /\ UNCHANGED <<joined, drawn, toggles, ensures, turn>>
      /\ to \in Users \cup {NoUser}
  BY DEF Assign, IInv, TypeOK
<1>2. /\ shells' \in [Shells -> Shell]
      /\ \A t \in Shells : /\ shells'[t].exists = shells[t].exists
                           /\ shells'[t].chat = shells[t].chat
                           /\ shells'[t].key = shells[t].key
                           /\ shells'[t].hash = shells[t].hash
                           /\ shells'[t].owner = IF t = s THEN to ELSE shells[t].owner
  BY <1>1, ShellTypes DEF IInv, TypeOK, Shell
<1>3. TypeOK'  BY <1>1, <1>2 DEF IInv, TypeOK, Handed
<1>4. RowsInUse'  BY <1>1, <1>2 DEF IInv, RowsInUse, Existing
<1>5. KeysMatch' /\ TurnHasKey'  BY <1>1, <1>2, KeysStay
<1>6. LoneTarget'
  <2>1. \A u \in Users : u # to => Targets(u)' \subseteq Targets(u)
    BY <1>2 DEF Targets, Owned, Existing
  <2>2. /\ Targets(to)' \subseteq Targets(to) \cup {s}
        /\ ~shells[s].chat => s \notin Targets(to)'
    BY <1>2 DEF Targets, Owned, Existing
  <2>3. to \in Users \ strayed' => ~shells[s].chat \/ Targets(to) \subseteq {s}
    BY <1>1 DEF Handed
  <2>4. \A t \in Targets(to)' : to \in Users \ strayed' => t = s \/ ~shells[s].chat
    BY <2>2, <2>3
  <2>5. strayed \subseteq strayed'
    BY <1>1 DEF Handed
  <2>6. ASSUME NEW u \in Users \ strayed', NEW a \in Targets(u)', NEW b \in Targets(u)' PROVE a = b
    <3>1. CASE u # to  BY <2>1, <2>5, <2>6, <3>1 DEF IInv, LoneTarget
    <3>2. CASE u = to /\ shells[s].chat  BY <2>4, <2>6, <3>2
    <3>3. CASE u = to /\ ~shells[s].chat
      <4>1. a \in Targets(to) /\ b \in Targets(to)  BY <2>2, <2>6, <3>3
      <4> QED  BY <4>1, <2>5, <2>6, <3>3 DEF IInv, LoneTarget
    <3> QED  BY <3>1, <3>2, <3>3
  <2> QED  BY <2>6 DEF LoneTarget
<1> QED  BY <1>3, <1>4, <1>5, <1>6 DEF IInv

(***************************************************************************)
(* Keys                                                                    *)
(***************************************************************************)

\* A turn that is still fresh after keys were drawn for S is none of S.
LEMMA OutdatedTurn ==
    ASSUME TypeOK, NEW S, S \subseteq Shells
    PROVE  /\ Outdated(S) \in [shell : Shells \cup {NoShell}, key : Nat, fresh : BOOLEAN]
           /\ Outdated(S).fresh => Outdated(S) = turn /\ turn.shell \notin S
BY DEF TypeOK, Outdated

\* A row that is inserted with a key of its own and an owner who then has no
\* other target.
LEMMA InsertKeeps ==
    ASSUME IInv, NEW s \in Shells, NEW u \in Users, NEW chat \in BOOLEAN,
           s \notin Existing, drawn < MaxKeys,
           shells' = [shells EXCEPT ![s] = Inserted(u, chat)], drawn' = drawn + 1,
           joined \subseteq joined', joined' \subseteq Users, u \in joined',
           chat => u \notin joined,
           UNCHANGED <<toggles, ensures, turn, strayed>>
    PROVE  IInv'
<1> DEFINE row == Inserted(u, chat)
<1>1. drawn \in Nat /\ drawn' \in 0..MaxKeys
  BY ShellAccessAssumption DEF IInv, TypeOK
<1>2. /\ row \in Shell /\ row.exists /\ row.owner = u /\ row.chat = chat
      /\ row.key = drawn + 1 /\ row.hash = drawn + 1
  <2> DEFINE blank == [exists |-> TRUE, owner |-> u, chat |-> chat, key |-> 0, hash |-> 0]
  <2>1. blank \in Shell /\ blank.exists /\ blank.owner = u /\ blank.chat = chat
    BY DEF Shell
  <2> HIDE DEF blank
  <2>2. row = [blank EXCEPT !.key = drawn + 1, !.hash = drawn + 1]
    BY DEF Inserted, Minted, blank
  <2>3. drawn + 1 \in Nat
    BY <1>1
  <2> HIDE DEF row
  <2> QED  BY <2>1, <2>2, <2>3 DEF Shell
<1>3. shells' = [shells EXCEPT ![s] = row]
  OBVIOUS
<1> HIDE DEF row
<1>4. /\ shells' \in [Shells -> Shell]
      /\ shells'[s] = row /\ \A t \in Shells \ {s} : shells'[t] = shells[t]
  BY <1>2, <1>3 DEF IInv, TypeOK
<1>5. TypeOK'  BY <1>1, <1>4 DEF IInv, TypeOK
<1>6. RowsInUse'
  BY <1>2, <1>4 DEF IInv, RowsInUse
<1>7. \A t \in Shells : shells[t].key \in Nat /\ shells[t].hash \in Nat
  BY ShellTypes DEF IInv, Shell
<1>8. KeysMatch'
  BY <1>1, <1>2, <1>4, <1>7 DEF IInv, KeysMatch
<1>9. TurnHasKey'  BY <1>4 DEF IInv, TurnHasKey, Existing
<1>10. LoneTarget'
  <2>1. \A v \in Users : Targets(v)' \subseteq Targets(v) \cup {s}
    BY <1>4 DEF Targets, Owned, Existing
  <2>2. \A v \in Users : ~chat \/ v # u => Targets(v)' \subseteq Targets(v)
    BY <1>2, <1>4 DEF Targets, Owned, Existing
  <2>3. u \notin joined => Targets(u) = {}
    BY ShellAccessAssumption DEF IInv, RowsInUse, Targets, Owned, Existing
  <2>4. ASSUME NEW v \in Users \ strayed', NEW a \in Targets(v)', NEW b \in Targets(v)' PROVE a = b
    <3>1. CASE chat /\ v = u  BY <2>1, <2>3, <2>4, <3>1
    <3>2. CASE ~chat \/ v # u
      <4>1. a \in Targets(v) /\ b \in Targets(v) /\ v \in Users \ strayed
        BY <2>2, <2>4, <3>2
      <4> QED  BY <4>1 DEF IInv, LoneTarget
    <3> QED  BY <3>1, <3>2
  <2> QED  BY <2>4 DEF LoneTarget
<1> QED  BY <1>5, <1>6, <1>8, <1>9, <1>10 DEF IInv

LEMMA CreateShellKeeps ==
    ASSUME IInv, NEW s \in Shells, NEW u \in joined, CreateShell(s, u) PROVE IInv'
<1>1. u \in Users /\ joined \subseteq Users /\ FALSE \in BOOLEAN
  BY DEF IInv, TypeOK
<1>2. /\ s \notin Existing /\ drawn < MaxKeys /\ drawn' = drawn + 1
      /\ shells' = [shells EXCEPT ![s] = Inserted(u, FALSE)]
      /\ UNCHANGED <<joined, toggles, ensures, turn, strayed>>
  BY DEF CreateShell
<1> QED  BY <1>1, <1>2, InsertKeeps

LEMMA CreateUserKeeps ==
    ASSUME IInv, NEW s \in Shells, NEW u \in Users, CreateUser(s, u) PROVE IInv'
<1>1. joined \subseteq Users
  BY DEF IInv, TypeOK
<1>2. /\ s \notin Existing /\ u \notin joined /\ drawn < MaxKeys /\ drawn' = drawn + 1
      /\ joined' = joined \cup {u}
      /\ shells' = [shells EXCEPT ![s] = Inserted(u, TRUE)]
      /\ UNCHANGED <<toggles, ensures, turn, strayed>>
  BY DEF CreateUser
<1> QED  BY <1>1, <1>2, InsertKeeps

\* Keys drawn for the shells of S, each its own.
LEMMA MintKeeps ==
    ASSUME IInv, NEW S, S \subseteq Shells, NEW n \in Nat, drawn + n <= MaxKeys,
           NEW f \in [S -> (drawn + 1)..(drawn + n)], \A s, t \in S : f[s] = f[t] => s = t,
           shells' = [s \in Shells |-> IF s \in S THEN Minted(shells[s], f[s]) ELSE shells[s]],
           drawn' = drawn + n, turn' = Outdated(S),
           ensures' \in [Ensurers -> SUBSET Shells], UNCHANGED <<joined, toggles, strayed>>
    PROVE  IInv'
<1>1. drawn \in Nat /\ drawn' \in 0..MaxKeys
  BY ShellAccessAssumption DEF IInv, TypeOK
<1>2. \A s \in S : f[s] \in Nat /\ f[s] > drawn /\ f[s] <= drawn + n
  BY <1>1
<1>3. \A s \in Shells : shells'[s] \in Shell
  BY <1>2, ShellTypes DEF IInv
<1>4. shells' \in [Shells -> Shell]
  BY <1>3
<1>5. ASSUME NEW s \in Shells
      PROVE  /\ shells'[s].exists = shells[s].exists
             /\ shells'[s].owner = shells[s].owner
             /\ shells'[s].chat = shells[s].chat
             /\ shells'[s].key = IF s \in S THEN f[s] ELSE shells[s].key
             /\ shells'[s].hash = IF s \in S THEN f[s] ELSE shells[s].hash
  <2>1. shells[s] \in Shell
    BY ShellTypes DEF IInv
  <2>2. CASE s \in S
    <3>1. shells'[s] = [shells[s] EXCEPT !.key = f[s], !.hash = f[s]]
      BY <2>2 DEF Minted
    <3> QED  BY <2>1, <2>2, <3>1 DEF Shell
  <2>3. CASE s \notin S
    <3>1. shells'[s] = shells[s]
      BY <2>3
    <3> QED  BY <2>3, <3>1
  <2> QED  BY <2>2, <2>3
<1>6. TypeOK'  BY <1>1, <1>4, OutdatedTurn DEF IInv, TypeOK
<1>7. RowsInUse'  BY <1>5 DEF IInv, RowsInUse
<1>8. KeysMatch'
  <2>1. \A s \in Shells : shells[s].key \in Nat /\ shells[s].key <= drawn /\ shells[s].key = shells[s].hash
    BY ShellTypes DEF IInv, KeysMatch, Shell
  <2>2. ASSUME NEW s \in Shells PROVE shells'[s].key = shells'[s].hash /\ shells'[s].key <= drawn'
    <3>1. CASE s \in S  BY <1>2, <1>5, <3>1
    <3>2. CASE s \notin S
      <4>1. shells'[s].key = shells[s].key /\ shells'[s].hash = shells[s].hash
        BY <1>5, <3>2
      <4> QED  BY <1>1, <2>1, <4>1
    <3> QED  BY <3>1, <3>2
  <2>3. ASSUME NEW s \in Shells, NEW t \in Shells, shells'[s].key = shells'[t].key, shells'[s].key # 0
        PROVE  s = t
    BY <1>1, <1>2, <1>5, <2>1, <2>3 DEF IInv, KeysMatch
  <2> QED  BY <2>2, <2>3 DEF KeysMatch
<1>9. TurnHasKey'
  <2>1. turn'.fresh => turn' = turn /\ turn.shell \notin S
    BY OutdatedTurn DEF IInv
  <2> QED  BY <1>5, <2>1 DEF IInv, TurnHasKey, Existing
<1>10. LoneTarget'
  <2>1. \A v \in Users : Targets(v)' \subseteq Targets(v)
    BY <1>5 DEF Targets, Owned, Existing
  <2> QED  BY <2>1 DEF IInv, LoneTarget
<1> QED  BY <1>6, <1>7, <1>8, <1>9, <1>10 DEF IInv

LEMMA RotateKeeps == ASSUME IInv, NEW s \in Shells, Rotate(s) PROVE IInv'
<1>1. /\ drawn < MaxKeys
      /\ shells' = [shells EXCEPT ![s] = Minted(shells[s], drawn + 1)]
      /\ drawn' = drawn + 1 /\ turn' = Outdated({s})
      /\ UNCHANGED <<joined, toggles, ensures, strayed>>
  BY DEF Rotate, IInv, TypeOK
<1> DEFINE S == {s}
           n == 1
           f == [t \in S |-> drawn + 1]
<1>2. drawn \in Nat /\ n \in Nat /\ drawn + n <= MaxKeys /\ S \subseteq Shells
  BY <1>1, ShellAccessAssumption DEF IInv, TypeOK
<1>3. f \in [S -> (drawn + 1)..(drawn + n)] /\ \A t, v \in S : f[t] = f[v] => t = v
  BY <1>2
<1>4. shells' = [t \in Shells |-> IF t \in S THEN Minted(shells[t], f[t]) ELSE shells[t]]
  BY <1>1 DEF IInv, TypeOK
<1>5. ensures' \in [Ensurers -> SUBSET Shells]
  BY <1>1 DEF IInv, TypeOK
<1>6. drawn' = drawn + n /\ turn' = Outdated(S)
  BY <1>1
<1> HIDE DEF S, n, f
<1> QED  BY <1>1, <1>2, <1>3, <1>4, <1>5, <1>6, MintKeeps

LEMMA EnsureMintKeeps == ASSUME IInv, NEW e \in Ensurers, EnsureMint(e) PROVE IInv'
<1> DEFINE S == ensures[e]
           n == Cardinality(S)
<1>1. S \subseteq Shells
  BY DEF IInv, TypeOK
<1>2. n \in Nat
  BY <1>1, FS_Subset, FS_CardinalityType, ShellAccessAssumption
<1>3. /\ drawn + n <= MaxKeys /\ drawn' = drawn + n /\ turn' = Outdated(S)
      /\ ensures' = [ensures EXCEPT ![e] = {}] /\ UNCHANGED <<joined, toggles, strayed>>
  BY DEF EnsureMint
<1>4. PICK f \in [S -> (drawn + 1)..(drawn + n)] :
        /\ \A s, t \in S : f[s] = f[t] => s = t
        /\ shells' = [s \in Shells |-> IF s \in S THEN Minted(shells[s], f[s]) ELSE shells[s]]
  BY DEF EnsureMint
<1>5. ensures' \in [Ensurers -> SUBSET Shells]
  BY <1>3 DEF IInv, TypeOK
<1> HIDE DEF S, n
<1> QED  BY <1>1, <1>2, <1>3, <1>4, <1>5, MintKeeps

\* Requests that only read, and turns that begin and end.
LEMMA OthersKeep ==
    ASSUME IInv,
           \/ \E e \in Ensurers : EnsureRead(e) \/ EnsureLost(e)
           \/ TurnBegin \/ TurnEnd \/ UNCHANGED vars
    PROVE  IInv'
<1>1. UNCHANGED <<joined, shells, drawn, toggles, strayed>>
  BY DEF EnsureRead, EnsureLost, TurnBegin, TurnEnd, vars
<1>2. ensures' \in [Ensurers -> SUBSET Shells]
  BY DEF EnsureRead, EnsureLost, TurnBegin, TurnEnd, vars, IInv, TypeOK, Existing
<1>3. turn' \in [shell : Shells \cup {NoShell}, key : Nat, fresh : BOOLEAN] /\ TurnHasKey'
  <2>1. CASE UNCHANGED turn
    BY <1>1, <2>1 DEF IInv, TypeOK, TurnHasKey, Existing
  <2>2. CASE TurnEnd
    BY <2>2 DEF TurnEnd, NoTurn, TurnHasKey
  <2>3. CASE TurnBegin
    <3>1. PICK s \in Existing : turn' = [shell |-> s, key |-> shells[s].key, fresh |-> shells[s].key # 0]
      BY <2>3 DEF TurnBegin
    <3>2. shells[s].key \in Nat /\ s \in Shells
      BY ShellTypes DEF IInv, Shell, Existing
    <3> QED  BY <1>1, <3>1, <3>2 DEF TurnHasKey, Existing
  <2> QED  BY <2>1, <2>2, <2>3 DEF EnsureRead, EnsureLost, vars
<1>4. TypeOK'  BY <1>1, <1>2, <1>3 DEF IInv, TypeOK
<1>5. RowsInUse' /\ KeysMatch' /\ LoneTarget'
  BY <1>1 DEF IInv, RowsInUse, KeysMatch, LoneTarget, Targets, Owned, Existing
<1> QED  BY <1>3, <1>4, <1>5 DEF IInv

(***************************************************************************)
(* Theorems                                                                *)
(***************************************************************************)

\* Whatever runs, shells and keys stay in the relations of IInv: both columns of a
\* key agree, no two shells have one key, and a user has one target.
THEOREM AccessInductive == Spec => []IInv
<1>1. Init => IInv  BY Initially
<1>2. IInv /\ [Next]_vars => IInv'
  <2> SUFFICES ASSUME IInv, [Next]_vars PROVE IInv'
    OBVIOUS
  <2>1. ASSUME NEW s \in Shells, Activate(s) \/ Rotate(s) PROVE IInv'
    BY <2>1, ActivateKeeps, RotateKeeps
  <2>2. /\ \A s \in Shells, u \in joined : CreateShell(s, u) => IInv'
        /\ \A s \in Shells, u \in Users : CreateUser(s, u) => IInv'
    BY CreateShellKeeps, CreateUserKeeps
  <2>3. ASSUME NEW s \in Shells, NEW to \in joined \cup {NoUser}, Assign(s, to) PROVE IInv'
    BY <2>3, AssignKeeps
  <2>4. ASSUME NEW c \in Clients, ToggleWrite(c) \/ \E s \in Shells : ToggleRead(c, s) PROVE IInv'
    BY <2>4, ToggleWriteKeeps, ToggleReadKeeps
  <2>5. ASSUME NEW e \in Ensurers, EnsureRead(e) \/ EnsureMint(e) \/ EnsureLost(e) PROVE IInv'
    BY <2>5, EnsureMintKeeps, OthersKeep
  <2>6. CASE TurnBegin \/ TurnEnd \/ UNCHANGED vars
    BY <2>6, OthersKeep
  <2> QED  BY <2>1, <2>2, <2>3, <2>4, <2>5, <2>6 DEF Next
<1> QED  BY <1>1, <1>2, PTL DEF Spec

\* Every variable has its type in every reachable state.
THEOREM AccessTypes == Spec => []TypeOK
<1>1. IInv => TypeOK  BY DEF IInv
<1> QED  BY <1>1, AccessInductive, PTL

\* New users, activations and toggles in any order leave a user at most one chat
\* target.  Left out are the users whom a step has handed a second one: those come
\* from two kinds of steps only (SecondTargetHandedOver), and are back among the
\* others with the next activation or toggle of a shell of theirs.
THEOREM TargetsLone == Spec => []OneTarget
<1>1. IInv => OneTarget
  <2> SUFFICES ASSUME IInv, NEW u \in Users \ strayed PROVE Cardinality(Targets(u)) <= 1
    BY DEF OneTarget
  <2>1. CASE Targets(u) = {}
    BY <2>1, FS_EmptySet
  <2>2. CASE Targets(u) # {}
    <3>1. PICK s : s \in Targets(u)
      BY <2>2
    <3>2. \A t \in Targets(u) : t = s
      BY <3>1 DEF IInv, LoneTarget
    <3>3. Targets(u) = {s}
      BY <3>1, <3>2
    <3>4. Cardinality({s}) = 1
      BY FS_Singleton
    <3> QED  BY <3>3, <3>4
  <2> QED  BY <2>1, <2>2
<1> QED  BY <1>1, AccessInductive, PTL

\* The two ways in which user u, whoever it is, gets a second chat target: an
\* assignment of a target, and a toggle that switches the flag on with what it read
\* before the shell became u's.
HandsOver(u) ==
    \/ \E s \in Existing : Assign(s, u) /\ shells[s].chat
    \/ \E c \in Clients : /\ ToggleWrite(c)
                          /\ ~toggles[c].chat /\ toggles[c].owner # u
                          /\ shells[toggles[c].shell].owner = u

\* The targets of u are after a step none but those before it, or one alone.
NoSecond(u) == Targets(u)' \subseteq Targets(u) \/ \E s \in Shells : Targets(u)' \subseteq {s}

LEMMA RetargetedTargets ==
    ASSUME IInv, NEW s \in Shells, NEW v \in Users, shells' = Retargeted(s, v),
           NEW u \in Users, u = v \/ shells[s].owner # u
    PROVE  NoSecond(u)
<1>1. ASSUME NEW t \in Targets(u)' PROVE IF u = v THEN t = s ELSE t \in Targets(u)
  <2>1. t \in Shells /\ shells'[t].exists /\ shells'[t].owner = u /\ shells'[t].chat
    BY DEF Targets, Owned, Existing
  <2>2. t \in Owned(u)
    BY <2>1, RetargetedRows DEF IInv, Owned, Existing
  <2>3. shells'[t].chat = (t = s \/ (shells[t].chat /\ t \notin Owned(v)))
    BY <2>1, RetargetedRows DEF IInv
  <2> QED  BY <2>1, <2>2, <2>3 DEF Targets, Owned
<1> QED  BY <1>1 DEF NoSecond

LEMMA StepTargets ==
    ASSUME IInv, [Next]_vars, NEW u \in Users PROVE NoSecond(u) \/ HandsOver(u)
<1>1. ASSUME NEW s \in Shells, Activate(s) PROVE NoSecond(u)
  <2>1. shells[s].owner \in Users /\ shells' = Retargeted(s, shells[s].owner)
    BY <1>1, ShellTypes DEF IInv, Activate, Shell
  <2>2. PICK v \in Users : v = shells[s].owner
    BY <2>1
  <2> QED  BY <2>1, <2>2, RetargetedTargets
<1>2. ASSUME NEW s \in Shells, Rotate(s) PROVE NoSecond(u)
  <2>1. shells' = [shells EXCEPT ![s] = Minted(shells[s], drawn + 1)] /\ shells[s] \in Shell
    BY <1>2, ShellTypes DEF IInv, Rotate, TypeOK
  <2>2. \A t \in Shells : shells'[t].exists = shells[t].exists /\ shells'[t].owner = shells[t].owner
                          /\ shells'[t].chat = shells[t].chat
    BY <2>1 DEF IInv, TypeOK, Shell, Minted
  <2> QED  BY <2>2 DEF NoSecond, Targets, Owned, Existing
<1>3. ASSUME NEW s \in Shells, NEW v \in Users, s \notin Existing, NEW chat \in BOOLEAN,
             shells' = [shells EXCEPT ![s] = Inserted(v, chat)],
             chat => v \notin joined
      PROVE  NoSecond(u)
  <2>1. \A t \in Shells \ {s} : shells'[t] = shells[t]
    BY <1>3 DEF IInv, TypeOK
  <2>2. shells'[s].owner = v /\ shells'[s].chat = chat
    BY <1>3 DEF IInv, TypeOK, Inserted, Minted
  <2>3. Targets(u)' \subseteq Targets(u) \cup {s}
    BY <2>1 DEF Targets, Owned, Existing
  <2>4. CASE chat /\ u = v
    <3>1. Targets(u) = {}
      BY <1>3, <2>4, ShellAccessAssumption DEF IInv, RowsInUse, Targets, Owned, Existing
    <3> QED  BY <2>3, <3>1 DEF NoSecond
  <2>5. CASE ~(chat /\ u = v)
    <3>1. s \notin Targets(u)'
      BY <2>2, <2>5 DEF Targets, Owned
    <3> QED  BY <2>3, <3>1 DEF NoSecond
  <2> QED  BY <2>4, <2>5
<1>4. ASSUME NEW s \in Shells, NEW v \in joined, CreateShell(s, v) PROVE NoSecond(u)
  <2>1. v \in Users /\ s \notin Existing /\ shells' = [shells EXCEPT ![s] = Inserted(v, FALSE)]
    BY <1>4 DEF IInv, TypeOK, CreateShell
  <2> QED  BY <1>3, <2>1
<1>5. ASSUME NEW s \in Shells, NEW v \in Users, CreateUser(s, v) PROVE NoSecond(u)
  <2>1. v \notin joined /\ s \notin Existing /\ shells' = [shells EXCEPT ![s] = Inserted(v, TRUE)]
    BY <1>5 DEF CreateUser
  <2> QED  BY <1>3, <2>1
<1>6. ASSUME NEW s \in Shells, NEW to \in joined \cup {NoUser}, Assign(s, to)
      PROVE  NoSecond(u) \/ HandsOver(u)
  <2>1. s \in Existing /\ shells' = [shells EXCEPT ![s].owner = to]
    BY <1>6 DEF Assign
  <2>2. /\ \A t \in Shells \ {s} : shells'[t] = shells[t]
        /\ shells'[s].owner = to /\ shells'[s].chat = shells[s].chat
    BY <2>1, ShellTypes DEF IInv, TypeOK, Shell
  <2>3. CASE u = to /\ shells[s].chat
    BY <1>6, <2>1, <2>3 DEF HandsOver
  <2>4. CASE ~(u = to /\ shells[s].chat)
    BY <2>1, <2>2, <2>4 DEF NoSecond, Targets, Owned, Existing
  <2> QED  BY <2>3, <2>4
<1>7. ASSUME NEW c \in Clients, ToggleWrite(c) PROVE NoSecond(u) \/ HandsOver(u)
  <2> DEFINE r == toggles[c]
  <2>1. r.shell \in Shells /\ r.owner \in Users
    BY <1>7 DEF ToggleWrite, IInv, RowsInUse, TypeOK
  <2>2. CASE r.chat
    <3>1. shells' = [shells EXCEPT ![r.shell].chat = FALSE]
      BY <1>7, <2>2 DEF ToggleWrite
    <3> QED  BY <2>1, <3>1 DEF IInv, TypeOK, NoSecond, Targets, Owned, Existing
  <2>3. CASE ~r.chat /\ (u = r.owner \/ shells[r.shell].owner # u)
    <3>1. shells' = Retargeted(r.shell, r.owner)
      BY <1>7, <2>3 DEF ToggleWrite
    <3> QED  BY <2>1, <2>3, <3>1, RetargetedTargets
  <2>4. CASE ~r.chat /\ u # r.owner /\ shells[r.shell].owner = u
    BY <1>7, <2>4 DEF HandsOver
  <2> QED  BY <2>2, <2>3, <2>4
<1>8. ASSUME UNCHANGED shells PROVE NoSecond(u)
  BY <1>8 DEF NoSecond, Targets, Owned, Existing
<1>9. ASSUME NEW e \in Ensurers, EnsureMint(e) PROVE NoSecond(u)
  <2> DEFINE S == ensures[e]
             n == Cardinality(S)
  <2>1. PICK f \in [S -> (drawn + 1)..(drawn + n)] :
           shells' = [s \in Shells |-> IF s \in S THEN Minted(shells[s], f[s]) ELSE shells[s]]
    BY <1>9 DEF EnsureMint
  <2> HIDE DEF S, n
  <2>2. \A t \in Shells : shells[t] \in Shell
    BY ShellTypes DEF IInv
  <2>3. \A t \in Shells : shells'[t].exists = shells[t].exists /\ shells'[t].owner = shells[t].owner
                          /\ shells'[t].chat = shells[t].chat
    BY <2>1, <2>2 DEF Shell, Minted
  <2> QED  BY <2>3 DEF NoSecond, Targets, Owned, Existing
<1> QED
  BY <1>1, <1>2, <1>4, <1>5, <1>6, <1>7, <1>8, <1>9
  DEF Next, ToggleRead, EnsureRead, EnsureLost, TurnBegin, TurnEnd, vars

Lone(u) == \A s, t \in Targets(u) : s = t

\* No user, those left out of OneTarget included, goes from at most one chat target
\* to two but by one of the two ways of HandsOver.
THEOREM SecondTargetHandedOver ==
    Spec => [][\A u \in Users : Lone(u) /\ ~Lone(u)' => HandsOver(u)]_vars
<1>1. ASSUME IInv, [Next]_vars, NEW u \in Users, Lone(u), ~Lone(u)' PROVE HandsOver(u)
  BY <1>1, StepTargets DEF NoSecond, Lone
<1>2. IInv /\ [Next]_vars => [\A u \in Users : Lone(u) /\ ~Lone(u)' => HandsOver(u)]_vars
  BY <1>1
<1> QED  BY <1>2, AccessInductive, PTL DEF Spec

\* The key a turn has read at its start opens its own shell and no other until it is
\* replaced, whatever keys are minted and rotated for other shells meanwhile.
THEOREM TurnsResolve == Spec => []TurnKeyResolves
<1>1. IInv => TurnKeyResolves
  <2> SUFFICES ASSUME IInv, turn.fresh
               PROVE  /\ Keyed(turn.key) = {turn.shell}
                      /\ PassesOwner(Resolved(NoUser, turn.key), turn.shell)
    BY DEF TurnKeyResolves
  <2>1. turn.shell \in Existing /\ turn.key = shells[turn.shell].key /\ turn.key # 0
    BY DEF IInv, TurnHasKey
  <2>2. Keyed(turn.key) = {turn.shell}
    BY <2>1 DEF IInv, KeysMatch, Keyed, Existing
  <2>3. Resolved(NoUser, turn.key).shell = turn.shell
    BY <2>1, <2>2 DEF Resolved
  <2>4. turn.shell # NoShell
    BY <2>1, ShellAccessAssumption DEF Existing
  <2> QED  BY <2>2, <2>3, <2>4 DEF PassesOwner
<1> QED  BY <1>1, AccessInductive, PTL
=============================================================================
