--------------------------- MODULE FlagTreeProofs ---------------------------
(***************************************************************************)
(* The parent links stay a forest of live flags for any flags and any      *)
(* number of concurrent requests, unless one of the two races of module    *)
(* FlagTree has happened.  IInv adds to the properties what a request      *)
(* knows from its validation as long as nothing has outdated it.           *)
(***************************************************************************)
EXTENDS FlagTree, TLAPS

\* Links lead to rows of the table, and rows are never removed from it.
Rooted ==
    \A f \in Flags :
        /\ ~flag[f].exists => flag[f].parent = NoFlag /\ ~flag[f].deleted
        /\ flag[f].parent # NoFlag => flag[flag[f].parent].exists

\* What any request has found out still exists.
Target(c) ==
    /\ req[c].op \notin {"none", "create"} => req[c].id \in Flags /\ flag[req[c].id].exists
    /\ req[c].pc \in {"found", "walked"} => req[c].to = NoFlag \/ flag[req[c].to].exists
    /\ req[c].pc = "walked" => req[c].op = "attach"
    /\ req[c].pc = "found" => req[c].op \in {"create", "attach"}
    /\ req[c].op = "attach" => req[c].to \in Flags

\* What a request whose validation is not outdated may rely on.
Relies(c) ==
    ~req[c].outdated =>
        /\ req[c].pc \in {"found", "walked"} => req[c].to = NoFlag \/ Live(req[c].to)
        /\ req[c].pc = "walked" => ~InChain(req[c].id, req[c].to)

IInv == /\ TypeOK
        /\ Rooted
        /\ \A c \in Clients : Target(c)
        /\ raced \/ (Acyclic /\ LiveParents /\ \A c \in Clients : Relies(c))

(***************************************************************************)
(* Walking up                                                              *)
(***************************************************************************)

\* Everything above a flag of U is in U.
Upward(U) == U \subseteq Flags /\ \A x \in U : flag[x].parent \in U \cup {NoFlag}

\* A flag that is not in the chain from p is kept out by an upward set.
LEMMA NotInChain ==
    ASSUME NEW f, NEW p
    PROVE  ~InChain(f, p) <=> \E U : Upward(U) /\ p \in U /\ f \notin U
BY DEF InChain, Upward

(***************************************************************************)
(* Transactions and the forest                                             *)
(***************************************************************************)

\* No step but Attach makes a loop or puts f into the chain from p.
NoNewChains ==
    /\ Acyclic => Acyclic'
    /\ \A f, p \in Flags : flag[p].exists /\ ~InChain(f, p) => ~InChain(f, p)'

\* Links that are kept or cut make no loop and no chain.
LEMMA FewerLinks ==
    ASSUME FlagAssumption, flag \in [Flags -> Row], flag' \in [Flags -> Row],
           \A x \in Flags : flag'[x].parent \in {flag[x].parent, NoFlag}
    PROVE  NoNewChains
<1>1. \A S : Loop(S)' /\ S \subseteq Flags => Loop(S)
  BY DEF Loop, FlagAssumption
<1>2. \A U : Upward(U) => Upward(U)'  BY DEF Upward
<1>3. Acyclic => Acyclic'  BY <1>1 DEF Acyclic
<1>4. ASSUME NEW f \in Flags, NEW p \in Flags, ~InChain(f, p)
      PROVE  ~InChain(f, p)'
  <2>1. PICK U : Upward(U) /\ p \in U /\ f \notin U  BY <1>4, NotInChain
  <2>2. Upward(U)'  BY <1>2, <2>1
  <2> QED  BY <2>1, <2>2 DEF InChain, Upward
<1> QED  BY <1>3, <1>4 DEF NoNewChains

\* A new flag is a leaf.
LEMMA NewLeaf ==
    ASSUME FlagAssumption, flag \in [Flags -> Row], flag' \in [Flags -> Row], Rooted,
           NEW n \in Flags, ~flag[n].exists, NEW to \in Parents,
           to # NoFlag => flag[to].exists,
           flag'[n].parent = to,
           \A x \in Flags \ {n} : flag'[x].parent = flag[x].parent
    PROVE  NoNewChains
<1>1. \A x \in Flags : flag[x].parent # n
  BY DEF Rooted, Row, Parents, FlagAssumption
<1>2. ASSUME NEW S \in SUBSET Flags, Loop(S)' PROVE Loop(S \ {n})
  <2>1. CASE n \in S
    <3>1. to \in S /\ to # n  BY <1>2, <2>1 DEF Loop, FlagAssumption
    <3> QED  BY <1>1, <1>2, <3>1 DEF Loop
  <2>2. CASE n \notin S  BY <1>2, <2>2 DEF Loop
  <2> QED  BY <2>1, <2>2
<1>3. Acyclic => Acyclic'  BY <1>2 DEF Acyclic
<1>4. ASSUME NEW f \in Flags, NEW p \in Flags, flag[p].exists, ~InChain(f, p)
      PROVE  ~InChain(f, p)'
  <2>1. PICK U : Upward(U) /\ p \in U /\ f \notin U  BY <1>4, NotInChain
  <2>2. Upward(U \ {n})'  BY <1>1, <2>1 DEF Upward
  <2>3. p \in U \ {n} /\ f \notin U \ {n}  BY <1>4, <2>1
  <2> QED  BY <2>2, <2>3 DEF InChain, Upward
<1> QED  BY <1>3, <1>4 DEF NoNewChains

\* Children given to the grandparent.
LEMMA Reparented ==
    ASSUME FlagAssumption, flag \in [Flags -> Row], flag' \in [Flags -> Row],
           NEW x \in Flags,
           \A y \in Flags : flag'[y].parent = IF flag[y].parent = x THEN flag[x].parent
                                              ELSE flag[y].parent
    PROVE  NoNewChains
<1>1. ASSUME NEW S \in SUBSET Flags, Loop(S)' PROVE Loop(S) \/ Loop(S \cup {x})
  <2>1. CASE \E y \in S : flag[y].parent = x
    <3>1. flag[x].parent \in S  BY <1>1, <2>1 DEF Loop
    <3>2. \A y \in S \cup {x} : flag[y].parent \in S \cup {x}
      BY <1>1, <3>1 DEF Loop
    <3> QED  BY <1>1, <3>2 DEF Loop
  <2>2. CASE ~ \E y \in S : flag[y].parent = x  BY <1>1, <2>2 DEF Loop
  <2> QED  BY <2>1, <2>2
<1>2. Acyclic => Acyclic'  BY <1>1 DEF Acyclic
<1>3. ASSUME NEW U, Upward(U) PROVE Upward(U)'
  BY <1>3 DEF Upward, FlagAssumption
<1>4. ASSUME NEW f \in Flags, NEW p \in Flags, ~InChain(f, p)
      PROVE  ~InChain(f, p)'
  <2>1. PICK U : Upward(U) /\ p \in U /\ f \notin U  BY <1>4, NotInChain
  <2>2. Upward(U)'  BY <1>3, <2>1
  <2> QED  BY <2>1, <2>2 DEF InChain, Upward
<1> QED  BY <1>2, <1>4 DEF NoNewChains

\* A flag attached below a flag it is not above.
LEMMA Attached ==
    ASSUME FlagAssumption, flag \in [Flags -> Row], flag' \in [Flags -> Row],
           NEW f \in Flags, NEW p \in Flags, ~InChain(f, p), Acyclic,
           flag'[f].parent = p,
           \A x \in Flags \ {f} : flag'[x].parent = flag[x].parent
    PROVE  Acyclic'
<1> SUFFICES ASSUME NEW S \in SUBSET Flags, Loop(S)' PROVE FALSE  BY DEF Acyclic
<1>1. PICK U : Upward(U) /\ p \in U /\ f \notin U  BY NotInChain
<1>2. CASE f \notin S
  <2>1. Loop(S)  BY <1>2 DEF Loop
  <2> QED  BY <2>1 DEF Acyclic
<1>3. CASE f \in S
  <2>1. p \in S  BY <1>3 DEF Loop
  <2>2. Loop(S \cap U)
    BY <1>1, <2>1 DEF Loop, Upward, FlagAssumption
  <2> QED  BY <2>2 DEF Acyclic
<1> QED  BY <1>2, <1>3

(***************************************************************************)
(* Steps                                                                   *)
(***************************************************************************)

\* Links lead to rows, and requests know rows, after any step.
LEMMA StepTypes ==
    ASSUME FlagAssumption, TypeOK, Rooted, \A c \in Clients : Target(c), [Next]_vars
    PROVE  /\ TypeOK' /\ Rooted' /\ (\A c \in Clients : Target(c))'
           /\ \A f \in Flags : flag[f].exists => flag'[f].exists
<1> DEFINE Goal == /\ TypeOK' /\ Rooted' /\ (\A c \in Clients : Target(c))'
                   /\ \A f \in Flags : flag[f].exists => flag'[f].exists
<1>1. ASSUME UNCHANGED vars PROVE Goal
  BY <1>1 DEF vars, TypeOK, Rooted, Target
<1>2. ASSUME NEW c \in Clients, NEW r \in Request, Open(c, r),
             r.pc = "seen", r.op = "attach" => r.to \in Flags,
             r.op \notin {"none", "create"} => r.id \in Flags /\ flag[r.id].exists
      PROVE  Goal
  <2>1. req' \in [Clients -> Request]  BY <1>2 DEF Open, TypeOK
  <2>2. (\A d \in Clients : Target(d))'  BY <1>2 DEF Open, TypeOK, Target
  <2> QED  BY <1>2, <2>1, <2>2 DEF Open, TypeOK, Rooted
<1>3. ASSUME NEW c \in Clients, Begin(c) PROVE Goal
  <2>1. ASSUME NEW to \in Parents, NEW dated \in BOOLEAN, BeginCreate(c, to, dated) PROVE Goal
    BY <1>2, <2>1 DEF BeginCreate, Idle, Request, Parents
  <2>2. ASSUME NEW f \in Flags, NEW to \in Flags, NEW dated \in BOOLEAN,
               BeginAttach(c, f, to, dated)
        PROVE  Goal
    BY <1>2, <2>2 DEF BeginAttach, Idle, Request, Parents, Live
  <2>3. ASSUME NEW f \in Flags, BeginDetach(c, f) PROVE Goal
    BY <1>2, <2>3 DEF BeginDetach, Idle, Request, Parents, Live
  <2>4. ASSUME NEW f \in Flags, NEW dated \in BOOLEAN, BeginDate(c, f, dated) PROVE Goal
    BY <1>2, <2>4 DEF BeginDate, Idle, Request, Parents, Live
  <2>5. ASSUME NEW f \in Flags, BeginDelete(c, f) PROVE Goal
    BY <1>2, <2>5 DEF BeginDelete, Idle, Request, Parents, Live
  <2> QED  BY <1>3, <2>1, <2>2, <2>3, <2>4, <2>5 DEF Begin
<1>4. Idle \in Request  BY DEF Idle, Request, Parents
<1>5. ASSUME NEW c \in Clients, ValidateParent(c) \/ CheckNoCycle(c) PROVE Goal
  <2>1. req' \in [Clients -> Request]
    BY <1>4, <1>5 DEF ValidateParent, CheckNoCycle, Checked, TypeOK, Request
  <2>2. (\A d \in Clients : Target(d))'
    BY <1>5 DEF ValidateParent, CheckNoCycle, Checked, TypeOK, Target, Idle, Live, Request
  <2> QED  BY <1>5, <2>1, <2>2 DEF ValidateParent, CheckNoCycle, Checked, TypeOK, Rooted
<1>6. ASSUME NEW c \in Clients, NEW rows, Commit(c, rows),
             rows \in [Flags -> Row],
             \A f \in Flags : flag[f].exists => rows[f].exists,
             \A f \in Flags : /\ ~rows[f].exists => rows[f].parent = NoFlag /\ ~rows[f].deleted
                              /\ rows[f].parent # NoFlag => rows[rows[f].parent].exists
      PROVE  Goal
  <2>1. req' \in [Clients -> Request]
    BY <1>4, <1>6 DEF Commit, TypeOK, Request
  <2>2. raced' \in BOOLEAN  BY <1>6 DEF Commit, TypeOK, Request
  <2>3. (\A d \in Clients : Target(d))'
    <3> SUFFICES ASSUME NEW d \in Clients PROVE Target(d)'  OBVIOUS
    <3>1. CASE d = c  BY <1>6, <3>1 DEF Commit, Target, Idle
    <3>2. CASE d # c
      <4>1. /\ req'[d].pc = req[d].pc /\ req'[d].op = req[d].op
            /\ req'[d].id = req[d].id /\ req'[d].to = req[d].to
        BY <1>6, <3>2 DEF Commit, TypeOK, Request
      <4>2. req[d].to \in Parents  BY DEF TypeOK, Request
      <4> QED  BY <1>6, <4>1, <4>2 DEF Commit, Target, Parents
    <3> QED  BY <3>1, <3>2
  <2> QED  BY <1>6, <2>1, <2>2, <2>3 DEF Commit, TypeOK, Rooted
<1>7. ASSUME NEW c \in Clients, Create(c) PROVE Goal
  <2>1. PICK f \in Flags : /\ ~flag[f].exists
                           /\ Commit(c, [flag EXCEPT ![f] =
                                [exists |-> TRUE, deleted |-> FALSE,
                                 parent |-> req[c].to, dated |-> req[c].dated]])
    BY <1>7 DEF Create
  <2> DEFINE rows == [flag EXCEPT ![f] = [exists |-> TRUE, deleted |-> FALSE,
                                          parent |-> req[c].to, dated |-> req[c].dated]]
  <2>2. req[c].to \in Parents /\ req[c].dated \in BOOLEAN
        /\ (req[c].to = NoFlag \/ flag[req[c].to].exists)
    BY <1>7 DEF Create, TypeOK, Request, Target
  <2>3. rows \in [Flags -> Row]  BY <2>2 DEF TypeOK, Row
  <2>4. \A x \in Flags : flag[x].exists => rows[x].exists  BY DEF TypeOK, Row
  <2>5. \A x \in Flags : /\ ~rows[x].exists => rows[x].parent = NoFlag /\ ~rows[x].deleted
                         /\ rows[x].parent # NoFlag => rows[rows[x].parent].exists
    BY <2>2, <2>4 DEF TypeOK, Row, Parents, Rooted
  <2> HIDE DEF rows
  <2> QED  BY <1>6, <2>1, <2>3, <2>4, <2>5 DEF rows
<1>8. ASSUME NEW c \in Clients, NEW rows, Commit(c, rows), rows \in [Flags -> Row],
             \A f \in Flags : /\ rows[f].exists = flag[f].exists
                              /\ rows[f].deleted => flag[f].deleted \/ flag[f].exists
                              /\ \/ rows[f].parent \in {flag[f].parent, NoFlag}
                                 \/ /\ flag[f].exists
                                    /\ \/ rows[f].parent = NoFlag
                                       \/ rows[f].parent \in Flags /\ flag[rows[f].parent].exists
      PROVE  Goal
  <2>1. \A f \in Flags : /\ ~rows[f].exists => rows[f].parent = NoFlag /\ ~rows[f].deleted
                         /\ rows[f].parent # NoFlag => rows[rows[f].parent].exists
    BY <1>8 DEF Rooted, Row, Parents, TypeOK
  <2> QED  BY <1>6, <1>8, <2>1
<1>9. ASSUME NEW c \in Clients, Attach(c) PROVE Goal
  <2> DEFINE rows == [flag EXCEPT ![req[c].id].parent = req[c].to,
                                  ![req[c].id].dated = @ \/ req[c].dated]
  <2>1. req[c].id \in Flags /\ flag[req[c].id].exists /\ req[c].to \in Flags
        /\ (req[c].to = NoFlag \/ flag[req[c].to].exists)
    BY <1>9 DEF Attach, Target
  <2>2. rows \in [Flags -> Row]
    BY <2>1 DEF TypeOK, Row, Request, Parents
  <2>3. \A x \in Flags : /\ rows[x].exists = flag[x].exists /\ rows[x].deleted = flag[x].deleted
                         /\ rows[x].parent = IF x = req[c].id THEN req[c].to ELSE flag[x].parent
    BY <2>1 DEF TypeOK, Row
  <2>4. Commit(c, rows)  BY <1>9 DEF Attach
  <2> HIDE DEF rows
  <2> QED  BY <1>8, <2>1, <2>2, <2>3, <2>4, FlagAssumption
<1>10. ASSUME NEW c \in Clients, Detach(c) PROVE Goal
  <2> DEFINE rows == [flag EXCEPT ![req[c].id].parent = NoFlag]
  <2>1. rows \in [Flags -> Row]  BY DEF TypeOK, Row, Parents
  <2>2. \A x \in Flags : /\ rows[x].exists = flag[x].exists /\ rows[x].deleted = flag[x].deleted
                         /\ rows[x].parent \in {flag[x].parent, NoFlag}
    BY DEF TypeOK, Row
  <2>3. Commit(c, rows)  BY <1>10 DEF Detach
  <2> HIDE DEF rows
  <2> QED  BY <1>8, <2>1, <2>2, <2>3
<1>11. ASSUME NEW c \in Clients, SetStartDate(c) PROVE Goal
  <2> DEFINE rows == [flag EXCEPT ![req[c].id].dated = req[c].dated]
  <2>1. rows \in [Flags -> Row]  BY DEF TypeOK, Row, Request
  <2>2. \A x \in Flags : /\ rows[x].exists = flag[x].exists /\ rows[x].deleted = flag[x].deleted
                         /\ rows[x].parent = flag[x].parent
    BY DEF TypeOK, Row
  <2>3. Commit(c, rows)  BY <1>11 DEF SetStartDate
  <2> HIDE DEF rows
  <2> QED  BY <1>8, <2>1, <2>2, <2>3
<1>12. ASSUME NEW c \in Clients, Delete(c) PROVE Goal
  <2> DEFINE rows == Without(req[c].id, flag[req[c].id].parent)
  <2>1. req[c].id \in Flags /\ flag[req[c].id].exists  BY <1>12 DEF Delete, Target
  <2>2. flag[req[c].id].parent \in Parents  BY <2>1 DEF TypeOK, Row
  <2>3. rows \in [Flags -> Row]  BY <2>2 DEF Without, TypeOK, Row
  <2>4. \A x \in Flags : /\ rows[x].exists = flag[x].exists
                         /\ rows[x].deleted => flag[x].deleted \/ x = req[c].id
                         /\ rows[x].parent = IF flag[x].parent = req[c].id
                                             THEN flag[req[c].id].parent ELSE flag[x].parent
    BY DEF Without, TypeOK, Row
  <2>5. \A x \in Flags : flag[x].parent = req[c].id => flag[x].exists
    BY <2>1, FlagAssumption DEF Rooted
  <2>6. \/ flag[req[c].id].parent = NoFlag
        \/ flag[req[c].id].parent \in Flags /\ flag[flag[req[c].id].parent].exists
    BY <2>1, <2>2 DEF Rooted, Parents
  <2>7. Commit(c, rows)  BY <1>12 DEF Delete
  <2> HIDE DEF rows
  <2> QED  BY <1>8, <2>1, <2>3, <2>4, <2>5, <2>6, <2>7
<1> QED
  BY <1>1, <1>3, <1>5, <1>7, <1>9, <1>10, <1>11, <1>12 DEF Next, Handle

\* The forest, and what requests rely on.
Forest == Acyclic /\ LiveParents /\ \A c \in Clients : Relies(c)

\* A transaction that keeps the forest outdates every request it harms.
LEMMA CommitKeeps ==
    ASSUME FlagAssumption, TypeOK,
           \A d \in Clients : Target(d), \A d \in Clients : Relies(d),
           NEW c \in Clients, Commit(c, flag'), Acyclic', LiveParents',
           \A f \in Flags : Live(f) => Live(f)' \/ (req[c].op = "delete" /\ f = req[c].id),
           req[c].op = "attach" \/ NoNewChains
    PROVE  Forest'
<1> SUFFICES ASSUME NEW d \in Clients PROVE Relies(d)'  BY DEF Forest
<1>1. CASE d = c  BY <1>1 DEF Commit, Relies, Idle
<1>2. CASE d # c
  <2>1. PICK t, i : t = req[d].to /\ i = req[d].id  OBVIOUS
  <2>2. req[d] \in Request  BY DEF TypeOK
  <2>3. req'[d].pc = req[d].pc /\ req'[d].to = t /\ req'[d].id = i
    BY <1>2, <2>1, <2>2 DEF Commit, Request
  <2> SUFFICES ASSUME ~req'[d].outdated
               PROVE  /\ req[d].pc \in {"found", "walked"} => t = NoFlag \/ Live(t)'
                      /\ req[d].pc = "walked" => ~InChain(i, t)'
    BY <2>3 DEF Relies, InChain, Live
  <2>4. ~req[d].outdated /\ ~Outdates(c, d)
    BY <1>2, <2>2 DEF Commit, Request
  <2>5. ASSUME req[d].pc \in {"found", "walked"} PROVE t = NoFlag \/ (Live(t) /\ Live(t)')
    <3>1. t = NoFlag \/ Live(t)  BY <2>1, <2>4, <2>5 DEF Relies
    <3>2. ~(req[c].op = "delete" /\ t = req[c].id)  BY <2>1, <2>4, <2>5 DEF Outdates
    <3>3. Live(t) => t \in Flags  BY DEF Live
    <3> QED  BY <3>1, <3>2, <3>3
  <2>6. ASSUME req[d].pc = "walked" PROVE ~InChain(i, t)'
    <3>1. ~InChain(i, t)  BY <2>1, <2>4, <2>6 DEF Relies
    <3>2. NoNewChains  BY <2>4, <2>6 DEF Outdates
    <3>3. i \in Flags /\ t \in Flags  BY <2>1, <2>6 DEF Target
    <3>4. flag[t].exists  BY <2>5, <2>6, <3>3, FlagAssumption DEF Live
    <3> QED  BY <3>1, <3>2, <3>3, <3>4 DEF NoNewChains
  <2> QED  BY <2>5, <2>6
<1> QED  BY <1>1, <1>2

\* Unless a race has happened, any step keeps the forest.
LEMMA StepForest ==
    ASSUME FlagAssumption, IInv, [Next]_vars
    PROVE  (raced \/ Forest)'
<1> SUFFICES ASSUME ~raced' PROVE Forest'  OBVIOUS
<1>1. /\ TypeOK /\ Rooted /\ \A d \in Clients : Target(d)
      /\ TypeOK' /\ Rooted' /\ \A f \in Flags : flag[f].exists => flag'[f].exists
  BY StepTypes DEF IInv
<1>2. ~raced
  BY DEF Next, Begin, BeginCreate, BeginAttach, BeginDetach, BeginDate, BeginDelete, Open,
         Handle, ValidateParent, CheckNoCycle, Checked, Create, Attach, Detach,
         SetStartDate, Delete, Commit, vars
<1>3. Forest  BY <1>2 DEF IInv, Forest
<1>4. ASSUME UNCHANGED flag, \A d \in Clients : Relies(d)' PROVE Forest'
  BY <1>3, <1>4 DEF Forest, Acyclic, Loop, LiveParents, Live
<1>5. CASE UNCHANGED vars
  BY <1>3, <1>4, <1>5 DEF vars, Forest, Relies, InChain, Live
<1>6. ASSUME NEW c \in Clients, NEW r, Open(c, r), r.pc = "seen" PROVE Forest'
  <2>1. \A d \in Clients : Relies(d)'
    BY <1>1, <1>3, <1>6 DEF Forest, Open, TypeOK, Relies, InChain, Live
  <2> QED  BY <1>4, <1>6, <2>1 DEF Open
<1>7. ASSUME NEW c \in Clients, Begin(c) PROVE Forest'
  BY <1>6, <1>7 DEF Begin, BeginCreate, BeginAttach, BeginDetach, BeginDate, BeginDelete, Idle
<1>8. ASSUME NEW c \in Clients, ValidateParent(c) PROVE Forest'
  <2>1. \A d \in Clients : Relies(d)'
    BY <1>1, <1>3, <1>8
    DEF Forest, ValidateParent, Checked, Idle, TypeOK, Request, Relies, InChain, Live
  <2> QED  BY <1>4, <1>8, <2>1 DEF ValidateParent, Checked
<1>9. ASSUME NEW c \in Clients, CheckNoCycle(c) PROVE Forest'
  <2>1. \A d \in Clients : Relies(d)'
    BY <1>1, <1>3, <1>9
    DEF Forest, CheckNoCycle, Checked, Idle, TypeOK, Request, Relies, InChain, Live
  <2> QED  BY <1>4, <1>9, <2>1 DEF CheckNoCycle, Checked
<1>10. ASSUME NEW c \in Clients, Create(c) PROVE Forest'
  <2>1. PICK f \in Flags : /\ ~flag[f].exists
                           /\ Commit(c, [flag EXCEPT ![f] =
                                [exists |-> TRUE, deleted |-> FALSE,
                                 parent |-> req[c].to, dated |-> req[c].dated]])
    BY <1>10 DEF Create
  <2>2. /\ flag'[f] = [exists |-> TRUE, deleted |-> FALSE,
                       parent |-> req[c].to, dated |-> req[c].dated]
        /\ \A x \in Flags \ {f} : flag'[x] = flag[x]
        /\ Commit(c, flag') /\ ~req[c].outdated
    BY <1>1, <2>1 DEF Commit, TypeOK
  <2>3. req[c].to \in Parents /\ (req[c].to = NoFlag \/ Live(req[c].to))
    BY <1>1, <1>3, <1>10, <2>2 DEF Create, Forest, Relies, TypeOK, Request
  <2>4. NoNewChains
    BY <1>1, <2>1, <2>2, <2>3, NewLeaf DEF TypeOK, Live
  <2>5. \A x \in Flags : Live(x) => x # f /\ Live(x)'  BY <2>1, <2>2 DEF Live
  <2>6. LiveParents'
    BY <1>3, <2>1, <2>2, <2>3, <2>5, FlagAssumption DEF Forest, LiveParents, Live
  <2> QED  BY <1>1, <1>3, <2>2, <2>4, <2>5, <2>6, CommitKeeps DEF Forest, NoNewChains
<1>11. ASSUME NEW c \in Clients, Attach(c) PROVE Forest'
  <2>1. PICK f, p : f = req[c].id /\ p = req[c].to  OBVIOUS
  <2>2. f \in Flags /\ p \in Flags  BY <1>1, <1>11, <2>1 DEF Attach, Target
  <2>3. /\ flag'[f].parent = p
        /\ \A x \in Flags \ {f} : flag'[x] = flag[x]
        /\ \A x \in Flags : Live(x) <=> Live(x)'
        /\ Commit(c, flag') /\ ~req[c].outdated
    <3> DEFINE rows == [flag EXCEPT ![f].parent = p, ![f].dated = @ \/ req[c].dated]
    <3>1. Commit(c, rows)  BY <1>11, <2>1 DEF Attach
    <3>2. /\ rows[f].parent = p
          /\ \A x \in Flags \ {f} : rows[x] = flag[x]
          /\ \A x \in Flags : rows[x].exists = flag[x].exists /\ rows[x].deleted = flag[x].deleted
      BY <1>1, <2>2 DEF TypeOK, Row
    <3> HIDE DEF rows
    <3>3. flag' = rows /\ ~req[c].outdated  BY <3>1 DEF Commit
    <3> QED  BY <3>1, <3>2, <3>3 DEF Live
  <2>4. req[c].op = "attach"  BY <1>1, <1>11 DEF Attach, Target
  <2>5. ~InChain(f, p) /\ Live(p)
    BY <1>3, <1>11, <2>1, <2>2, <2>3, FlagAssumption DEF Attach, Forest, Relies
  <2>6. Acyclic'  BY <1>1, <1>3, <2>2, <2>3, <2>5, Attached DEF TypeOK, Forest
  <2>7. LiveParents'
    BY <1>3, <2>2, <2>3, <2>5 DEF Forest, LiveParents, Live
  <2> QED  BY <1>1, <1>3, <2>3, <2>4, <2>6, <2>7, CommitKeeps DEF Forest
<1>12. ASSUME NEW c \in Clients, Detach(c) \/ SetStartDate(c) PROVE Forest'
  <2>1. /\ \A x \in Flags : flag'[x].parent \in {flag[x].parent, NoFlag}
        /\ \A x \in Flags : Live(x) <=> Live(x)'
        /\ Commit(c, flag')
    BY <1>1, <1>12 DEF Detach, SetStartDate, Commit, TypeOK, Row, Live
  <2>2. NoNewChains  BY <1>1, <2>1, FewerLinks DEF TypeOK
  <2>3. LiveParents'  BY <1>3, <2>1 DEF Forest, LiveParents, Live
  <2> QED  BY <1>1, <1>3, <2>1, <2>2, <2>3, CommitKeeps DEF Forest, NoNewChains
<1>13. ASSUME NEW c \in Clients, Delete(c) PROVE Forest'
  <2>1. PICK x : x = req[c].id  OBVIOUS
  <2>2. x \in Flags /\ req[c].op = "delete"  BY <1>1, <1>13, <2>1 DEF Delete, Target
  <2>3. /\ \A y \in Flags : flag'[y].parent = IF flag[y].parent = x THEN flag[x].parent
                                              ELSE flag[y].parent
        /\ \A y \in Flags : Live(y)' <=> Live(y) /\ y # x
        /\ Commit(c, flag')
    <3> DEFINE rows == Without(x, flag[x].parent)
    <3>1. Commit(c, rows)  BY <1>13, <2>1 DEF Delete
    <3>2. \A y \in Flags : /\ rows[y].exists = flag[y].exists
                           /\ rows[y].deleted = (flag[y].deleted \/ y = x)
                           /\ rows[y].parent = IF flag[y].parent = x THEN flag[x].parent
                                               ELSE flag[y].parent
      BY <1>1 DEF TypeOK, Row, Without
    <3> HIDE DEF rows
    <3>3. flag' = rows  BY <3>1 DEF Commit
    <3> QED  BY <3>1, <3>2, <3>3 DEF Live
  <2>4. NoNewChains  BY <1>1, <2>2, <2>3, Reparented DEF TypeOK
  <2>5. flag[x].parent # x
    <3>1. flag[x].parent = x => Loop({x})  BY DEF Loop
    <3> QED  BY <1>3, <2>2, <3>1 DEF Forest, Acyclic
  <2>6. LiveParents'
    <3> SUFFICES ASSUME NEW y \in Flags, Live(y)'
                 PROVE  flag'[y].parent = NoFlag \/ Live(flag[y].parent)'
      BY DEF LiveParents
    <3>1. Live(y) /\ y # x  BY <2>3
    <3>2. flag[y].parent = NoFlag \/ Live(flag[y].parent)  BY <1>3, <3>1 DEF Forest, LiveParents
    <3>3. CASE flag[y].parent = x
      <4>1. flag[x].parent = NoFlag \/ Live(flag[x].parent)
        BY <1>3, <2>2, <3>2, <3>3, FlagAssumption DEF Forest, LiveParents
      <4> QED  BY <2>3, <2>5, <3>3, <4>1 DEF Live
    <3>4. CASE flag[y].parent # x  BY <2>3, <3>2, <3>4 DEF Live
    <3> QED  BY <3>3, <3>4
  <2> QED  BY <1>1, <1>3, <2>1, <2>2, <2>3, <2>4, <2>6, CommitKeeps DEF Forest, NoNewChains
<1> QED
  BY <1>5, <1>7, <1>8, <1>9, <1>10, <1>11, <1>12, <1>13 DEF Next, Handle

(***************************************************************************)
(* Theorems                                                                *)
(***************************************************************************)

\* What requests know, and the forest unless a race has happened, hold forever.
THEOREM FlagInductive == Spec => []IInv
<1> USE FlagAssumption
<1>1. Init => IInv
  <2> SUFFICES ASSUME Init PROVE IInv  OBVIOUS
  <2>1. TypeOK  BY DEF Init, TypeOK, Row, NoRowYet, Request, Idle, Parents
  <2>2. Rooted /\ \A c \in Clients : Target(c)
    BY DEF Init, Rooted, Target, NoRowYet, Idle
  <2>3. Acyclic /\ LiveParents /\ \A c \in Clients : Relies(c)
    BY DEF Init, NoRowYet, Idle, Acyclic, Loop, LiveParents, Live, Relies
  <2> QED  BY <2>1, <2>2, <2>3 DEF IInv
<1>2. IInv /\ [Next]_vars => IInv'
  BY StepTypes, StepForest DEF IInv, Forest
<1> QED  BY <1>1, <1>2, PTL DEF Spec

\* Types of flags.py's rows and of a request's progress.
THEOREM FlagTypes == Spec => []TypeOK
<1>1. IInv => TypeOK  BY DEF IInv
<1> QED  BY <1>1, FlagInductive, PTL

\* Without a race that outdates a validation, _check_no_cycle and the
\* re-parenting of delete_flag keep the links free of loops.
THEOREM NoLoops == Spec => []NoLoopWithoutRace
<1>1. IInv => NoLoopWithoutRace  BY DEF IInv, NoLoopWithoutRace
<1> QED  BY <1>1, FlagInductive, PTL

\* Without such a race, no live flag hangs below a deleted one.
THEOREM NoOrphans == Spec => []NoOrphanWithoutRace
<1>1. IInv => NoOrphanWithoutRace  BY DEF IInv, NoOrphanWithoutRace
<1> QED  BY <1>1, FlagInductive, PTL

\* Without such a race, the flag_schedule view has a row for every live flag:
\* a set of live flags it missed would be a loop.
THEOREM AllScheduled == Spec => []AllScheduledWithoutRace
<1>1. IInv => AllScheduledWithoutRace
  <2> SUFFICES ASSUME IInv, ~raced, NEW S \in SUBSET Flags, Unreached(S) PROVE FALSE
    BY DEF AllScheduledWithoutRace
  <2>1. Loop(S)  BY DEF IInv, LiveParents, Unreached, Loop
  <2> QED  BY <2>1 DEF IInv, Acyclic
<1> QED  BY <1>1, FlagInductive, PTL
=============================================================================
