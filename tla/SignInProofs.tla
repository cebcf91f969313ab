---------------------------- MODULE SignInProofs ----------------------------
(***************************************************************************)
(* The promises of module SignIn hold for any emails, any finite number of *)
(* logins at a time and any times, windows and caps the assumption allows. *)
(***************************************************************************)
EXTENDS SignIn, FiniteSetTheorems, WellFoundedInduction, TLAPS

(***************************************************************************)
(* Numbers                                                                 *)
(***************************************************************************)

\* A set of numbers has a least one.
LEMMA LeastNat ==
    ASSUME NEW T \in SUBSET Nat, T # {}
    PROVE  \E x \in T : \A y \in T : x <= y
<1> DEFINE R == OpToRel(<, Nat)
<1>1. IsWellFoundedOn(R, Nat)
  BY NatLessThanWellFounded
<1>2. \A x, y \in Nat : x < y => <<x, y>> \in R
  BY DEF OpToRel
<1> HIDE DEF R
<1>3. PICK x \in T : \A y \in T : ~ (<<y, x>> \in R)
  BY <1>1, WFMin
<1>4. ASSUME NEW y \in T PROVE x <= y
  <2>1. x \in Nat /\ y \in Nat /\ ~(y < x)
    BY <1>2, <1>3
  <2> QED  BY <2>1
<1> QED  BY <1>4

\* Induction, for a set in the place of a predicate.
LEMMA NatSetInduction ==
    ASSUME NEW S, 0 \in S, \A n \in Nat : n \in S => n + 1 \in S
    PROVE  \A n \in Nat : n \in S
<1> SUFFICES ASSUME Nat \ S # {} PROVE FALSE
  OBVIOUS
<1>1. PICK n \in Nat \ S : \A m \in Nat \ S : n <= m
  BY LeastNat
<1>2. n # 0 /\ n - 1 \in Nat /\ n - 1 \notin S
  BY <1>1
<1> QED  BY <1>1, <1>2

\* A bounded set of numbers has a greatest one.
LEMMA GreatestNat ==
    ASSUME NEW T \in SUBSET Nat, T # {}, NEW n \in Nat, \A i \in T : i <= n
    PROVE  \E x \in T : \A y \in T : y <= x
<1> DEFINE U == {m \in Nat : \A i \in T : i <= m}
<1>1. U \subseteq Nat /\ n \in U
  OBVIOUS
<1>2. PICK m \in U : \A k \in U : m <= k
  BY <1>1, LeastNat
<1>3. m \in T
  <2> SUFFICES ASSUME m \notin T PROVE FALSE
    OBVIOUS
  <2>1. m # 0
    <3>1. PICK i \in T : i \in Nat /\ i <= m /\ i # m
      BY <1>2
    <3> QED  BY <3>1
  <2>2. m - 1 \in Nat /\ \A i \in T : i <= m - 1
    BY <1>2, <2>1
  <2> QED  BY <1>2, <2>2
<1> QED  BY <1>2, <1>3

\* g doubles from 1 on 0..n.
Doubling(n, g) == g \in [0..n -> Nat] /\ g[0] = 1 /\ \A i \in 1..n : g[i] = 2 * g[i - 1]

LEMMA DoublingExists == \A n \in Nat : \E g : Doubling(n, g)
<1> DEFINE S == {n \in Nat : \E g : Doubling(n, g)}
<1>1. 0 \in S
  <2>1. Doubling(0, [i \in 0..0 |-> 1])
    BY DEF Doubling
  <2> QED  BY <2>1
<1>2. ASSUME NEW n \in Nat, n \in S PROVE n + 1 \in S
  <2>1. PICK g : Doubling(n, g)
    BY <1>2
  <2> DEFINE h == [i \in 0..(n + 1) |-> IF i = n + 1 THEN 2 * g[n] ELSE g[i]]
  <2>2. g[n] \in Nat
    BY <2>1 DEF Doubling
  <2>3. h \in [0..(n + 1) -> Nat]
    BY <2>1, <2>2 DEF Doubling
  <2>4. \A i \in 1..(n + 1) : h[i] = 2 * h[i - 1]
    BY <2>1, <2>2 DEF Doubling
  <2>5. Doubling(n + 1, h)
    BY <2>1, <2>3, <2>4 DEF Doubling
  <2> QED  BY <2>5
<1> HIDE DEF S
<1>3. \A n \in Nat : n \in S
  BY <1>1, <1>2, NatSetInduction
<1> QED  BY <1>3 DEF S

LEMMA DoublingAgree ==
    ASSUME NEW n \in Nat, NEW m \in Nat, NEW g, NEW h, Doubling(n, g), Doubling(m, h)
    PROVE  \A i \in Nat : i <= n /\ i <= m => g[i] = h[i]
<1> DEFINE S == {i \in Nat : i <= n /\ i <= m => g[i] = h[i]}
<1>1. 0 \in S
  BY DEF Doubling
<1>2. ASSUME NEW i \in Nat, i \in S PROVE i + 1 \in S
  BY <1>2 DEF Doubling
<1> HIDE DEF S
<1>3. \A i \in Nat : i \in S
  BY <1>1, <1>2, NatSetInduction
<1> QED  BY <1>3 DEF S

\* The recursive definition defines a function that satisfies it.
LEMMA DoubledDef == Doubled = [n \in Nat |-> IF n = 0 THEN 1 ELSE 2 * Doubled[n - 1]]
<1> DEFINE at(n) == CHOOSE g : Doubling(n, g)
           F == [n \in Nat |-> at(n)[n]]
<1>1. \A n \in Nat : Doubling(n, at(n))
  BY DoublingExists
<1> HIDE DEF at
<1>2. F[0] = 1 
  BY <1>1 DEF Doubling
<1>3. ASSUME NEW n \in Nat, n # 0 PROVE F[n] = 2 * F[n - 1]
  <2>1. at(n)[n] = 2 * at(n)[n - 1]
    BY <1>1, <1>3 DEF Doubling
  <2>2. n - 1 \in Nat /\ at(n)[n - 1] = at(n - 1)[n - 1]
    BY <1>1, <1>3, DoublingAgree
  <2> QED  BY <2>1, <2>2
<1>4. F = [n \in Nat |-> IF n = 0 THEN 1 ELSE 2 * F[n - 1]]
  BY <1>2, <1>3
<1> HIDE DEF F
<1> QED  BY <1>4 DEF Doubled

\* Powers of two are positive and rise.
LEMMA DoubledRises ==
    /\ \A n \in Nat : Doubled[n] \in Nat /\ Doubled[n] >= 1
    /\ \A n, m \in Nat : n <= m => Doubled[n] <= Doubled[m]
<1> PICK D : D = Doubled
  OBVIOUS
<1>1. D[0] = 1 /\ \A n \in Nat : D[n + 1] = 2 * D[n]
  BY DoubledDef
<1> DEFINE S == {n \in Nat : D[n] \in Nat /\ D[n] >= 1}
<1>2. \A n \in Nat : n \in S
  <2>1. 0 \in S
    BY <1>1
  <2>2. ASSUME NEW n \in Nat, n \in S PROVE n + 1 \in S
    BY <1>1, <2>2
  <2> HIDE DEF S
  <2> QED  BY <2>1, <2>2, NatSetInduction
<1> DEFINE T == {m \in Nat : \A n \in Nat : n <= m => D[n] <= D[m]}
<1>3. \A m \in Nat : m \in T
  <2>1. 0 \in T
    BY <1>2
  <2>2. ASSUME NEW m \in Nat, m \in T PROVE m + 1 \in T
    <3>1. D[m] \in Nat /\ D[m + 1] = 2 * D[m] /\ D[m + 1] \in Nat
      BY <1>1, <1>2
    <3>2. ASSUME NEW n \in Nat, n <= m + 1 PROVE D[n] <= D[m + 1]
      <4>1. CASE n = m + 1
        BY <3>1, <4>1
      <4>2. CASE n <= m
        <5>1. D[n] \in Nat /\ D[n] <= D[m]
          BY <1>2, <2>2, <4>2
        <5> QED  BY <3>1, <5>1
      <4> QED  BY <3>2, <4>1, <4>2
    <3> QED  BY <3>2
  <2> HIDE DEF T
  <2> QED  BY <2>1, <2>2, NatSetInduction
<1> QED  BY <1>2, <1>3

\* The wait is at least the shortest one and grows with the failures that count.
LEMMA CooldownRises ==
    /\ \A n \in Nat \ {0} : Cooldown(n) \in Nat /\ Cooldown(n) >= Base
    /\ \A n, m \in Nat \ {0} : n <= m => Cooldown(n) <= Cooldown(m)
<1>1. ASSUME NEW n \in Nat, NEW d \in Nat, n <= d PROVE Base * n <= Base * d
  BY <1>1, SignInAssumption
<1>2. ASSUME NEW n \in Nat \ {0}
      PROVE  /\ Doubled[n - 1] \in Nat /\ Base * Doubled[n - 1] \in Nat
             /\ Base <= Base * Doubled[n - 1]
  <2>1. n - 1 \in Nat
    OBVIOUS
  <2>2. Doubled[n - 1] \in Nat /\ 1 <= Doubled[n - 1]
    BY <2>1, DoubledRises
  <2> QED  BY <1>1, <2>2, SignInAssumption
<1>3. \A n \in Nat \ {0} : Cooldown(n) \in Nat /\ Cooldown(n) >= Base
  BY <1>2, SignInAssumption DEF Cooldown, Least
<1>4. ASSUME NEW n \in Nat \ {0}, NEW m \in Nat \ {0}, n <= m PROVE Cooldown(n) <= Cooldown(m)
  <2>1. n - 1 \in Nat /\ m - 1 \in Nat /\ n - 1 <= m - 1
    BY <1>4
  <2>2. Doubled[n - 1] <= Doubled[m - 1]
    BY <2>1, DoubledRises
  <2>3. Base * Doubled[n - 1] <= Base * Doubled[m - 1]
    BY <1>1, <1>2, <2>2
  <2> QED  BY <1>2, <2>3, SignInAssumption DEF Cooldown, Least
<1> QED  BY <1>3, <1>4

(***************************************************************************)
(* The inductive invariant                                                 *)
(***************************************************************************)

\* A login that is under way has its email.
Emailed == \A c \in Clients : reqs[c].pc # "idle" => reqs[c].email \in Emails

\* Audit rows are written in the order of the clock.
EventsInOrder ==
    \A e \in Emails : \A i \in DOMAIN events[e] :
        /\ events[e][i].at <= now
        /\ \A j \in DOMAIN events[e] : i <= j => events[e][i].at <= events[e][j].at

\* The gate opens no later than an email was last told.
WaitTold == \A e \in Emails : told[e] # 0 => OpensAt(e) <= told[e]

\* Logins of an email that have passed the gate and may still fail.
AtBroker(e) == {c \in Clients : reqs[c].pc = "broker" /\ reqs[c].email = e}

\* A failure that is too young for another guess to have been let in after it.
Hot(e, i) == now < events[e][i].at + Base /\ \A ok \in LastOk(e) : ok < events[e][i].at

Since(e, i) == {k \in Failures(e) : i < k}

\* While a failure is hot, those after it and those that may still come are together
\* fewer than the logins that run at a time.
FewMore ==
    \A e \in Emails : \A i \in Failures(e) :
        Hot(e, i) => Cardinality(Since(e, i)) + Cardinality(AtBroker(e)) < Cardinality(Clients)

\* The throttle of a session's renewal and its expiry go together.
SessionsKept ==
    \A i \in DOMAIN sessions : LET s == sessions[i] IN
        /\ s.seen <= s.used /\ s.used <= now
        /\ s.used <= s.seen + RenewAfter
        /\ s.exp = s.seen + Ttl

IInv == TypeOK /\ Emailed /\ EventsInOrder /\ WaitTold /\ FewMore /\ GuessesPaced /\ SessionsKept

LEMMA IdleShape == Idle \in Request /\ Idle.pc = "idle" /\ Idle.email = NoEmail
BY DEF Idle, Request, Places

LEMMA EventTypes ==
    ASSUME TypeOK, NEW e \in Emails
    PROVE  /\ events[e] \in Seq(Event) /\ Len(events[e]) \in Nat
           /\ DOMAIN events[e] = 1..Len(events[e])
           /\ \A i \in DOMAIN events[e] : i \in Nat /\ events[e][i].at \in Nat /\ events[e][i].kind \in Kinds
<1>1. events[e] \in Seq(Event)
  BY DEF TypeOK
<1>2. Len(events[e]) \in Nat /\ DOMAIN events[e] = 1..Len(events[e])
  BY <1>1
<1>3. \A i \in DOMAIN events[e] : events[e][i] \in Event
  BY <1>1
<1> QED  BY <1>1, <1>2, <1>3 DEF Event

\* Sets of audit rows are finite.
LEMMA RowSets ==
    ASSUME TypeOK, NEW e \in Emails, NEW S, S \subseteq DOMAIN events[e]
    PROVE  IsFiniteSet(S) /\ Cardinality(S) \in Nat /\ (S # {} => Cardinality(S) # 0)
<1>1. IsFiniteSet(1..Len(events[e]))
  BY EventTypes, FS_Interval
<1>2. IsFiniteSet(S)
  BY <1>1, EventTypes, FS_Subset
<1> QED  BY <1>2, FS_CardinalityType, FS_EmptySet

LEMMA ClientSets ==
    ASSUME NEW S, S \subseteq Clients
    PROVE  IsFiniteSet(S) /\ Cardinality(S) \in Nat /\ Cardinality(S) <= Cardinality(Clients)
           /\ Cardinality(Clients) \in Nat
BY SignInAssumption, FS_Subset, FS_CardinalityType

\* The newest failure that counts, if one does.
LEMMA NewestCounted ==
    ASSUME TypeOK, NEW e \in Emails, Counted(e) # {}
    PROVE  /\ Newest(e) \in Counted(e) /\ \A j \in Counted(e) : j <= Newest(e)
           /\ Cardinality(Counted(e)) \in Nat \ {0}
           /\ OpensAt(e) = events[e][Newest(e)].at + Cooldown(Cardinality(Counted(e)))
           /\ OpensAt(e) \in Nat
<1>1. Counted(e) \subseteq DOMAIN events[e]
  BY DEF Counted
<1>2. \E x \in Counted(e) : \A y \in Counted(e) : y <= x
  <2>1. /\ Counted(e) \in SUBSET Nat /\ Len(events[e]) \in Nat
        /\ \A i \in Counted(e) : i <= Len(events[e])
    BY <1>1, EventTypes
  <2> QED  BY <2>1, GreatestNat
<1>3. Newest(e) \in Counted(e) /\ \A j \in Counted(e) : j <= Newest(e)
  BY <1>2 DEF Newest
<1>4. Cardinality(Counted(e)) \in Nat \ {0}
  BY <1>1, RowSets
<1>5. Cooldown(Cardinality(Counted(e))) \in Nat
  BY <1>4, CooldownRises
<1>6. events[e][Newest(e)].at \in Nat
  BY <1>1, <1>3, EventTypes
<1>7. OpensAt(e) = events[e][Newest(e)].at + Cooldown(Cardinality(Counted(e)))
  BY DEF OpensAt
<1> QED  BY <1>3, <1>4, <1>5, <1>6, <1>7

\* The moment at which the gate opens is a time.
LEMMA OpensNat == ASSUME TypeOK, NEW e \in Emails PROVE OpensAt(e) \in Nat
BY NewestCounted DEF OpensAt

\* While a failure is hot the gate is closed.
LEMMA HotShutsGate ==
    ASSUME IInv, NEW e \in Emails, NEW i \in Failures(e), Hot(e, i)
    PROVE  ~GateOpen(e)
<1>1. i \in DOMAIN events[e] /\ events[e][i].at \in Nat /\ i \in Nat /\ now \in Nat
  BY EventTypes DEF Failures, IInv, TypeOK
<1>2. i \in Counted(e)
  <2>1. events[e][i].at + Window >= now
    BY <1>1, SignInAssumption DEF Hot
  <2> QED  BY <1>1, <2>1, EventTypes DEF Failures, Counted, CountedKinds, Hot, LastOk, IInv
<1>3. /\ Newest(e) \in DOMAIN events[e] /\ i <= Newest(e)
      /\ OpensAt(e) = events[e][Newest(e)].at + Cooldown(Cardinality(Counted(e)))
      /\ Cooldown(Cardinality(Counted(e))) \in Nat /\ Cooldown(Cardinality(Counted(e))) >= Base
  BY <1>2, NewestCounted, CooldownRises DEF Counted, IInv
<1>4. events[e][Newest(e)].at \in Nat /\ events[e][Newest(e)].at >= events[e][i].at
  BY <1>1, <1>3, EventTypes DEF IInv, EventsInOrder
<1> QED  BY <1>1, <1>3, <1>4, SignInAssumption DEF GateOpen, Hot

LEMMA Initially == Init => IInv
<1> SUFFICES ASSUME Init PROVE IInv
  OBVIOUS
<1>1. /\ now = 1 /\ sessions = << >> /\ events = [e \in Emails |-> << >>]
      /\ reqs = [c \in Clients |-> Idle] /\ told = [e \in Emails |-> 0]
  BY DEF Init
<1>2. \A e \in Emails : events[e] = << >> /\ DOMAIN events[e] = {} /\ Failures(e) = {}
  BY <1>1 DEF Failures
<1>3. TypeOK
  <2>1. events \in [Emails -> Seq(Event)] /\ sessions \in Seq(Session)
    BY <1>1
  <2> QED  BY <1>1, <2>1, IdleShape DEF TypeOK
<1>4. Emailed
  BY <1>1, IdleShape DEF Emailed
<1>5. EventsInOrder /\ WaitTold /\ FewMore /\ GuessesPaced /\ SessionsKept
  BY <1>1, <1>2 DEF EventsInOrder, WaitTold, FewMore, GuessesPaced, SessionsKept
<1> QED  BY <1>3, <1>4, <1>5 DEF IInv

(***************************************************************************)
(* Steps that write no audit row                                           *)
(***************************************************************************)

\* The audit of an email, and the clock, stay as they are: so does what is made of them.
LEMMA SameAudit ==
    ASSUME NEW e \in Emails, events'[e] = events[e], now' = now
    PROVE  /\ Failures(e)' = Failures(e) /\ LastOk(e)' = LastOk(e)
           /\ OpensAt(e)' = OpensAt(e)
           /\ \A i : Hot(e, i)' = Hot(e, i) /\ Since(e, i)' = Since(e, i)
           /\ \A i, j : Span(e, i, j)' = Span(e, i, j)
<1>1. Failures(e)' = Failures(e) /\ LastOk(e)' = LastOk(e)
  BY DEF Failures, LastOk
<1>2. Counted(e)' = Counted(e)
  BY <1>1 DEF Counted
<1>3. Newest(e)' = Newest(e)
  BY <1>2 DEF Newest
<1>4. OpensAt(e)' = OpensAt(e)
  BY <1>2, <1>3 DEF OpensAt
<1>5. \A i : Hot(e, i)' = Hot(e, i) /\ Since(e, i)' = Since(e, i)
  BY <1>1 DEF Hot, Since
<1>6. \A i, j : Span(e, i, j)' = Span(e, i, j)
  BY <1>1 DEF Span
<1> QED  BY <1>1, <1>4, <1>5, <1>6

\* No login is newly at the broker but one that has found its gate open.
LEMMA AuditKept ==
    ASSUME IInv, UNCHANGED <<now, events, told>>, reqs' \in [Clients -> Request],
           \A e \in Emails : GateOpen(e) \/ AtBroker(e)' \subseteq AtBroker(e)
    PROVE  EventsInOrder' /\ WaitTold' /\ FewMore' /\ GuessesPaced'
<1>1. EventsInOrder'
  BY DEF IInv, EventsInOrder
<1>2. \A e \in Emails : /\ Failures(e)' = Failures(e) /\ LastOk(e)' = LastOk(e)
                        /\ OpensAt(e)' = OpensAt(e)
                        /\ \A i : Hot(e, i)' = Hot(e, i) /\ Since(e, i)' = Since(e, i)
                        /\ \A i, j : Span(e, i, j)' = Span(e, i, j)
  BY SameAudit
<1>3. WaitTold'
  BY <1>2 DEF IInv, WaitTold
<1>4. FewMore'
  <2> SUFFICES ASSUME NEW e \in Emails, NEW i \in Failures(e), Hot(e, i)
               PROVE  Cardinality(Since(e, i)) + Cardinality(AtBroker(e)') < Cardinality(Clients)
    BY <1>2 DEF FewMore
  <2>1. AtBroker(e)' \subseteq AtBroker(e)
    BY HotShutsGate
  <2>2. AtBroker(e) \subseteq Clients
    BY DEF AtBroker
  <2>3. /\ Cardinality(AtBroker(e)') <= Cardinality(AtBroker(e))
        /\ Cardinality(AtBroker(e)') \in Nat /\ Cardinality(AtBroker(e)) \in Nat
        /\ Cardinality(Clients) \in Nat
    BY <2>1, <2>2, ClientSets, FS_Subset
  <2>4. Cardinality(Since(e, i)) \in Nat
    BY RowSets DEF Since, Failures, IInv
  <2>5. Cardinality(Since(e, i)) + Cardinality(AtBroker(e)) < Cardinality(Clients)
    BY DEF IInv, FewMore
  <2> QED  BY <2>3, <2>4, <2>5
<1>5. GuessesPaced'
  BY <1>2 DEF IInv, GuessesPaced
<1> QED  BY <1>1, <1>3, <1>4, <1>5

\* A request that is replaced; the others stay as they are.
LEMMA NewRequest ==
    ASSUME TypeOK, NEW c \in Clients, NEW r \in Request, reqs' = [reqs EXCEPT ![c] = r]
    PROVE  /\ reqs' \in [Clients -> Request] /\ reqs'[c] = r
           /\ \A d \in Clients \ {c} : reqs'[d] = reqs[d]
BY DEF TypeOK

LEMMA LoginGateKeeps ==
    ASSUME IInv, NEW c \in Clients, NEW e \in Emails, LoginGate(c, e) PROVE IInv'
<1> DEFINE r == [pc |-> "broker", email |-> e]
<1>1. GateOpen(e) /\ reqs' = [reqs EXCEPT ![c] = r] /\ UNCHANGED <<now, events, sessions, told>>
  BY DEF LoginGate
<1>2. r \in Request /\ r.pc = "broker" /\ r.email = e
  BY DEF Request, Places
<1> HIDE DEF r
<1>3. /\ reqs' \in [Clients -> Request] /\ reqs'[c] = r
      /\ \A d \in Clients \ {c} : reqs'[d] = reqs[d]
  BY <1>1, <1>2, NewRequest DEF IInv
<1>4. TypeOK' /\ Emailed'
  BY <1>1, <1>2, <1>3 DEF IInv, TypeOK, Emailed
<1>5. \A x \in Emails : x # e => AtBroker(x)' \subseteq AtBroker(x)
  BY <1>2, <1>3 DEF AtBroker
<1>6. EventsInOrder' /\ WaitTold' /\ FewMore' /\ GuessesPaced'
  BY <1>1, <1>3, <1>5, AuditKept
<1>7. SessionsKept'
  BY <1>1 DEF IInv, SessionsKept
<1> QED  BY <1>4, <1>6, <1>7 DEF IInv

\* A login moves on, or ends, away from the broker.
LEMMA LeavingKeeps ==
    ASSUME IInv, NEW c \in Clients, NEW r \in Request, reqs' = [reqs EXCEPT ![c] = r],
           r.pc # "broker", r.pc # "idle" => r.email \in Emails,
           UNCHANGED <<now, events, told>>, sessions' \in Seq(Session), SessionsKept'
    PROVE  IInv'
<1>1. /\ reqs' \in [Clients -> Request] /\ reqs'[c] = r
      /\ \A d \in Clients \ {c} : reqs'[d] = reqs[d]
  BY NewRequest DEF IInv
<1>2. TypeOK' /\ Emailed'
  BY <1>1 DEF IInv, TypeOK, Emailed
<1>3. \A x \in Emails : AtBroker(x)' \subseteq AtBroker(x)
  BY <1>1 DEF AtBroker
<1>4. EventsInOrder' /\ WaitTold' /\ FewMore' /\ GuessesPaced'
  BY <1>1, <1>3, AuditKept
<1> QED  BY <1>2, <1>4 DEF IInv

LEMMA LoginPassKeeps == ASSUME IInv, NEW c \in Clients, LoginPass(c) PROVE IInv'
<1> DEFINE r == [reqs[c] EXCEPT !.pc = "mint"]
<1>1. reqs[c] \in Request /\ reqs[c].email \in Emails
  BY DEF IInv, TypeOK, Emailed, LoginPass
<1>2. r \in Request /\ r.pc = "mint" /\ r.email = reqs[c].email
  BY <1>1 DEF Request, Places
<1>3. reqs' = [reqs EXCEPT ![c] = r] /\ UNCHANGED <<now, events, sessions, told>>
  BY DEF LoginPass, IInv, TypeOK
<1>4. SessionsKept' /\ sessions' \in Seq(Session)
  BY <1>3 DEF IInv, SessionsKept, TypeOK
<1> HIDE DEF r
<1> QED  BY <1>1, <1>2, <1>3, <1>4, LeavingKeeps

LEMMA LoginEndKeeps == ASSUME IInv, NEW c \in Clients, LoginEnd(c) PROVE IInv'
<1>1. reqs' = [reqs EXCEPT ![c] = Idle] /\ UNCHANGED <<now, events, sessions, told>>
  BY DEF LoginEnd
<1>2. SessionsKept' /\ sessions' \in Seq(Session)
  BY <1>1 DEF IInv, SessionsKept, TypeOK
<1> QED  BY <1>1, <1>2, IdleShape, LeavingKeeps

LEMMA LoginMintKeeps == ASSUME IInv, NEW c \in Clients, LoginMint(c) PROVE IInv'
<1> DEFINE r == [reqs[c] EXCEPT !.pc = "audit"]
           s == [email |-> reqs[c].email, seen |-> now, exp |-> now + Ttl, revoked |-> FALSE, used |-> now]
<1>1. reqs[c] \in Request /\ reqs[c].email \in Emails
  BY DEF IInv, TypeOK, Emailed, LoginMint
<1>2. r \in Request /\ r.pc = "audit" /\ r.email = reqs[c].email
  BY <1>1 DEF Request, Places
<1>3. /\ reqs' = [reqs EXCEPT ![c] = r] /\ sessions' = Append(sessions, s)
      /\ UNCHANGED <<now, events, told>>
  BY DEF LoginMint, IInv, TypeOK
<1>4. now \in Nat /\ sessions \in Seq(Session)
  BY DEF IInv, TypeOK
<1>5. /\ s \in Session /\ s.seen = now /\ s.used = now /\ s.exp = now + Ttl
  BY <1>1, <1>4, SignInAssumption DEF Session
<1> HIDE DEF r, s
<1>6. /\ sessions' \in Seq(Session) /\ Len(sessions) \in Nat
      /\ DOMAIN sessions = 1..Len(sessions) /\ DOMAIN sessions' = 1..(Len(sessions) + 1)
      /\ sessions'[Len(sessions) + 1] = s /\ \A i \in DOMAIN sessions : sessions'[i] = sessions[i]
  BY <1>3, <1>4, <1>5
<1>7. SessionsKept'
  <2> SUFFICES ASSUME NEW i \in DOMAIN sessions'
               PROVE  LET z == sessions'[i] IN
                        /\ z.seen <= z.used /\ z.used <= now
                        /\ z.used <= z.seen + RenewAfter /\ z.exp = z.seen + Ttl
    BY <1>3 DEF SessionsKept
  <2>1. CASE i \in DOMAIN sessions
    BY <1>6, <2>1 DEF IInv, SessionsKept
  <2>2. CASE i = Len(sessions) + 1
    BY <1>4, <1>5, <1>6, <2>2, SignInAssumption
  <2> QED  BY <1>6, <2>1, <2>2
<1> QED  BY <1>1, <1>2, <1>3, <1>6, <1>7, LeavingKeeps

(***************************************************************************)
(* Sessions                                                                *)
(***************************************************************************)

LEMMA SessionTypes ==
    ASSUME TypeOK, NEW i \in DOMAIN sessions
    PROVE  /\ sessions[i] \in Session /\ sessions[i].seen \in Nat /\ sessions[i].used \in Nat
           /\ sessions[i].exp \in Nat /\ sessions[i].revoked \in BOOLEAN
<1>1. sessions \in Seq(Session)
  BY DEF TypeOK
<1>2. sessions[i] \in Session
  BY <1>1
<1> QED  BY <1>2 DEF Session

\* A session is replaced by one whose times go together.
LEMMA SessionKeeps ==
    ASSUME IInv, NEW i \in DOMAIN sessions, NEW s \in Session, sessions' = [sessions EXCEPT ![i] = s],
           s.seen <= s.used, s.used <= now, s.used <= s.seen + RenewAfter, s.exp = s.seen + Ttl,
           UNCHANGED <<now, events, reqs, told>>
    PROVE  IInv'
<1>1. sessions \in Seq(Session)
  BY DEF IInv, TypeOK
<1>2. /\ sessions' \in Seq(Session) /\ DOMAIN sessions' = DOMAIN sessions /\ sessions'[i] = s
      /\ \A j \in DOMAIN sessions \ {i} : sessions'[j] = sessions[j]
  BY <1>1
<1>3. TypeOK' /\ Emailed'
  BY <1>2 DEF IInv, TypeOK, Emailed
<1>4. SessionsKept'
  BY <1>2 DEF IInv, SessionsKept
<1>5. \A x \in Emails : AtBroker(x)' \subseteq AtBroker(x)
  BY DEF AtBroker
<1>6. EventsInOrder' /\ WaitTold' /\ FewMore' /\ GuessesPaced'
  BY <1>3, <1>5, AuditKept DEF TypeOK
<1> QED  BY <1>3, <1>4, <1>6 DEF IInv

\* A request served less than the throttle after the last renewal leaves the expiry; any
\* later one renews it.
LEMMA UseSessionKeeps == ASSUME IInv, NEW i \in DOMAIN sessions, UseSession(i) PROVE IInv'
<1>1. PICK o : o = sessions[i]
  OBVIOUS
<1>2. PICK s : s = [Renewed(o) EXCEPT !.used = now]
  OBVIOUS
<1>3. sessions' = [sessions EXCEPT ![i] = s] /\ UNCHANGED <<now, events, reqs, told>>
  BY <1>1, <1>2 DEF UseSession
<1>4. o \in Session /\ o.seen \in Nat /\ o.used \in Nat /\ o.exp \in Nat /\ now \in Nat
  BY <1>1, SessionTypes DEF IInv, TypeOK
<1>5. o.seen <= o.used /\ o.used <= now /\ o.used <= o.seen + RenewAfter /\ o.exp = o.seen + Ttl
  BY <1>1 DEF IInv, SessionsKept
<1>6. /\ s \in Session /\ s.used = now
      /\ \/ s.seen = now /\ s.exp = now + Ttl
         \/ s.seen = o.seen /\ s.exp = o.exp /\ now <= o.seen + RenewAfter
  <2>1. CASE now - o.seen > RenewAfter
    <3>1. PICK t \in Nat : t = now + Ttl
      BY <1>4, SignInAssumption
    <3>2. PICK q : q = [o EXCEPT !.seen = now, !.exp = t]
      OBVIOUS
    <3>3. q \in Session /\ q.seen = now /\ q.exp = t
      BY <1>4, <3>2 DEF Session
    <3>4. s = [q EXCEPT !.used = now]
      BY <1>2, <2>1, <3>1, <3>2 DEF Renewed
    <3>5. s \in Session /\ s.used = now /\ s.seen = now /\ s.exp = t
      BY <1>4, <3>3, <3>4 DEF Session
    <3> QED  BY <3>1, <3>5
  <2>2. CASE ~(now - o.seen > RenewAfter)
    <3>1. s = [o EXCEPT !.used = now]
      BY <1>2, <2>2 DEF Renewed
    <3>2. now <= o.seen + RenewAfter
      BY <1>4, <2>2, SignInAssumption
    <3> QED  BY <1>4, <3>1, <3>2 DEF Session
  <2> QED  BY <2>1, <2>2
<1>7. s.seen <= s.used /\ s.used <= now /\ s.used <= s.seen + RenewAfter /\ s.exp = s.seen + Ttl
  BY <1>4, <1>5, <1>6, SignInAssumption
<1> QED  BY <1>3, <1>6, <1>7, SessionKeeps

LEMMA LogoutKeeps == ASSUME IInv, NEW i \in DOMAIN sessions, Logout(i) PROVE IInv'
<1> DEFINE s == [sessions[i] EXCEPT !.revoked = TRUE]
<1>1. sessions' = [sessions EXCEPT ![i] = s] /\ UNCHANGED <<now, events, reqs, told>>
  BY DEF Logout, IInv, TypeOK
<1>2. sessions[i] \in Session
  BY SessionTypes DEF IInv
<1>3. /\ s \in Session /\ s.seen = sessions[i].seen /\ s.used = sessions[i].used /\ s.exp = sessions[i].exp
  BY <1>2 DEF Session
<1> HIDE DEF s
<1> QED  BY <1>1, <1>3, SessionKeeps DEF IInv, SessionsKept

(***************************************************************************)
(* Steps that write an audit row                                           *)
(***************************************************************************)

\* A row is appended to the audit of one email.
LEMMA Appended ==
    ASSUME IInv, NEW e \in Emails, NEW kind \in Kinds, Audit(e, kind), now' = now
    PROVE  LET n == Len(events[e]) + 1 IN
           /\ events' \in [Emails -> Seq(Event)]
           /\ n \in Nat /\ n \notin DOMAIN events[e]
           /\ DOMAIN events[e] = 1..Len(events[e]) /\ DOMAIN events'[e] = DOMAIN events[e] \cup {n}
           /\ events'[e][n].kind = kind /\ events'[e][n].at = now
           /\ \A i \in DOMAIN events[e] : i < n /\ events'[e][i] = events[e][i]
           /\ \A x \in Emails \ {e} : events'[x] = events[x]
           /\ EventsInOrder'
<1>1. PICK ev : ev = [kind |-> kind, at |-> now]
  OBVIOUS
<1>2. ev \in Event /\ ev.kind = kind /\ ev.at = now /\ now \in Nat
  BY <1>1 DEF Event, IInv, TypeOK
<1>3. PICK s \in Seq(Event) : s = events[e]
  BY DEF IInv, TypeOK
<1>4. PICK z : z = Append(s, ev)
  OBVIOUS
<1>5. PICK n : n = Len(s) + 1
  OBVIOUS
<1>6. /\ z \in Seq(Event) /\ n \in Nat /\ Len(s) \in Nat /\ DOMAIN s = 1..Len(s)
      /\ DOMAIN z = 1..n /\ z[n] = ev /\ \A i \in DOMAIN s : z[i] = s[i]
  BY <1>2, <1>4, <1>5
<1>7. events' = [events EXCEPT ![e] = z]
  BY <1>1, <1>3, <1>4 DEF Audit
<1>8. /\ events' \in [Emails -> Seq(Event)] /\ events'[e] = z
      /\ \A x \in Emails \ {e} : events'[x] = events[x]
  BY <1>6, <1>7 DEF IInv, TypeOK
<1>9. n \notin DOMAIN s /\ DOMAIN z = DOMAIN s \cup {n} /\ \A i \in DOMAIN s : i < n
  BY <1>5, <1>6
<1>10. \A i \in DOMAIN s : s[i].at \in Nat /\ s[i].at <= now
  BY <1>3, EventTypes DEF IInv, EventsInOrder
<1>11. EventsInOrder'
  <2> SUFFICES ASSUME NEW x \in Emails, NEW i \in DOMAIN events'[x]
               PROVE  /\ events'[x][i].at <= now
                      /\ \A j \in DOMAIN events'[x] : i <= j => events'[x][i].at <= events'[x][j].at
    BY DEF EventsInOrder
  <2>1. CASE x # e
    BY <1>8, <2>1 DEF IInv, EventsInOrder
  <2>2. CASE x = e
    <3>1. z[i].at <= now
      <4>1. i \in DOMAIN s \/ i = n
        BY <1>8, <1>9, <2>2
      <4>2. now <= now
        BY <1>2
      <4> QED  BY <1>2, <1>6, <1>10, <4>1, <4>2
    <3>2. ASSUME NEW j \in DOMAIN z, i <= j PROVE z[i].at <= z[j].at
      <4>1. CASE j = n
        BY <1>2, <1>6, <3>1, <4>1
      <4>2. CASE j \in DOMAIN s
        <5>1. i \in DOMAIN s
          BY <1>6, <1>8, <1>9, <2>2, <3>2, <4>2
        <5> QED  BY <1>3, <1>6, <3>2, <4>2, <5>1 DEF IInv, EventsInOrder
      <4> QED  BY <1>9, <4>1, <4>2
    <3> QED  BY <1>8, <2>2, <3>1, <3>2
  <2> QED  BY <2>1, <2>2
<1> QED  BY <1>2, <1>3, <1>5, <1>6, <1>8, <1>9, <1>11

\* A row that is no failure leaves the failures as they are, and what was paced paced.
LEMMA NoFailure ==
    ASSUME IInv, NEW e \in Emails, NEW kind \in Kinds, kind # "login_fail", Audit(e, kind), now' = now,
           \A x \in Emails : AtBroker(x)' = AtBroker(x)
    PROVE  /\ \A x \in Emails : Failures(x)' = Failures(x) /\ LastOk(x) \subseteq LastOk(x)'
           /\ FewMore' /\ GuessesPaced'
<1>1. PICK n : n = Len(events[e]) + 1
  OBVIOUS
<1>2. /\ DOMAIN events'[e] = DOMAIN events[e] \cup {n} /\ events'[e][n].kind = kind
      /\ n \notin DOMAIN events[e] /\ \A i \in DOMAIN events[e] : events'[e][i] = events[e][i]
      /\ \A x \in Emails \ {e} : events'[x] = events[x]
  BY <1>1, Appended
<1>3. \A x \in Emails : /\ Failures(x)' = Failures(x) /\ LastOk(x) \subseteq LastOk(x)'
                        /\ \A i \in Failures(x) : events'[x][i] = events[x][i]
  BY <1>2 DEF Failures, LastOk
<1>4. \A x \in Emails : \A i \in Failures(x) : Hot(x, i)' => Hot(x, i)
  BY <1>3 DEF Hot
<1>5. \A x \in Emails : \A i : Since(x, i)' = Since(x, i)
  BY <1>3 DEF Since
<1>6. FewMore'
  BY <1>3, <1>4, <1>5 DEF IInv, FewMore
<1>7. GuessesPaced'
  <2>1. \A x \in Emails : \A i, j : Span(x, i, j)' = Span(x, i, j)
    BY <1>3 DEF Span
  <2> SUFFICES ASSUME NEW x \in Emails, NEW i \in Failures(x), NEW j \in Failures(x),
                      Cardinality(Span(x, i, j)) > Cardinality(Clients)
               PROVE  \/ events'[x][j].at >= events'[x][i].at + Base
                      \/ \E ok \in LastOk(x)' : events'[x][i].at <= ok /\ ok <= events'[x][j].at
    BY <1>3, <2>1 DEF GuessesPaced
  <2> QED  BY <1>3 DEF IInv, GuessesPaced
<1> QED  BY <1>3, <1>6, <1>7

\* A blocked poll leaves the moment at which the gate opens, and tells it.
LEMMA LoginBlockedKeeps ==
    ASSUME IInv, NEW c \in Clients, NEW e \in Emails, LoginBlocked(c, e) PROVE IInv'
<1>1. /\ Audit(e, "login_blocked") /\ told' = [told EXCEPT ![e] = OpensAt(e)] /\ ~GateOpen(e)
      /\ UNCHANGED <<now, sessions, reqs>>
  BY DEF LoginBlocked
<1>2. "login_blocked" \in Kinds
  BY DEF Kinds
<1>3. \A x \in Emails : AtBroker(x)' = AtBroker(x)
  BY <1>1 DEF AtBroker
<1>4. FewMore' /\ GuessesPaced' /\ EventsInOrder' /\ events' \in [Emails -> Seq(Event)]
      /\ \A x \in Emails \ {e} : events'[x] = events[x]
  BY <1>1, <1>2, <1>3, NoFailure, Appended
<1>5. OpensAt(e)' = OpensAt(e)
  <2>1. PICK n : n = Len(events[e]) + 1
    OBVIOUS
  <2>2. /\ DOMAIN events'[e] = DOMAIN events[e] \cup {n} /\ events'[e][n].kind = "login_blocked"
        /\ n \notin DOMAIN events[e] /\ \A i \in DOMAIN events[e] : events'[e][i] = events[e][i]
    BY <1>1, <1>2, <2>1, Appended
  <2>3. LastOk(e)' = LastOk(e)
    BY <2>2 DEF LastOk
  <2>4. Counted(e)' = Counted(e)
    BY <1>1, <2>2, <2>3 DEF Counted, CountedKinds
  <2>5. Newest(e)' = Newest(e)
    BY <2>4 DEF Newest
  <2>6. Counted(e) # {} => Newest(e) \in DOMAIN events[e]
    BY NewestCounted DEF IInv, Counted
  <2> QED  BY <2>2, <2>4, <2>5, <2>6 DEF OpensAt
<1>6. OpensAt(e) \in Nat
  BY NewestCounted DEF IInv, OpensAt
<1>7. told' \in [Emails -> Nat] /\ told'[e] = OpensAt(e) /\ \A x \in Emails \ {e} : told'[x] = told[x]
  BY <1>1, <1>6 DEF IInv, TypeOK
<1>8. WaitTold'
  <2>1. ASSUME NEW x \in Emails, x # e PROVE told'[x] # 0 => OpensAt(x)' <= told'[x]
    <3>1. OpensAt(x)' = OpensAt(x)
      BY <1>1, <1>4, <2>1, SameAudit
    <3> QED  BY <1>7, <2>1, <3>1 DEF IInv, WaitTold
  <2>2. OpensAt(e)' <= told'[e]
    BY <1>5, <1>6, <1>7
  <2> QED  BY <2>1, <2>2 DEF WaitTold
<1>9. TypeOK' /\ Emailed' /\ SessionsKept'
  BY <1>1, <1>4, <1>7 DEF IInv, TypeOK, Emailed, SessionsKept
<1> QED  BY <1>4, <1>8, <1>9 DEF IInv

\* A login that succeeds clears the wait.
LEMMA LoginAuditKeeps == ASSUME IInv, NEW c \in Clients, LoginAudit(c) PROVE IInv'
<1>1. PICK e \in Emails : e = reqs[c].email
  BY DEF LoginAudit, IInv, Emailed
<1>2. /\ Audit(e, "login_ok") /\ reqs[c].pc = "audit" /\ reqs' = [reqs EXCEPT ![c] = Idle]
      /\ UNCHANGED <<now, sessions, told>> /\ "login_ok" \in Kinds
  BY <1>1 DEF LoginAudit, Kinds
<1>3. /\ reqs' \in [Clients -> Request] /\ reqs'[c] = Idle
      /\ \A d \in Clients \ {c} : reqs'[d] = reqs[d]
  BY <1>2, IdleShape, NewRequest DEF IInv
<1>4. \A x \in Emails : AtBroker(x)' = AtBroker(x)
  BY <1>2, <1>3, IdleShape DEF AtBroker
<1>5. FewMore' /\ GuessesPaced' /\ EventsInOrder' /\ events' \in [Emails -> Seq(Event)]
      /\ \A x \in Emails \ {e} : events'[x] = events[x]
  BY <1>2, <1>4, NoFailure, Appended
<1>6. OpensAt(e)' = 0
  <2>1. PICK n : n = Len(events[e]) + 1
    OBVIOUS
  <2>2. n \in DOMAIN events'[e] /\ events'[e][n].kind = "login_ok" /\ events'[e][n].at = now
    BY <1>2, <2>1, Appended
  <2>3. now \in LastOk(e)'
    BY <2>2 DEF LastOk
  <2>4. \A i \in DOMAIN events'[e] : events'[e][i].at <= now /\ events'[e][i].at \in Nat
    <3>1. \A i \in DOMAIN events'[e] : events'[e][i] \in Event
      BY <1>5
    <3> QED  BY <1>2, <1>5, <3>1 DEF EventsInOrder, Event
  <2>5. Counted(e)' = {}
    BY <2>3, <2>4 DEF Counted, IInv, TypeOK
  <2> QED  BY <2>5 DEF OpensAt
<1>7. WaitTold'
  <2>1. ASSUME NEW x \in Emails, x # e PROVE told[x] # 0 => OpensAt(x)' <= told[x]
    <3>1. OpensAt(x)' = OpensAt(x)
      BY <1>2, <1>5, <2>1, SameAudit
    <3> QED  BY <3>1 DEF IInv, WaitTold
  <2>2. told[e] \in Nat
    BY DEF IInv, TypeOK
  <2> QED  BY <1>2, <1>6, <2>1, <2>2 DEF WaitTold
<1>8. TypeOK' /\ Emailed' /\ SessionsKept'
  BY <1>2, <1>3, <1>5, IdleShape DEF IInv, TypeOK, Emailed, SessionsKept
<1> QED  BY <1>5, <1>7, <1>8 DEF IInv

\* A guess that fails takes its place among those that may still come.
LEMMA LoginFailKeeps == ASSUME IInv, NEW c \in Clients, LoginFail(c) PROVE IInv'
<1>1. PICK e \in Emails : e = reqs[c].email
  BY DEF LoginFail, IInv, Emailed
<1>2. /\ Audit(e, "login_fail") /\ reqs[c].pc = "broker" /\ reqs' = [reqs EXCEPT ![c] = Idle]
      /\ told' = [told EXCEPT ![e] = 0]
      /\ UNCHANGED <<now, sessions>> /\ "login_fail" \in Kinds
  BY <1>1 DEF LoginFail, Kinds
<1>3. /\ reqs' \in [Clients -> Request] /\ reqs'[c] = Idle
      /\ \A d \in Clients \ {c} : reqs'[d] = reqs[d]
  BY <1>2, IdleShape, NewRequest DEF IInv
<1>4. PICK n : n = Len(events[e]) + 1
  OBVIOUS
<1>5. /\ events' \in [Emails -> Seq(Event)] /\ EventsInOrder' /\ n \in Nat
      /\ DOMAIN events[e] = 1..Len(events[e]) /\ DOMAIN events'[e] = DOMAIN events[e] \cup {n}
      /\ n \notin DOMAIN events[e] /\ events'[e][n].kind = "login_fail" /\ events'[e][n].at = now
      /\ \A i \in DOMAIN events[e] : i < n /\ events'[e][i] = events[e][i]
      /\ \A x \in Emails \ {e} : events'[x] = events[x]
  BY <1>2, <1>4, Appended
<1>6. told' \in [Emails -> Nat] /\ told'[e] = 0 /\ \A x \in Emails \ {e} : told'[x] = told[x]
  BY <1>2 DEF IInv, TypeOK
<1>7. WaitTold'
  <2>1. ASSUME NEW x \in Emails, x # e PROVE told'[x] # 0 => OpensAt(x)' <= told'[x]
    <3>1. OpensAt(x)' = OpensAt(x)
      BY <1>2, <1>5, <2>1, SameAudit
    <3> QED  BY <1>6, <2>1, <3>1 DEF IInv, WaitTold
  <2> QED  BY <1>6, <2>1 DEF WaitTold
<1>8. \A x \in Emails : x # e =>
         /\ Failures(x)' = Failures(x) /\ LastOk(x)' = LastOk(x)
         /\ \A i : Hot(x, i)' = Hot(x, i) /\ Since(x, i)' = Since(x, i)
         /\ \A i, j : Span(x, i, j)' = Span(x, i, j)
         /\ AtBroker(x)' = AtBroker(x)
  <2>1. \A x \in Emails : x # e => AtBroker(x)' = AtBroker(x)
    BY <1>1, <1>2, <1>3, IdleShape DEF AtBroker
  <2> QED  BY <1>2, <1>5, <2>1, SameAudit
<1>9. /\ Failures(e)' = Failures(e) \cup {n} /\ n \notin Failures(e) /\ LastOk(e)' = LastOk(e)
      /\ Failures(e) \subseteq DOMAIN events[e]
      /\ \A i \in Failures(e) : i < n /\ events'[e][i] = events[e][i] /\ i \in Nat
  BY <1>5, EventTypes DEF Failures, LastOk, IInv
<1>10. AtBroker(e)' = AtBroker(e) \ {c} /\ c \in AtBroker(e) /\ AtBroker(e) \subseteq Clients
  BY <1>1, <1>2, <1>3, IdleShape DEF AtBroker
<1>11. /\ Cardinality(AtBroker(e)') = Cardinality(AtBroker(e)) - 1
       /\ Cardinality(AtBroker(e)') \in Nat /\ Cardinality(AtBroker(e)) \in Nat
       /\ Cardinality(AtBroker(e)') < Cardinality(Clients) /\ Cardinality(Clients) \in Nat
  <2>1. IsFiniteSet(AtBroker(e)) /\ Cardinality(AtBroker(e)) <= Cardinality(Clients)
        /\ Cardinality(AtBroker(e)) \in Nat /\ Cardinality(Clients) \in Nat
    BY <1>10, ClientSets
  <2>2. Cardinality(AtBroker(e) \ {c}) \in Nat
    BY <1>10, ClientSets
  <2>3. Cardinality(AtBroker(e) \ {c}) = Cardinality(AtBroker(e)) - 1
    BY <1>10, <2>1, FS_RemoveElement
  <2> QED  BY <1>10, <2>1, <2>2, <2>3
<1>12. ASSUME NEW i \in Failures(e)'
       PROVE  Cardinality(Since(e, i)') \in Nat
              /\ (Hot(e, i)' => Cardinality(Since(e, i)') + Cardinality(AtBroker(e)') < Cardinality(Clients))
  <2>1. CASE i = n
    <3>1. Since(e, i)' = {}
      BY <1>5, <1>9, <2>1 DEF Since
    <3> QED  BY <1>11, <3>1, FS_EmptySet
  <2>2. CASE i \in Failures(e)
    <3>1. Since(e, i)' = Since(e, i) \cup {n} /\ n \notin Since(e, i)
      BY <1>9, <2>2 DEF Since
    <3>2. IsFiniteSet(Since(e, i)) /\ Cardinality(Since(e, i)) \in Nat
      BY <1>9, RowSets DEF Since, IInv
    <3>3. Cardinality(Since(e, i)') = Cardinality(Since(e, i)) + 1
      BY <3>1, <3>2, FS_AddElement
    <3>4. Hot(e, i)' => Hot(e, i)
      BY <1>2, <1>9, <2>2 DEF Hot
    <3>5. Hot(e, i) => Cardinality(Since(e, i)) + Cardinality(AtBroker(e)) < Cardinality(Clients)
      BY <2>2 DEF IInv, FewMore
    <3> QED  BY <1>11, <3>2, <3>3, <3>4, <3>5
  <2> QED  BY <1>9, <2>1, <2>2
<1>13. FewMore'
  <2>1. ASSUME NEW x \in Emails, NEW i \in Failures(x)', Hot(x, i)'
        PROVE  Cardinality(Since(x, i)') + Cardinality(AtBroker(x)') < Cardinality(Clients)
    <3>1. CASE x = e
      BY <1>12, <2>1, <3>1
    <3>2. CASE x # e
      BY <1>8, <2>1, <3>2 DEF IInv, FewMore
    <3> QED  BY <3>1, <3>2
  <2> QED  BY <2>1 DEF FewMore
<1>14. GuessesPaced'
  <2> SUFFICES ASSUME NEW x \in Emails, NEW i \in Failures(x)', NEW j \in Failures(x)',
                      Cardinality(Span(x, i, j)') > Cardinality(Clients)
               PROVE  \/ events'[x][j].at >= events'[x][i].at + Base
                      \/ \E ok \in LastOk(x)' : events'[x][i].at <= ok /\ ok <= events'[x][j].at
    BY DEF GuessesPaced
  <2>1. CASE x # e
    <3>1. events'[x] = events[x] /\ Failures(x)' = Failures(x) /\ LastOk(x)' = LastOk(x)
          /\ Span(x, i, j)' = Span(x, i, j)
      BY <1>5, <1>8, <2>1
    <3> QED  BY <3>1 DEF IInv, GuessesPaced
  <2>2. CASE x = e /\ j # n
    <3>1. j \in Failures(e) /\ i \in Failures(e)'
      BY <1>9, <2>2
    <3>2. i \in Failures(e)
      <4>1. ASSUME i = n PROVE FALSE
        <5>1. \A k \in Failures(e)' : k \in Nat
          BY <1>5, <1>9
        <5>2. Span(e, i, j)' = {}
          BY <1>5, <1>9, <3>1, <4>1, <5>1 DEF Span
        <5> QED  BY <1>11, <2>2, <5>2, FS_EmptySet
      <4> QED  BY <1>9, <3>1, <4>1
    <3>3. Span(e, i, j)' = Span(e, i, j)
      BY <1>5, <1>9, <3>1 DEF Span
    <3>4. events'[e][i] = events[e][i] /\ events'[e][j] = events[e][j]
      BY <1>9, <3>1, <3>2
    <3> QED  BY <1>9, <2>2, <3>1, <3>2, <3>3, <3>4 DEF IInv, GuessesPaced
  <2>3. CASE x = e /\ j = n
    <3>1. i \in Failures(e)' /\ i \in Nat
      BY <1>5, <1>9, <2>3
    <3>2. ~Hot(e, i)'
      <4> SUFFICES ASSUME Hot(e, i)' PROVE FALSE
        OBVIOUS
      <4>1. Cardinality(Since(e, i)') < Cardinality(Clients) /\ Cardinality(Since(e, i)') \in Nat
        BY <1>11, <1>12, <3>1
      <4>2. Span(e, i, j)' = Since(e, i)' \cup {i} /\ i \notin Since(e, i)'
        <5>1. \A k \in Failures(e)' : k \in Nat /\ k <= n
          BY <1>5, <1>9
        <5>2. \A k \in Failures(e)' : i <= k /\ k <= j <=> i < k \/ k = i
          BY <2>3, <3>1, <5>1
        <5>3. \A k : k \in Span(e, i, j)' <=> k \in Since(e, i)' \cup {i}
          BY <3>1, <5>2 DEF Since, Span
        <5>4. i \notin Since(e, i)'
          BY <3>1 DEF Since
        <5> QED  BY <5>3, <5>4
      <4>3. IsFiniteSet(Since(e, i)')
        <5>1. Since(e, i)' \subseteq Failures(e) \cup {n}
          BY <1>9 DEF Since
        <5>2. IsFiniteSet(Failures(e) \cup {n})
          BY <1>9, RowSets, FS_AddElement DEF IInv
        <5> QED  BY <5>1, <5>2, FS_Subset
      <4>4. Cardinality(Since(e, i)' \cup {i}) = Cardinality(Since(e, i)') + 1
        BY <4>2, <4>3, FS_AddElement
      <4> QED  BY <1>11, <2>3, <4>1, <4>2, <4>4
    <3>3. events'[e][j].at = now /\ now \in Nat /\ events'[e][i].at \in Nat /\ events'[e][i].at <= now
      <4>1. i \in DOMAIN events'[e] /\ events'[e][i] \in Event
        BY <1>5, <3>1 DEF Failures
      <4> QED  BY <1>2, <1>5, <2>3, <4>1 DEF EventsInOrder, Event, IInv, TypeOK
    <3>4. \A ok \in LastOk(e)' : ok \in Nat /\ ok <= now
      <4>1. \A k \in DOMAIN events[e] : events[e][k].at \in Nat /\ events[e][k].at <= now
        BY EventTypes DEF IInv, EventsInOrder
      <4> QED  BY <1>9, <4>1 DEF LastOk
    <3>5. now' = now
      BY <1>2
    <3>6. ~(now < events'[e][i].at + Base) \/ \E ok \in LastOk(e)' : ~(ok < events'[e][i].at)
      BY <3>2, <3>5 DEF Hot
    <3> QED  BY <2>3, <3>3, <3>4, <3>6, SignInAssumption
  <2> QED  BY <2>1, <2>2, <2>3
<1>15. TypeOK' /\ Emailed' /\ SessionsKept'
  BY <1>2, <1>3, <1>5, <1>6, IdleShape DEF IInv, TypeOK, Emailed, SessionsKept
<1> QED  BY <1>5, <1>7, <1>13, <1>14, <1>15 DEF IInv

(***************************************************************************)
(* The clock                                                               *)
(***************************************************************************)

\* As time goes, failures leave the window from the oldest on: the newest stays for as
\* long as one does, and the wait it costs does not grow.
LEMMA TickKeeps == ASSUME IInv, Tick PROVE IInv'
<1>1. now \in Nat /\ now' = now + 1 /\ UNCHANGED <<events, sessions, reqs, told>>
  BY DEF Tick, IInv, TypeOK
<1>2. TypeOK' /\ Emailed'
  BY <1>1 DEF IInv, TypeOK, Emailed
<1>3. EventsInOrder'
  <2>1. \A e \in Emails : \A i \in DOMAIN events[e] : events[e][i].at \in Nat /\ events[e][i].at <= now
    BY EventTypes DEF IInv, EventsInOrder
  <2>2. \A e \in Emails : \A i \in DOMAIN events[e] : events[e][i].at <= now + 1
    BY <1>1, <2>1
  <2> QED  BY <1>1, <2>2 DEF IInv, EventsInOrder
<1>4. ASSUME NEW e \in Emails PROVE OpensAt(e)' <= OpensAt(e) /\ OpensAt(e) \in Nat /\ OpensAt(e)' \in Nat
  <2>1. LastOk(e)' = LastOk(e)
    BY <1>1 DEF LastOk
  <2>2. Counted(e) \subseteq DOMAIN events[e]
    BY DEF Counted
  <2>3. Counted(e)' \subseteq Counted(e)
    BY <1>1, <2>1, EventTypes, SignInAssumption DEF Counted, IInv
  <2>4. OpensAt(e) \in Nat
    BY NewestCounted DEF OpensAt, IInv
  <2>5. CASE Counted(e)' = {}
    BY <2>4, <2>5 DEF OpensAt
  <2>6. CASE Counted(e)' # {}
    <3>1. PICK k \in Counted(e)' : TRUE
      BY <2>6
    <3>2. PICK m : m = Newest(e)
      OBVIOUS
    <3>3. PICK w : w = Counted(e)'
      OBVIOUS
    <3>4. /\ m \in Counted(e) /\ m \in DOMAIN events[e] /\ k \in DOMAIN events[e] /\ k <= m
          /\ \A j \in Counted(e) : j <= m /\ j \in Nat
      BY <2>2, <2>3, <3>1, <3>2, NewestCounted, EventTypes DEF IInv
    <3>5. /\ events[e][k].at \in Nat /\ events[e][m].at \in Nat /\ events[e][k].at <= events[e][m].at
      BY <3>4, EventTypes DEF IInv, EventsInOrder
    <3>6. events[e][k].at + Window >= now + 1
      BY <1>1, <3>1 DEF Counted
    <3>7. m \in w
      <4>1. events[e][m].at + Window >= now + 1
        BY <1>1, <3>5, <3>6, SignInAssumption
      <4> QED  BY <1>1, <2>1, <3>3, <3>4, <4>1 DEF Counted
    <3>8. Newest(e)' = m
      <4>1. Newest(e)' = CHOOSE i \in w : \A j \in w : j <= i
        BY <3>3 DEF Newest
      <4>2. \A j \in w : j <= m /\ j \in Nat
        BY <2>3, <3>3, <3>4
      <4>3. \A i \in w : (\A j \in w : j <= i) => i = m
        BY <3>7, <4>2
      <4> QED  BY <3>7, <4>1, <4>2, <4>3
    <3>9. /\ Cardinality(w) \in Nat \ {0} /\ Cardinality(Counted(e)) \in Nat \ {0}
          /\ Cardinality(w) <= Cardinality(Counted(e))
      <4>1. IsFiniteSet(Counted(e)) /\ Cardinality(Counted(e)) \in Nat /\ Cardinality(Counted(e)) # 0
        BY <2>2, <3>4, RowSets DEF IInv
      <4>2. Cardinality(w) \in Nat /\ Cardinality(w) # 0
        BY <2>2, <2>3, <3>3, <3>7, RowSets DEF IInv
      <4>3. Cardinality(w) <= Cardinality(Counted(e))
        BY <2>3, <3>3, <4>1, FS_Subset
      <4> QED  BY <4>1, <4>2, <4>3
    <3>10. OpensAt(e)' = events[e][m].at + Cooldown(Cardinality(w))
      <4>1. OpensAt(e)' = events'[e][Newest(e)'].at + Cooldown(Cardinality(Counted(e)'))
        BY <2>6 DEF OpensAt, Cooldown, Least
      <4> QED  BY <1>1, <3>3, <3>8, <4>1
    <3>11. OpensAt(e) = events[e][m].at + Cooldown(Cardinality(Counted(e)))
      BY <3>2, <3>4, NewestCounted DEF IInv
    <3> QED  BY <2>4, <3>5, <3>9, <3>10, <3>11, CooldownRises
  <2> QED  BY <2>4, <2>5, <2>6
<1>5. WaitTold'
  <2>1. ASSUME NEW e \in Emails, told[e] # 0 PROVE OpensAt(e)' <= told[e]
    <3>1. OpensAt(e) <= told[e] /\ told[e] \in Nat
      BY <2>1 DEF IInv, WaitTold, TypeOK
    <3> QED  BY <1>4, <3>1
  <2> QED  BY <1>1, <2>1 DEF WaitTold
<1>6. \A e \in Emails : /\ Failures(e)' = Failures(e) /\ LastOk(e)' = LastOk(e) /\ AtBroker(e)' = AtBroker(e)
                        /\ \A i, j : Span(e, i, j)' = Span(e, i, j)
  BY <1>1 DEF Failures, LastOk, AtBroker, Span
<1>7. FewMore'
  <2>1. \A e \in Emails : \A i \in Failures(e) : Hot(e, i)' => Hot(e, i)
    <3>1. \A e \in Emails : \A i \in Failures(e) : events[e][i].at \in Nat
      BY EventTypes DEF Failures, IInv
    <3> QED  BY <1>1, <1>6, <3>1, SignInAssumption DEF Hot
  <2>2. \A e \in Emails : \A i : Since(e, i)' = Since(e, i)
    BY <1>6 DEF Since
  <2> QED  BY <1>6, <2>1, <2>2 DEF IInv, FewMore
<1>8. GuessesPaced'
  BY <1>1, <1>6 DEF IInv, GuessesPaced
<1>9. SessionsKept'
  <2>1. \A i \in DOMAIN sessions : sessions[i].used \in Nat
    BY SessionTypes DEF IInv
  <2> QED  BY <1>1, <2>1 DEF IInv, SessionsKept
<1> QED  BY <1>2, <1>3, <1>5, <1>7, <1>8, <1>9 DEF IInv

(***************************************************************************)
(* The theorems                                                            *)
(***************************************************************************)

\* The invariant that carries the others: audit rows are in order, the wait that was told
\* is not outgrown, and the guesses that may still come after a failure are bounded.
THEOREM SignInInductive == Spec => []IInv
<1>1. ASSUME IInv, [Next]_vars PROVE IInv'
  <2>1. CASE UNCHANGED vars
    <3>1. UNCHANGED <<now, events, sessions, reqs, told>>
      BY <2>1 DEF vars
    <3>2. TypeOK' /\ Emailed' /\ SessionsKept'
      BY <1>1, <3>1 DEF IInv, TypeOK, Emailed, SessionsKept
    <3>3. \A x \in Emails : AtBroker(x)' \subseteq AtBroker(x)
      BY <3>1 DEF AtBroker
    <3>4. EventsInOrder' /\ WaitTold' /\ FewMore' /\ GuessesPaced'
      BY <1>1, <3>1, <3>2, <3>3, AuditKept DEF TypeOK
    <3> QED  BY <3>2, <3>4 DEF IInv
  <2>2. ASSUME NEW c \in Clients, Login(c) PROVE IInv'
    BY <1>1, <2>2, LoginGateKeeps, LoginBlockedKeeps, LoginFailKeeps, LoginPassKeeps, LoginEndKeeps,
       LoginMintKeeps, LoginAuditKeeps DEF Login
  <2>3. ASSUME NEW i \in DOMAIN sessions, UseSession(i) \/ Logout(i) PROVE IInv'
    BY <1>1, <2>3, UseSessionKeeps, LogoutKeeps
  <2> QED  BY <1>1, <2>1, <2>2, <2>3, TickKeeps DEF Next
<1> QED  BY Initially, <1>1, PTL DEF Spec

\* Audit rows, sessions and requests keep their types.
THEOREM SignInTypes == Spec => []TypeOK
<1>1. IInv => TypeOK
  BY DEF IInv
<1> QED  BY <1>1, SignInInductive, PTL

\* Whoever waits as long as Retry-After says is let in, whatever polls come meanwhile.
THEOREM WaitIsEnough == Spec => []WaitToldIsEnough
<1>1. IInv => WaitToldIsEnough
  <2> SUFFICES ASSUME IInv, NEW e \in Emails, told[e] # 0, now >= told[e] PROVE OpensAt(e) <= now
    BY DEF WaitToldIsEnough, GateOpen
  <2>1. OpensAt(e) <= told[e] /\ told[e] \in Nat /\ now \in Nat /\ OpensAt(e) \in Nat
    BY OpensNat DEF IInv, WaitTold, TypeOK
  <2> QED  BY <2>1
<1> QED  BY <1>1, SignInInductive, PTL

\* Side by side, no more guesses get through the gate in the shortest wait than logins run
\* at a time.
THEOREM GuessesArePaced == Spec => []GuessesPaced
<1>1. IInv => GuessesPaced
  BY DEF IInv
<1> QED  BY <1>1, SignInInductive, PTL

\* A session in use does not expire, for all that its renewals are throttled.
THEOREM SessionsSlide == Spec => []SlidingKeepsAlive
<1>1. IInv => SlidingKeepsAlive
  <2> SUFFICES ASSUME IInv, NEW i \in DOMAIN sessions, ~sessions[i].revoked,
                      now < sessions[i].used + (Ttl - RenewAfter)
               PROVE  sessions[i].exp > now
    BY DEF SlidingKeepsAlive, Live
  <2>1. /\ sessions[i].seen \in Nat /\ sessions[i].used \in Nat /\ now \in Nat
        /\ sessions[i].used <= sessions[i].seen + RenewAfter /\ sessions[i].exp = sessions[i].seen + Ttl
    BY SessionTypes DEF IInv, SessionsKept, TypeOK
  <2> QED  BY <2>1, SignInAssumption
<1> QED  BY <1>1, SignInInductive, PTL
=============================================================================
