------------------------ MODULE BootDocumentProofs ------------------------
(***************************************************************************)
(* The promises of module BootDocument hold for any shells, sessions,      *)
(* models and number of requests and turns side by side.                   *)
(***************************************************************************)
EXTENDS BootDocument, TLAPS

\* Turns of any kind.
AnyTurn == {NoTurn} \cup Loaded \cup Composing \cup Prompted

\* The properties for one session and its turn, and what a turn knows until its
\* prompt is given: its session, and its session's model if nobody moved it.
Sound(s) ==
    /\ session[s] \in Session
    /\ turn[s] \in AnyTurn
    /\ session[s].active /\ Whole(session[s].doc)
           => session[s].doc.identity = shell[ShellOf[s]].identity
    /\ Whole(session[s].doc) => session[s].doc.model = session[s].model
    /\ turn[s].pc = "given" /\ ~turn[s].moved => Resolved(turn[s].prompt) = turn[s].model
    /\ turn[s].pc # "none" => session[s].exists
    /\ turn[s].pc \in {"loaded", "composed"} /\ ~turn[s].moved
           => turn[s].model = Resolved(session[s].model)

IInv == /\ shell \in [Shells -> Shell]
        /\ patch \in [Clients -> Patch \cup {NoPatch}]
        /\ session \in [Sessions -> Session]
        /\ turn \in [Sessions -> AnyTurn]
        /\ \A s \in Sessions : Sound(s)

(***************************************************************************)
(* Documents and turns                                                     *)
(***************************************************************************)

\* A rendered document is whole and tells what it was rendered from.
LEMMA ComposeFresh ==
    ASSUME NEW sh \in Shell, NEW m \in Pins
    PROVE  /\ Compose(sh, m) \in Document
           /\ Whole(Compose(sh, m))
           /\ Compose(sh, m).identity = sh.identity
           /\ Compose(sh, m).model = m
<1>1. Compose(sh, m) \in Document  BY DEF Compose, Document, Shell
<1>2. ~Compose(sh, m).torn  BY DEF Compose
<1> QED  BY <1>1, <1>2, NullAssumption DEF Compose, Whole

\* A rendered session.
LEMMA RenderedFresh ==
    ASSUME NEW s \in Sessions, session[s] \in Session, NEW sh \in Shell, NEW m \in Pins
    PROVE  /\ Rendered(s, m, sh) \in Session
           /\ Rendered(s, m, sh).exists = session[s].exists
           /\ Rendered(s, m, sh).active = session[s].active
           /\ Rendered(s, m, sh).model = m
           /\ Rendered(s, m, sh).doc = Compose(sh, m)
BY DEF Rendered, Session, Compose, Document, Shell

\* Documents and sessions with fields replaced.
LEMMA Torn ==
    ASSUME NEW d \in Document, NEW e, e = [d EXCEPT !.torn = TRUE]
    PROVE  e \in Document /\ e.torn
BY DEF Document

LEMMA Deactivated ==
    ASSUME NEW x \in Session, NEW y, NEW b \in BOOLEAN,
           y = [x EXCEPT !.active = b], b => x.active
    PROVE  /\ y \in Session
           /\ y.exists = x.exists /\ y.model = x.model /\ y.doc = x.doc
           /\ y.active => x.active
BY DEF Session

\* A turn that learns of a change keeps everything else.
LEMMA MoveKeeps ==
    ASSUME turn \in [Sessions -> AnyTurn], NEW S, Move(S)
    PROVE  /\ turn' \in [Sessions -> AnyTurn]
           /\ \A s \in Sessions :
                 /\ turn'[s].pc = turn[s].pc
                 /\ turn[s].pc # "none" =>
                      /\ turn'[s].model = turn[s].model
                      /\ turn[s].moved => turn'[s].moved
                      /\ s \in S => turn'[s].moved
                 /\ turn[s].pc = "given" => turn'[s].prompt = turn[s].prompt
<1> SUFFICES ASSUME NEW s \in Sessions
             PROVE  /\ turn'[s] \in AnyTurn
                    /\ turn'[s].pc = turn[s].pc
                    /\ turn[s].pc # "none" =>
                         /\ turn'[s].model = turn[s].model
                         /\ turn[s].moved => turn'[s].moved
                         /\ s \in S => turn'[s].moved
                    /\ turn[s].pc = "given" => turn'[s].prompt = turn[s].prompt
  BY DEF Move
<1>1. CASE turn[s] = NoTurn  BY <1>1 DEF Move, NoTurn, AnyTurn
<1>2. CASE turn[s] \in Loaded  BY <1>2 DEF Move, Loaded, AnyTurn
<1>3. CASE turn[s] \in Composing  BY <1>3 DEF Move, Composing, AnyTurn
<1>4. CASE turn[s] \in Prompted  BY <1>4 DEF Move, Prompted, AnyTurn
<1> QED  BY <1>1, <1>2, <1>3, <1>4 DEF AnyTurn

(***************************************************************************)
(* Steps                                                                   *)
(***************************************************************************)

\* Rendering the documents of one shell.
LEMMA RenderAllKeeps ==
    ASSUME BootAssumption, NEW id \in Shells, NEW sh \in Shell,
           session \in [Sessions -> Session], session' = RenderAll(id, sh),
           NEW s \in Sessions
    PROVE  /\ session'[s] \in Session
           /\ session'[s].exists = session[s].exists
           /\ session'[s].active = session[s].active
           /\ session'[s].model = session[s].model
           /\ IF ShellOf[s] = id /\ session[s].active
              THEN session'[s].doc = Compose(sh, session[s].model)
              ELSE session'[s] = session[s]
<1>1. session[s].model \in Pins  BY DEF Session
<1> QED  BY <1>1, RenderedFresh DEF RenderAll

\* Routes that leave turns alone.
LEMMA RouteKeeps ==
    ASSUME BootAssumption, IInv, Route
    PROVE  IInv'
<1> USE BootAssumption DEF IInv
<1>1. ASSUME NEW id \in Shells, NEW text \in Texts, WriteIdentity(id, text) PROVE IInv'
  <2>1. shell' \in [Shells -> Shell] /\ shell'[id] \in Shell
    BY <1>1 DEF WriteIdentity, Shell
  <2>2. /\ shell'[id].identity = text
        /\ \A x \in Shells : x # id => shell'[x] = shell[x]
    BY <1>1 DEF WriteIdentity, Shell
  <2>3. ASSUME NEW s \in Sessions PROVE Sound(s)' /\ session'[s] \in Session
    <3>1. /\ session'[s] \in Session
          /\ session'[s].exists = session[s].exists
          /\ session'[s].active = session[s].active
          /\ session'[s].model = session[s].model
          /\ IF ShellOf[s] = id /\ session[s].active
             THEN session'[s].doc = Compose(shell'[id], session[s].model)
             ELSE session'[s] = session[s]
      BY <1>1, <2>1, RenderAllKeeps DEF WriteIdentity
    <3>2. CASE ShellOf[s] = id /\ session[s].active
      <4>1. session[s].model \in Pins  BY DEF Session
      <4>2. /\ session'[s].doc.identity = shell'[id].identity
            /\ session'[s].doc.model = session'[s].model
        BY <2>1, <3>1, <3>2, <4>1, ComposeFresh
      <4> QED  BY <1>1, <3>1, <3>2, <4>2 DEF Sound, WriteIdentity
    <3>3. CASE ~(ShellOf[s] = id /\ session[s].active)
      BY <1>1, <2>2, <3>1, <3>3 DEF Sound, WriteIdentity
    <3> QED  BY <3>1, <3>2, <3>3
  <2>4. session' \in [Sessions -> Session]  BY <1>1, <2>3 DEF WriteIdentity, RenderAll
  <2> QED  BY <1>1, <2>1, <2>3, <2>4 DEF WriteIdentity
<1>3. ASSUME NEW n \in Sessions, NEW m \in Pins, CreateSession(n, m) PROVE IInv'
  <2>1. shell[ShellOf[n]] \in Shell  OBVIOUS
  <2>2. ~session[n].exists  BY <1>3 DEF CreateSession, Existing
  <2>3. ASSUME NEW s \in Sessions PROVE Sound(s)' /\ session'[s] \in Session
    <3>1. CASE s = n
      <4>1. session'[n] = Opened(n, m)  BY <1>3 DEF CreateSession
      <4>2. Opened(n, m) \in Session  BY <2>1, ComposeFresh DEF Opened, Session
      <4>3. /\ session'[n].doc.identity = shell[ShellOf[n]].identity
            /\ session'[n].doc.model = session'[n].model
        BY <2>1, <4>1, ComposeFresh DEF Opened
      <4>4. turn[n].pc = "none"  BY <2>2 DEF Sound
      <4> QED  BY <1>3, <3>1, <4>1, <4>2, <4>3, <4>4 DEF Sound, CreateSession
    <3>2. CASE s # n
      <4>0. PICK b \in BOOLEAN : b = (session[s].active /\ ShellOf[s] # ShellOf[n])  OBVIOUS
      <4>1. session'[s] = [session[s] EXCEPT !.active = b]
        BY <1>3, <3>2, <4>0 DEF CreateSession
      <4>2. /\ session'[s] \in Session
            /\ session'[s].exists = session[s].exists
            /\ session'[s].active => session[s].active
            /\ session'[s].model = session[s].model
            /\ session'[s].doc = session[s].doc
        BY <4>0, <4>1, Deactivated
      <4> QED  BY <1>3, <4>2 DEF Sound, CreateSession
    <3> QED  BY <3>1, <3>2
  <2>4. session' \in [Sessions -> Session]  BY <1>3, <2>3 DEF CreateSession
  <2> QED  BY <1>3, <2>3, <2>4 DEF CreateSession
<1>4. ASSUME NEW S, Retire(S) PROVE IInv'
  <2>1. ASSUME NEW s \in Sessions PROVE Sound(s)' /\ session'[s] \in Session
    <3>0. PICK b \in BOOLEAN : b = (session[s].active /\ s \notin S)  OBVIOUS
    <3>1. session'[s] = [session[s] EXCEPT !.active = b]  BY <1>4, <3>0 DEF Retire
    <3>2. /\ session'[s] \in Session
          /\ session'[s].exists = session[s].exists
          /\ session'[s].active => session[s].active
          /\ session'[s].model = session[s].model
          /\ session'[s].doc = session[s].doc
      BY <3>0, <3>1, Deactivated
    <3> QED  BY <1>4, <3>2 DEF Sound, Retire
  <2>2. session' \in [Sessions -> Session]  BY <1>4, <2>1 DEF Retire
  <2> QED  BY <1>4, <2>1, <2>2 DEF Retire
<1>5. ASSUME NEW c \in Clients, NEW s \in Sessions, NEW m \in Pins, PatchReads(c, s, m)
      PROVE  IInv'
  <2>1. [open |-> TRUE, session |-> s, changed |-> m # session[s].model, new |-> m] \in Patch
    BY DEF Patch, Session
  <2>2. patch' \in [Clients -> Patch \cup {NoPatch}]  BY <1>5, <2>1 DEF PatchReads
  <2> QED  BY <1>5, <2>2 DEF PatchReads, Sound
<1>6. ASSUME NEW c \in Clients, PatchWrites(c) PROVE IInv'
  <2>1. patch[c] \in Patch  BY <1>6 DEF PatchWrites, NoPatch
  <2>2. PICK p \in Patch : p = patch[c]  BY <2>1
  <2>3. p.session \in Sessions /\ p.new \in Pins  BY DEF Patch
  <2>4. session' = Written(p)  BY <1>6, <2>2 DEF PatchWrites
  <2>5. patch' \in [Clients -> Patch \cup {NoPatch}]  BY <1>6 DEF PatchWrites
  <2>6. /\ turn' \in [Sessions -> AnyTurn]
        /\ \A s \in Sessions :
              /\ turn'[s].pc = turn[s].pc
              /\ turn[s].pc # "none" => /\ turn'[s].model = turn[s].model
                                        /\ turn[s].moved => turn'[s].moved
                                        /\ session'[s].model # session[s].model => turn'[s].moved
              /\ turn[s].pc = "given" => turn'[s].prompt = turn[s].prompt
    BY <1>6, MoveKeeps DEF PatchWrites
  <2>7. ASSUME NEW s \in Sessions
        PROVE  /\ session'[s] \in Session
               /\ session'[s].exists = session[s].exists
               /\ session'[s].active = session[s].active
               /\ Whole(session'[s].doc) =>
                    \/ session'[s].doc = session[s].doc /\ session'[s].model = session[s].model
                    \/ session'[s].doc = Compose(shell[ShellOf[s]], session'[s].model)
    <3>1. CASE s # p.session  BY <2>3, <2>4, <3>1 DEF Written
    <3>2. CASE s = p.session
      <4>1. shell[ShellOf[s]] \in Shell  OBVIOUS
      <4>2. CASE p.changed
        <5>1. session'[s] = Rendered(s, p.new, shell[ShellOf[s]])
          BY <2>3, <2>4, <3>2, <4>2 DEF Written
        <5> QED  BY <2>3, <4>1, <5>1, RenderedFresh
      <4>3. CASE ~p.changed /\ (session[s].model = p.new \/ session[s].doc = NoDocument)
        <5>1. session'[s] = [session[s] EXCEPT !.model = p.new]
          BY <2>3, <2>4, <3>2, <4>3 DEF Written
        <5> QED  BY <2>3, <4>3, <5>1 DEF Session, Whole
      <4>4. CASE ~p.changed /\ ~(session[s].model = p.new \/ session[s].doc = NoDocument)
        <5>1. session[s].doc \in Document  BY <4>4 DEF Session
        <5>2. PICK d \in Document : d = [session[s].doc EXCEPT !.torn = TRUE] /\ d.torn
          BY <5>1, Torn
        <5>3. session'[s] = [session[s] EXCEPT !.model = p.new, !.doc = d]
          BY <2>3, <2>4, <3>2, <4>4, <5>2 DEF Written
        <5>4. session'[s] \in Session /\ session'[s].doc = d
              /\ session'[s].exists = session[s].exists
              /\ session'[s].active = session[s].active
          BY <2>3, <5>3 DEF Session
        <5> QED  BY <5>2, <5>4 DEF Whole
      <4> QED  BY <4>2, <4>3, <4>4
    <3> QED  BY <3>1, <3>2
  <2>8. ASSUME NEW s \in Sessions PROVE Sound(s)'
    <3>1. shell[ShellOf[s]] \in Shell /\ session'[s].model \in Pins  BY <2>7 DEF Session
    <3>2. Whole(session'[s].doc) =>
            /\ session'[s].doc.model = session'[s].model
            /\ session'[s].active => session'[s].doc.identity = shell[ShellOf[s]].identity
      BY <2>7, <3>1, ComposeFresh DEF Sound
    <3> QED  BY <1>6, <2>6, <2>7, <3>2 DEF Sound, PatchWrites
  <2>9. session' \in [Sessions -> Session]  BY <2>4, <2>7 DEF Written
  <2> QED  BY <1>6, <2>5, <2>6, <2>8, <2>9 DEF PatchWrites
<1> QED  BY <1>1, <1>3, <1>4, <1>5, <1>6 DEF Route

\* Turns of the dispatcher.
LEMMA DispatcherKeeps ==
    ASSUME BootAssumption, IInv, Dispatcher
    PROVE  IInv'
<1> USE BootAssumption DEF IInv
<1>1. PICK s \in Sessions : \/ TurnLoads(s)
                            \/ SessionStart(s)
                            \/ LazyWrite(s)
                            \/ \E n \in Sessions : AutoClear(s, n)
                            \/ TurnEnds(s)
  BY DEF Dispatcher
<1>2. /\ session[s] \in Session /\ turn[s] \in AnyTurn /\ Sound(s)
      /\ shell[ShellOf[s]] \in Shell /\ session[s].model \in Pins /\ Resolved(session[s].model) \in Models
  BY DEF Session, Pins, Resolved
<1>3. CASE TurnLoads(s)
  <2>1. PICK t \in Loaded : /\ turn' = [turn EXCEPT ![s] = t]
                            /\ t.model = Resolved(session[s].model) /\ session[s].exists
    BY <1>1, <1>2, <1>3 DEF TurnLoads, Loaded, Shell, Existing
  <2>2. t \in AnyTurn /\ t.pc = "loaded"  BY <2>1 DEF AnyTurn, Loaded
  <2>3. turn'[s] = t  BY <2>1
  <2>4. Sound(s)'  BY <1>2, <1>3, <2>1, <2>2, <2>3 DEF TurnLoads, Sound
  <2>5. ASSUME NEW x \in Sessions, x # s PROVE Sound(x)'
    BY <1>3, <2>1, <2>5 DEF TurnLoads, Sound
  <2> QED  BY <1>3, <2>1, <2>2, <2>4, <2>5 DEF TurnLoads
<1>4. ASSUME NEW d \in Document, turn[s].pc \in {"loaded", "composed"}
      PROVE  /\ Given(turn[s], d) \in AnyTurn
             /\ Given(turn[s], d).pc = "given"
             /\ Given(turn[s], d).prompt = d.model
             /\ Given(turn[s], d).model = turn[s].model
             /\ ~Given(turn[s], d).moved => ~turn[s].moved /\ ~d.torn
  <2>1. turn[s] \in Loaded \cup Composing
    BY <1>2, <1>4 DEF AnyTurn, NoTurn, Prompted
  <2>2. turn[s].moved \in BOOLEAN /\ d.torn \in BOOLEAN /\ (turn[s].moved \/ d.torn) \in BOOLEAN
    BY <2>1 DEF Loaded, Composing, Document
  <2>3. Given(turn[s], d) \in Prompted
    BY <2>1, <2>2 DEF Given, Prompted, Loaded, Composing, Document
  <2> QED  BY <2>2, <2>3 DEF Given, AnyTurn
<1>5. CASE SessionStart(s)
  <2>1. CASE session[s].doc # NoDocument
    <3>1. PICK d \in Document : d = session[s].doc  BY <1>2, <2>1 DEF Session
    <3>2. turn' = [turn EXCEPT ![s] = Given(turn[s], d)]  BY <1>5, <2>1, <3>1 DEF SessionStart
    <3>3. ~d.torn => d.model = session[s].model  BY <1>2, <2>1, <3>1 DEF Sound, Whole
    <3> QED  BY <1>2, <1>4, <1>5, <3>1, <3>2, <3>3 DEF SessionStart, Sound
  <2>2. CASE session[s].doc = NoDocument
    <3>1. PICK d \in Document : d = Compose(shell[ShellOf[s]], session[s].model)
      BY <1>2, ComposeFresh
    <3>2. turn[s] \in Loaded  BY <1>2, <1>5 DEF SessionStart, AnyTurn, NoTurn, Composing, Prompted
    <3>3. PICK t \in Composing : /\ turn' = [turn EXCEPT ![s] = t]
                                 /\ t.model = turn[s].model /\ t.moved = turn[s].moved
      <4>1. turn' = [turn EXCEPT ![s] = Composed(turn[s], d)]
        BY <1>5, <2>2, <3>1 DEF SessionStart
      <4>2. PICK b \in BOOLEAN : b = turn[s].moved  BY <3>2 DEF Loaded
      <4>3. /\ Composed(turn[s], d).model = turn[s].model
            /\ Composed(turn[s], d).moved = b
            /\ Composed(turn[s], d) \in Composing
        BY <3>2, <4>2 DEF Composed, Composing, Loaded
      <4> QED  BY <4>1, <4>2, <4>3
    <3>4. t \in AnyTurn /\ t.pc = "composed"  BY <3>3 DEF AnyTurn, Composing
    <3> QED  BY <1>2, <1>5, <3>2, <3>3, <3>4 DEF SessionStart, Sound, Loaded
  <2> QED  BY <2>1, <2>2
<1>6. CASE LazyWrite(s)
  <2> DEFINE now == Compose(shell[ShellOf[s]], session[s].model)
  <2>1. turn[s] \in Composing  BY <1>2, <1>6 DEF LazyWrite, AnyTurn, NoTurn, Loaded, Prompted
  <2>2. turn[s].doc \in Document  BY <2>1 DEF Composing
  <2>3. PICK d \in Document : /\ d = [turn[s].doc EXCEPT !.torn = turn[s].doc # now]
                              /\ ~d.torn => turn[s].doc = now
    <3>1. PICK b \in BOOLEAN : b = (turn[s].doc # now)  OBVIOUS
    <3>2. PICK e : e = [turn[s].doc EXCEPT !.torn = b]  OBVIOUS
    <3>3. e \in Document /\ e.torn = b  BY <2>2, <3>2 DEF Document
    <3> QED  BY <3>1, <3>2, <3>3
  <2>4. /\ session' = [session EXCEPT ![s].doc = d]
        /\ turn' = [turn EXCEPT ![s] = Given(turn[s], d)]
    BY <1>6, <2>3 DEF LazyWrite
  <2>5. ~d.torn => d.model = session[s].model /\ d.identity = shell[ShellOf[s]].identity
    <3>1. d.model = turn[s].doc.model /\ d.identity = turn[s].doc.identity
      BY <2>2, <2>3 DEF Document
    <3> QED  BY <1>2, <2>3, <3>1, ComposeFresh
  <2>6. /\ session'[s] \in Session /\ session'[s].doc = d
        /\ session'[s].exists = session[s].exists
        /\ session'[s].model = session[s].model
    BY <1>2, <2>4 DEF Session
  <2>7. Sound(s)'
    <3>1. turn[s].pc = "composed"  BY <1>6 DEF LazyWrite
    <3>2. PICK t : t = Given(turn[s], d)  OBVIOUS
    <3>3. /\ t \in AnyTurn /\ t.pc = "given" /\ t.prompt = d.model
          /\ t.model = turn[s].model
          /\ ~t.moved => ~turn[s].moved /\ ~d.torn
      BY <1>4, <3>1, <3>2
    <3>4. turn'[s] = t  BY <2>4, <3>2
    <3>5. session[s].exists /\ (~turn[s].moved => turn[s].model = Resolved(session[s].model))
      BY <1>2, <3>1 DEF Sound
    <3>6. ~t.moved => Resolved(t.prompt) = t.model  BY <2>5, <3>3, <3>5
    <3> QED  BY <1>6, <2>5, <2>6, <3>3, <3>4, <3>5, <3>6 DEF LazyWrite, Sound, Whole
  <2>8. ASSUME NEW x \in Sessions, x # s PROVE Sound(x)'
    BY <1>6, <2>4, <2>8 DEF LazyWrite, Sound
  <2>9. session' \in [Sessions -> Session] /\ turn' \in [Sessions -> AnyTurn]
    BY <2>4, <2>6, <2>7 DEF Sound
  <2> QED  BY <1>6, <2>7, <2>8, <2>9 DEF LazyWrite
<1>7. ASSUME NEW n \in Sessions, AutoClear(s, n) PROVE IInv'
  <2>1. n # s /\ ~session[n].exists /\ turn[n].pc = "none"
    BY <1>2, <1>7 DEF AutoClear, Sound, Existing
  <2>2. PICK o \in Session : /\ o = Opened(n, session[s].model)
                             /\ o.doc.identity = shell[ShellOf[n]].identity
                             /\ o.doc.model = o.model
    <3>1. shell[ShellOf[n]] \in Shell  OBVIOUS
    <3>2. Opened(n, session[s].model) \in Session
      BY <1>2, <3>1, ComposeFresh DEF Opened, Session
    <3> QED  BY <1>2, <3>1, <3>2, ComposeFresh DEF Opened
  <2>3. session' = [session EXCEPT ![s].active = FALSE, ![n] = o]
    BY <1>7, <2>2 DEF AutoClear
  <2>4. turn' = [turn EXCEPT ![s] = NoTurn] /\ NoTurn \in AnyTurn
    BY <1>7 DEF AutoClear, AnyTurn
  <2>5. Sound(n)'
    BY <1>7, <2>1, <2>2, <2>3, <2>4 DEF AutoClear, Sound
  <2>6. /\ session'[s] \in Session /\ session'[s].doc = session[s].doc
        /\ ~session'[s].active /\ session'[s].model = session[s].model
    BY <1>2, <2>1, <2>3 DEF Session
  <2>7. Sound(s)'  BY <1>2, <1>7, <2>4, <2>6 DEF AutoClear, Sound, NoTurn
  <2>8. ASSUME NEW x \in Sessions, x # s, x # n PROVE Sound(x)'
    BY <1>7, <2>3, <2>4, <2>8 DEF AutoClear, Sound
  <2>9. session' \in [Sessions -> Session] /\ turn' \in [Sessions -> AnyTurn]
    BY <2>2, <2>3, <2>4, <2>6
  <2> QED  BY <1>7, <2>5, <2>7, <2>8, <2>9 DEF AutoClear
<1>8. CASE TurnEnds(s)
  <2>1. turn' = [turn EXCEPT ![s] = NoTurn] /\ NoTurn \in AnyTurn
    BY <1>8 DEF TurnEnds, AnyTurn
  <2> QED  BY <1>2, <1>8, <2>1 DEF TurnEnds, Sound, NoTurn
<1> QED  BY <1>1, <1>3, <1>5, <1>6, <1>7, <1>8

(***************************************************************************)
(* Theorems                                                                *)
(***************************************************************************)

\* Documents and turns are sound in every reachable state.
THEOREM BootInductive == Spec => []IInv
<1> USE BootAssumption
<1>1. Init => IInv
  <2> SUFFICES ASSUME Init PROVE IInv  OBVIOUS
  <2>1. session \in [Sessions -> Session]  BY DEF Init, Session
  <2>2. shell \in [Shells -> Shell]  BY DEF Init, Shell
  <2>3. \A s \in Sessions : session[s].doc = NoDocument  BY DEF Init
  <2>4. turn \in [Sessions -> AnyTurn]  BY DEF Init, AnyTurn
  <2> QED  BY <2>1, <2>2, <2>3, <2>4 DEF Init, IInv, Sound, Whole, NoTurn
<1>2. IInv /\ [Next]_vars => IInv'
  <2>1. IInv /\ UNCHANGED vars => IInv'  BY DEF IInv, Sound, vars
  <2> QED  BY <2>1, RouteKeeps, DispatcherKeeps DEF Next
<1> QED  BY <1>1, <1>2, PTL DEF Spec

\* Types, and no turn goes on without a document.
THEOREM BootTypes == Spec => []TypeOK
<1>1. IInv => TypeOK  BY DEF IInv, TypeOK, AnyTurn
<1> QED  BY <1>1, BootInductive, PTL

\* An identity write reaches the document of every active session.
THEOREM IdentityReaches == Spec => []IdentityIsCurrent
<1>1. IInv => IdentityIsCurrent  BY DEF IInv, IdentityIsCurrent, Sound
<1> QED  BY <1>1, BootInductive, PTL

\* A document that no stale request has touched is rendered for the session's
\* model.
THEOREM ModelReaches == Spec => []ModelIsCurrent
<1>1. IInv => ModelIsCurrent  BY DEF IInv, ModelIsCurrent, Sound
<1> QED  BY <1>1, BootInductive, PTL

\* A turn that nothing has overtaken is given a document for its own model, or for
\* none when its session is pinned to none and it calls DISPATCH_MODEL.
THEOREM TurnsGetTheirModel == Spec => []TurnHasItsModel
<1>1. IInv => TurnHasItsModel  BY DEF IInv, TurnHasItsModel, Sound
<1> QED  BY <1>1, BootInductive, PTL
=============================================================================
