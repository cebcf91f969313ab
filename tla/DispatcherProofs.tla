------------------------- MODULE DispatcherProofs -------------------------
(***************************************************************************)
(* Proofs about Dispatcher for every value of its constants, in this       *)
(* order: what each write of the chat tables keeps; threads and turns,     *)
(* whose agreement is inductive and gives the serial turns; the table,     *)
(* whose rows are deleted from the front; the dispatcher as a Mailbox; and *)
(* the markers, where one process is all there is.                         *)
(***************************************************************************)
EXTENDS Dispatcher, SequenceTheorems, FiniteSetTheorems, TLAPS

(***************************************************************************)
(* Writes of the chat tables                                               *)
(***************************************************************************)

\* Table new has every row of table old, in its place and its session; flags
\* of a row are only ever set.
KeepsRows(old, new) ==
    /\ DOMAIN old \subseteq DOMAIN new
    /\ \A i \in DOMAIN old : /\ new[i].kind = old[i].kind
                             /\ new[i].sess = old[i].sess
                             /\ old[i].read => new[i].read
                             /\ old[i].deleted => new[i].deleted

\* The rows added are inserted at the end.
AddsLater(old, new) == \A i \in DOMAIN old, j \in DOMAIN new \ DOMAIN old : i < j

Extends(old, new) == /\ new \in Seq(Row)
                     /\ KeepsRows(old, new)
                     /\ AddsLater(old, new)

\* An unchanged table extends itself.
LEMMA ExtendsRefl == \A ms \in Seq(Row) : Extends(ms, ms)
BY DEF Extends, KeepsRows, AddsLater

\* Two writes in a row extend the table.
LEMMA ExtendsTrans ==
    ASSUME NEW a \in Seq(Row), NEW b \in Seq(Row), NEW c \in Seq(Row),
           Extends(a, b), Extends(b, c)
    PROVE  Extends(a, c)
<1>1. KeepsRows(a, c)  BY DEF Extends, KeepsRows
<1>2. AddsLater(a, c)
  <2> SUFFICES ASSUME NEW i \in DOMAIN a, NEW j \in DOMAIN c \ DOMAIN a
               PROVE  i < j
      BY DEF AddsLater
  <2> QED  BY DEF Extends, KeepsRows, AddsLater
<1> QED  BY <1>1, <1>2 DEF Extends

\* INSERT, row by row.
LEMMA AppendAt ==
    ASSUME NEW ms \in Seq(Row), NEW r \in Row
    PROVE  /\ Append(ms, r) \in Seq(Row)
           /\ Len(ms) \in Nat
           /\ DOMAIN ms = 1..Len(ms)
           /\ DOMAIN Append(ms, r) = 1..(Len(ms) + 1)
           /\ \A i \in 1..Len(ms) : Append(ms, r)[i] = ms[i]
           /\ Append(ms, r)[Len(ms) + 1] = r
BY AppendProperties, LenProperties

\* INSERT: a row added at the end extends the table.
LEMMA AppendExtends ==
    ASSUME NEW ms \in Seq(Row), NEW r \in Row
    PROVE  Extends(ms, Append(ms, r))
BY AppendAt DEF Extends, KeepsRows, AddsLater

\* UPDATE: a table of the same length whose rows keep their kind and session
\* and lose no flag extends the old one.
LEMMA UpdateExtends ==
    ASSUME NEW ms \in Seq(Row), NEW f,
           f = [i \in DOMAIN ms |-> f[i]],
           \A i \in DOMAIN ms : /\ f[i] \in Row
                                /\ f[i].kind = ms[i].kind
                                /\ f[i].sess = ms[i].sess
                                /\ ms[i].read => f[i].read
                                /\ ms[i].deleted => f[i].deleted
    PROVE  Extends(ms, f)
<1>1. DOMAIN ms = 1..Len(ms) /\ Len(ms) \in Nat  BY LenProperties
<1>2. f \in [1..Len(ms) -> Row]  BY <1>1
<1>3. f \in Seq(Row)  BY <1>1, <1>2, SeqDef
<1> QED  BY <1>3 DEF Extends, KeepsRows, AddsLater

\* SET is_deleted=1 extends the table.
LEMMA SoftDeleteExtends ==
    ASSUME NEW ms \in Seq(Row), NEW S
    PROVE  Extends(ms, SoftDelete(ms, S))
<1> DEFINE f == SoftDelete(ms, S)
<1>1. \A i \in DOMAIN ms : ms[i] \in Row  BY ElementOfSeq
<1>2. f = [i \in DOMAIN ms |-> f[i]]  BY DEF SoftDelete
<1>3. \A i \in DOMAIN ms : f[i] = IF i \in S THEN [ms[i] EXCEPT !.deleted = TRUE] ELSE ms[i]
  BY DEF SoftDelete
<1>4. \A i \in DOMAIN ms : /\ f[i] \in Row
                           /\ f[i].kind = ms[i].kind
                           /\ f[i].sess = ms[i].sess
                           /\ ms[i].read => f[i].read
                           /\ ms[i].deleted => f[i].deleted
  BY <1>1, <1>3 DEF Row
<1> HIDE DEF f
<1> QED  BY <1>2, <1>4, UpdateExtends DEF f

\* SET read_by_shell=1 extends the table.
LEMMA ReadExtends ==
    ASSUME NEW ms \in Seq(Row), NEW m
    PROVE  Extends(ms, [ms EXCEPT ![m].read = TRUE])
<1> DEFINE f == [ms EXCEPT ![m].read = TRUE]
<1>1. \A i \in DOMAIN ms : ms[i] \in Row  BY ElementOfSeq
<1>2. f = [i \in DOMAIN ms |-> f[i]]  OBVIOUS
<1>3. \A i \in DOMAIN ms : f[i] = IF i = m THEN [ms[i] EXCEPT !.read = TRUE] ELSE ms[i]
  OBVIOUS
<1>4. \A i \in DOMAIN ms : /\ f[i] \in Row
                           /\ f[i].kind = ms[i].kind
                           /\ f[i].sess = ms[i].sess
                           /\ ms[i].read => f[i].read
                           /\ ms[i].deleted => f[i].deleted
  BY <1>1, <1>3 DEF Row
<1> HIDE DEF f
<1> QED  BY <1>2, <1>4, UpdateExtends DEF f

\* A new row has the type of a row.
LEMMA NewRowType ==
    \A s \in Sessions : NewRow("inbound", s) \in Row /\ NewRow("reply", s) \in Row
                        /\ NewRow("notice", s) \in Row
BY DEF NewRow, Row

\* The reply route extends the table, with a reply after everything it held,
\* and leaves the other tables well typed.
LEMMA ReplyWrites ==
    ASSUME ChatTypeOK, NEW m, NEW s \in Sessions, NEW level, NEW n \in Sessions,
           Reply(m, s, level, n)
    PROVE  ChatTypeOK' /\ Extends(messages, messages')
<1> DEFINE warnNow  == level # "low" /\ ~sessions[s].warned
           source   == [messages EXCEPT ![m].read = TRUE]
           replied  == Append(source, NewRow("reply", s))
           warned   == IF warnNow THEN Append(replied, NewRow("notice", s)) ELSE replied
           rewarned == [sessions EXCEPT ![s].warned = @ \/ warnNow]
<1>0. messages \in Seq(Row)  BY DEF ChatTypeOK
<1>1. source \in Seq(Row) /\ Extends(messages, source)
  BY <1>0, ReadExtends DEF Extends
<1>2. replied \in Seq(Row) /\ Extends(messages, replied)
  <2>1. Extends(source, replied)  BY <1>1, NewRowType, AppendExtends
  <2>2. replied \in Seq(Row)  BY <2>1 DEF Extends
  <2> HIDE DEF source, replied
  <2> QED  BY <1>0, <1>1, <2>1, <2>2, ExtendsTrans
<1>3. warned \in Seq(Row) /\ Extends(messages, warned)
  <2>1. CASE warnNow
    <3>1. warned = Append(replied, NewRow("notice", s))  BY <2>1
    <3> HIDE DEF replied, warned
    <3>2. Extends(replied, warned)  BY <1>2, <3>1, NewRowType, AppendExtends
    <3>3. warned \in Seq(Row)  BY <3>2 DEF Extends
    <3> QED  BY <1>0, <1>2, <3>2, <3>3, ExtendsTrans
  <2>2. CASE ~warnNow  BY <1>2, <2>2
  <2> QED  BY <2>1, <2>2
<1>4. rewarned \in [Sessions -> Session]
  BY DEF ChatTypeOK, Session
<1>5. CASE level # "clear"
  <2>1. messages' = warned /\ sessions' = rewarned /\ browser' = browser
    BY <1>5 DEF Reply
  <2> HIDE DEF warned, rewarned
  <2> QED  BY <1>3, <1>4, <2>1 DEF ChatTypeOK
<1>6. CASE level = "clear"
  <2> DEFINE cleared == ClearRows(warned, s)
  <2>1. /\ messages' = Append(cleared, NewRow("notice", n))
        /\ sessions' = [rewarned EXCEPT ![s].active = FALSE, ![n] = Fresh]
        /\ browser' = browser
    BY <1>6 DEF Reply
  <2> HIDE DEF warned, rewarned
  <2>2. Extends(warned, cleared)  BY <1>3, SoftDeleteExtends DEF ClearRows
  <2>3. cleared \in Seq(Row)  BY <2>2 DEF Extends
  <2> HIDE DEF cleared
  <2>4. Extends(cleared, messages')  BY <2>1, <2>3, NewRowType, AppendExtends
  <2>5. messages' \in Seq(Row)  BY <2>4 DEF Extends
  <2>6. Extends(messages, messages')
    BY <1>0, <1>3, <2>2, <2>3, <2>4, <2>5, ExtendsTrans
  <2>7. sessions' \in [Sessions -> Session]  BY <1>4, <2>1 DEF Session, Fresh
  <2> QED  BY <2>1, <2>5, <2>6, <2>7 DEF ChatTypeOK
<1> QED  BY <1>5, <1>6

\* Whatever a user does extends the table and leaves the tables well typed.
LEMMA UserWrites ==
    ASSUME ChatAssumption, ChatTypeOK, UserAction
    PROVE  ChatTypeOK' /\ Extends(messages, messages')
<1>0. messages \in Seq(Row) /\ Extends(messages, messages)
  BY ExtendsRefl DEF ChatTypeOK
<1>1. ASSUME NEW s \in Sessions, PostChat(s) \/ SwitchModel(s)
      PROVE  ChatTypeOK' /\ Extends(messages, messages')
  BY <1>0, <1>1, NewRowType, AppendExtends DEF PostChat, SwitchModel, ChatTypeOK, Extends
<1>2. ASSUME NEW s \in Sessions, CreateSession(s)
      PROVE  ChatTypeOK' /\ Extends(messages, messages')
  <2>1. sessions' \in [Sessions -> Session]
    BY <1>2 DEF CreateSession, ChatTypeOK, Session, Fresh
  <2> QED  BY <1>0, <1>2, <2>1 DEF CreateSession, ChatTypeOK
<1>3. ASSUME NEW s \in Sessions, ClearSession(s)
      PROVE  ChatTypeOK' /\ Extends(messages, messages')
  <2>1. sessions' \in [Sessions -> Session]  BY <1>3 DEF ClearSession, ChatTypeOK, Session
  <2>2. Extends(messages, messages')
    BY <1>0, <1>3, SoftDeleteExtends DEF ClearSession, ClearRows
  <2> QED  BY <1>3, <2>1, <2>2 DEF ClearSession, ChatTypeOK, Extends
<1>4. ASSUME NEW sh \in Shells, NEW b \in 0..Len(messages), DeleteChat(sh, b)
      PROVE  ChatTypeOK' /\ Extends(messages, messages')
  <2>1. sessions' \in [Sessions -> Session]  BY <1>4 DEF DeleteChat, ChatTypeOK, Session
  <2>2. Extends(messages, messages')  BY <1>0, <1>4, SoftDeleteExtends DEF DeleteChat
  <2> QED  BY <1>4, <2>1, <2>2 DEF DeleteChat, ChatTypeOK, Extends
<1>5. ASSUME NEW sh \in Shells, ActivateShell(sh) \/ ToggleBrowserChat(sh)
      PROVE  ChatTypeOK' /\ Extends(messages, messages')
  <2>1. browser' \in [Shells -> BOOLEAN]
    <3>1. CASE ActivateShell(sh)  BY <3>1 DEF ActivateShell
    <3>2. CASE ToggleBrowserChat(sh)
      <4>1. \A x \in Shells : browser[x] \in BOOLEAN  BY DEF ChatTypeOK
      <4>2. \A x \in Shells : (IF x = sh THEN ~browser[sh] ELSE browser[x] /\ browser[sh])
                              \in BOOLEAN
        BY <4>1, Zenon
      <4> QED  BY <3>2, <4>2, Zenon DEF ToggleBrowserChat
    <3> QED  BY <1>5, <3>1, <3>2
  <2> QED  BY <1>0, <1>5, <2>1 DEF ActivateShell, ToggleBrowserChat, ChatTypeOK
<1> QED  BY <1>1, <1>2, <1>3, <1>4, <1>5 DEF UserAction

(***************************************************************************)
(* The inductive invariant                                                 *)
(***************************************************************************)

\* What a loop has fetched are inbound rows of its shell.
FetchedRows ==
    \A l \in Loops : \A i \in loops[l].unread :
        i \in InboundIds /\ ShellOf[messages[i].sess] = l[2]

\* A turn's message is an inbound row of its session, a session of the shell.
TurnRows ==
    \A t \in turns : /\ t.msg \in InboundIds
                     /\ t.sess = messages[t.msg].sess
                     /\ ShellOf[t.sess] = t.loop[2]

\* With a row, a loop has fetched the older rows of its session still pending.
FetchedInOrder ==
    \A l \in Loops : \A i \in loops[l].unread : \A j \in Pending :
        j < i /\ messages[j].sess = messages[i].sess => j \in loops[l].unread

\* A thread that does not exist holds nothing.
AbsentHoldsNothing == \A l \in Loops : ~Alive(l) => loops[l] = Absent

\* A process has one thread for a shell, the draining one included.
OneLoopPerShell ==
    \A l, k \in Loops : l[1] = k[1] /\ l[2] = k[2] /\ Alive(l) /\ Alive(k) => l = k

\* A thread has one turn for a session.
OneTurnInLoop == \A t, u \in turns : t.loop = u.loop /\ t.sess = u.sess => t = u

IInv == /\ TypeOK
        /\ FetchedRows /\ TurnRows
        /\ FetchedInOrder /\ ServedInOrder
        /\ AbsentHoldsNothing /\ OneLoopPerShell
        /\ InFlightExact /\ OneTurnInLoop

(***************************************************************************)
(* The shapes a step can have for threads and turns                        *)
(***************************************************************************)

SameThreads == loops' = loops /\ turns' = turns

\* One turn advances.
TurnMoves(t) == /\ loops' = loops
                /\ \E pc, k : turns' = (turns \ {t}) \cup {[t EXCEPT !.pc = pc, !.tries = k]}

\* Some threads are told to stop or start to drain: st and stop change only.
Signalled ==
    /\ turns' = turns
    /\ \A l \in Loops : /\ loops'[l].unread = loops[l].unread
                        /\ loops'[l].inflight = loops[l].inflight
                        /\ loops'[l].st = "absent" <=> loops[l].st = "absent"
                        /\ loops[l].st = "absent" => loops'[l] = loops[l]

Shape == \/ SameThreads
         \/ \E t \in turns : TurnMoves(t)
         \/ Signalled
         \/ \E p \in Procs : Vanish(p)
         \/ \E l \in Loops : Join(l) \/ Fetch(l) \/ Submit(l) \/ LoopEnds(l)
         \/ \E t \in turns : Release(t)

\* Every step has one of these shapes.
LEMMA StepShape == ASSUME TypeOK, [Next]_vars PROVE Shape
<1>1. CASE User  BY <1>1 DEF User, Shape, SameThreads
<1>2. CASE Supervise
  <2>1. ASSUME NEW p \in Procs, Start(p) PROVE Shape
    BY <2>1 DEF Start, Shape, SameThreads
  <2>2. ASSUME NEW l \in Loops, Leave(l) PROVE Shape
    <3>1. Signalled  BY <2>2 DEF Leave, Signalled, TypeOK, Alive, Loop
    <3> QED  BY <3>1 DEF Shape
  <2>3. ASSUME NEW l \in Loops, Join(l) PROVE Shape  BY <2>3 DEF Shape
  <2>4. ASSUME NEW p \in Procs, Exit(p) PROVE Shape  BY <2>4 DEF Exit, Shape
  <2> QED  BY <1>2, <2>1, <2>2, <2>3, <2>4 DEF Supervise
<1>3. ASSUME NEW l \in Loops, Poll(l) PROVE Shape
  <2>1. ASSUME Halt(l) PROVE Signalled  BY <2>1 DEF Halt, Signalled, TypeOK, Loop
  <2> QED  BY <1>3, <2>1 DEF Poll, Shape
<1>4. ASSUME NEW t \in turns, Work(t) PROVE Shape
  <2>1. ASSUME TurnStart(t) \/ Skip(t) \/ Load(t) \/ ClearMarker(t) PROVE TurnMoves(t)
    BY <2>1 DEF TurnStart, Skip, Load, ClearMarker, Moves, Becomes, TurnMoves
  <2>2. ASSUME NEW level \in Levels, NEW n \in Sessions, PostReply(t, level, n)
        PROVE  TurnMoves(t)
    BY <2>2 DEF PostReply, Moves, Becomes, TurnMoves
  <2> QED  BY <1>4, <2>1, <2>2 DEF Work, Shape
<1>5. CASE Failure
  <2>1. ASSUME NEW p \in Procs, Sigterm(p) PROVE Signalled
    BY <2>1 DEF Sigterm, Signalled, TypeOK, Alive, Loop
  <2>2. ASSUME NEW p \in Procs, Kill(p) PROVE Shape  BY <2>2 DEF Kill, Shape
  <2>3. ASSUME NEW t \in turns,
               \/ TurnStartFails(t) \/ TurnRaises(t) \/ HandlerFails(t)
               \/ ClearMarkerFails(t) \/ PostFails(t)
        PROVE  TurnMoves(t)
    BY <2>3 DEF TurnStartFails, TurnRaises, HandlerFails, ClearMarkerFails, PostFails,
                AfterFailedCall, Moves, Becomes, TurnMoves
  <2>4. ASSUME NEW t \in turns, NEW level \in Levels, NEW n \in Sessions,
               PostReplyLost(t, level, n)
        PROVE  TurnMoves(t)
    BY <2>4 DEF PostReplyLost, AfterFailedCall, Moves, Becomes, TurnMoves
  <2> QED  BY <1>5, <2>1, <2>2, <2>3, <2>4 DEF Failure, Shape
<1>6. CASE UNCHANGED vars  BY <1>6 DEF vars, Shape, SameThreads
<1> QED  BY <1>1, <1>2, <1>3, <1>4, <1>5, <1>6 DEF Next

(***************************************************************************)
(* Types, and the table only grows                                         *)
(***************************************************************************)

\* A turn that moves on stays a turn.
LEMMA MoveTypes ==
    ASSUME turns \subseteq Turn, NEW t \in turns, NEW k \in Nat,
           NEW pc \in {"queued", "marked", "thinking", "done", "unmarked"},
           Becomes(t, pc, k)
    PROVE  turns' \subseteq Turn
<1>1. t \in Turn  OBVIOUS
<1>2. [t EXCEPT !.pc = pc, !.tries = k] \in Turn  BY <1>1 DEF Turn
<1> QED  BY <1>2 DEF Becomes

\* A step keeps the types and extends the table of messages.
LEMMA StepTypes ==
    ASSUME ChatAssumption, DispatcherAssumption, TypeOK, FetchedRows, TurnRows, [Next]_vars
    PROVE  TypeOK' /\ Extends(messages, messages')
<1> DEFINE Goal == TypeOK' /\ Extends(messages, messages')
<1>0. messages \in Seq(Row) /\ Extends(messages, messages)
  BY ExtendsRefl DEF TypeOK, ChatTypeOK
<1>a. ASSUME UNCHANGED <<messages, sessions, browser>> PROVE ChatTypeOK' /\ Extends(messages, messages')
  BY <1>0, <1>a DEF TypeOK, ChatTypeOK
<1>b. ASSUME NEW i, MarkRead(i), UNCHANGED <<sessions, browser>>
      PROVE  ChatTypeOK' /\ Extends(messages, messages')
  BY <1>0, <1>b, ReadExtends DEF MarkRead, TypeOK, ChatTypeOK, Extends
<1>c. ASSUME NEW t \in turns, UNCHANGED <<messages, browser>>,
             NEW k \in Nat, sessions' = [sessions EXCEPT ![t.sess].marker = k]
      PROVE  ChatTypeOK' /\ Extends(messages, messages')
  <2>1. sessions' \in [Sessions -> Session]  BY <1>c DEF TypeOK, ChatTypeOK, Session
  <2> QED  BY <1>0, <1>c, <2>1 DEF TypeOK, ChatTypeOK
<1>d. ASSUME NEW shs, ClearMarkers(shs), UNCHANGED <<messages, browser>>
      PROVE  /\ ChatTypeOK' /\ Extends(messages, messages')
             /\ uncleared' \subseteq Sessions
  <2>1. sessions' \in [Sessions -> Session]
    BY <1>d DEF ClearMarkers, TypeOK, ChatTypeOK, Session
  <2>2. uncleared' \subseteq Sessions  BY <1>d DEF ClearMarkers, TypeOK
  <2> QED  BY <1>0, <1>d, <2>1, <2>2 DEF TypeOK, ChatTypeOK
<1>e. ASSUME NEW p \in Procs, Vanish(p)
      PROVE  proc' \in [Procs -> Proc] /\ loops' \in [Loops -> Loop] /\ turns' \subseteq Turn
  BY <1>e DEF Vanish, TypeOK, Proc, Loop, Absent
<1>f. MessageIds \subseteq Nat
  BY <1>0, LenProperties DEF MessageIds
<1>1. CASE User
  <2>1. ChatTypeOK' /\ Extends(messages, messages')  BY <1>1, UserWrites DEF User, TypeOK
  <2> QED  BY <1>1, <2>1 DEF User, TypeOK
<1>2. CASE Supervise
  <2>1. ASSUME NEW p \in Procs, Start(p) PROVE Goal
    BY <1>a, <2>1 DEF Start, TypeOK, Proc
  <2>2. ASSUME NEW l \in Loops, Leave(l) PROVE Goal
    <3>1. loops' \in [Loops -> Loop]  BY <2>2 DEF Leave, TypeOK, Loop
    <3> QED  BY <1>a, <2>2, <3>1 DEF Leave, TypeOK
  <2>3. ASSUME NEW l \in Loops, Join(l) PROVE Goal
    <3>1. loops' \in [Loops -> Loop]  BY <2>3 DEF Join, TypeOK, Loop, NewLoop, Absent
    <3> QED  BY <1>d, <2>3, <3>1 DEF Join, TypeOK
  <2>4. ASSUME NEW p \in Procs, Exit(p) PROVE Goal
    BY <1>a, <1>e, <2>4 DEF Exit, TypeOK
  <2> QED  BY <1>2, <2>1, <2>2, <2>3, <2>4 DEF Supervise
<1>3. ASSUME NEW l \in Loops, Poll(l) PROVE Goal
  <2>1. CASE Fetch(l)
    <3> DEFINE mine == {i \in Pending : ShellOf[messages[i].sess] = l[2]}
    <3>1. mine \in SUBSET Nat  BY <1>f DEF Pending, InboundIds
    <3>2. loops' = [loops EXCEPT ![l].st = "fetched", ![l].unread = mine]
      BY <2>1 DEF Fetch
    <3> HIDE DEF mine
    <3> DEFINE after == [loops[l] EXCEPT !.st = "fetched", !.unread = mine]
    <3>4. loops[l] \in Loop  BY DEF TypeOK
    <3>5. after \in Loop  BY <3>1, <3>4 DEF Loop
    <3>6. loops' = [loops EXCEPT ![l] = after]  BY <3>2, <3>4 DEF TypeOK, Loop
    <3> HIDE DEF after
    <3>3. loops' \in [Loops -> Loop]  BY <3>5, <3>6 DEF TypeOK
    <3> QED  BY <1>a, <2>1, <3>3 DEF Fetch, TypeOK
  <2>2. CASE Submit(l)
    <3> DEFINE picked == {messages[i].sess : i \in Picked(l)}
    <3>1. \A i \in Picked(l) : i \in MessageIds
      BY DEF Picked, FetchedRows, InboundIds
    <3>2. \A i \in MessageIds : messages[i] \in Row
      BY <1>0, ElementOfSeq DEF MessageIds
    <3>3. \A i \in Picked(l) : messages[i].sess \in Sessions /\ i \in Nat
      BY <1>f, <3>1, <3>2 DEF Row
    <3>4. \A i \in Picked(l) : NewTurn(l, i) \in Turn  BY <3>3 DEF NewTurn, Turn
    <3>5. picked \in SUBSET Sessions  BY <3>3
    <3>6. loops' = [loops EXCEPT ![l].st = "top", ![l].unread = {},
                                 ![l].inflight = @ \cup picked]
      BY <2>2 DEF Submit
    <3> HIDE DEF picked
    <3>7. loops[l] \in Loop  BY DEF TypeOK
    <3>8. loops[l].inflight \cup picked \in SUBSET Sessions  BY <3>5, <3>7 DEF Loop
    <3> DEFINE after == [loops[l] EXCEPT !.st = "top", !.unread = {},
                                         !.inflight = loops[l].inflight \cup picked]
    <3>9. after \in Loop  BY <3>7, <3>8 DEF Loop
    <3>10. loops' = [loops EXCEPT ![l] = after]  BY <3>6, <3>7 DEF TypeOK, Loop
    <3> HIDE DEF after
    <3>11. loops' \in [Loops -> Loop]  BY <3>9, <3>10 DEF TypeOK
    <3> QED  BY <1>a, <2>2, <3>4, <3>11 DEF Submit, TypeOK
  <2>3. CASE Halt(l)
    <3>1. loops' \in [Loops -> Loop]  BY <2>3 DEF Halt, TypeOK, Loop
    <3> QED  BY <1>a, <2>3, <3>1 DEF Halt, TypeOK
  <2>4. CASE LoopEnds(l)
    <3>1. loops' \in [Loops -> Loop]  BY <2>4 DEF LoopEnds, TypeOK, Loop, Absent
    <3> QED  BY <1>a, <2>4, <3>1 DEF LoopEnds, TypeOK
  <2> QED  BY <1>3, <2>1, <2>2, <2>3, <2>4 DEF Poll
<1>4. ASSUME NEW t \in turns, Work(t) PROVE Goal
  <2>0. t \in Turn /\ t.msg \in Nat  BY DEF TypeOK, Turn
  <2>1. CASE TurnStart(t)
    BY <1>c, <2>0, <2>1, MoveTypes DEF TurnStart, Moves, TypeOK
  <2>2. CASE Skip(t)  BY <1>b, <2>2, MoveTypes DEF Skip, Moves, TypeOK
  <2>3. CASE Load(t)  BY <1>a, <2>3, MoveTypes DEF Load, Moves, TypeOK
  <2>4. ASSUME NEW level \in Levels, NEW n \in Sessions, PostReply(t, level, n) PROVE Goal
    <3>1. t.sess \in Sessions  BY <2>0 DEF Turn
    <3>2. ChatTypeOK' /\ Extends(messages, messages')
      BY <2>4, <3>1, ReplyWrites DEF PostReply, TypeOK
    <3> QED  BY <2>4, <3>2, MoveTypes DEF PostReply, Moves, TypeOK
  <2>5. CASE ClearMarker(t)  BY <1>c, <2>5, MoveTypes DEF ClearMarker, Moves, TypeOK
  <2>6. CASE Release(t)
    <3>1. loops' \in [Loops -> Loop]  BY <2>6 DEF Release, TypeOK, Loop
    <3> QED  BY <1>a, <2>6, <3>1 DEF Release, TypeOK
  <2> QED  BY <1>4, <2>1, <2>2, <2>3, <2>4, <2>5, <2>6 DEF Work
<1>5. CASE Failure
  <2>0. ASSUME Fault PROVE faults' \in Nat  BY <2>0 DEF Fault, TypeOK
  <2>1. ASSUME NEW p \in Procs, Sigterm(p) PROVE Goal
    <3>1. loops' \in [Loops -> Loop]  BY <2>1 DEF Sigterm, TypeOK, Loop
    <3>2. /\ ChatTypeOK' /\ Extends(messages, messages')
          /\ uncleared' \subseteq Sessions
      BY <1>a, <1>d, <2>1 DEF Sigterm, TypeOK
    <3>3. proc' \in [Procs -> Proc] /\ flock' \in Procs \cup {NoProc}
      BY <2>1 DEF Sigterm, TypeOK, Proc
    <3> QED  BY <2>0, <2>1, <3>1, <3>2, <3>3 DEF Sigterm, TypeOK
  <2>2. ASSUME NEW p \in Procs, Kill(p) PROVE Goal
    BY <1>a, <1>e, <2>0, <2>2 DEF Kill, TypeOK
  <2>3. ASSUME NEW t \in turns, TurnStartFails(t) PROVE Goal
    BY <1>a, <2>0, <2>3, MoveTypes DEF TurnStartFails, Moves, TypeOK
  <2>4. ASSUME NEW t \in turns, TurnRaises(t) PROVE Goal
    BY <1>b, <2>0, <2>4, MoveTypes DEF TurnRaises, Moves, TypeOK
  <2>8. ASSUME NEW t \in turns, HandlerFails(t) PROVE Goal
    BY <1>a, <2>0, <2>8, MoveTypes DEF HandlerFails, Moves, TypeOK
  <2>9. ASSUME NEW t \in turns, ClearMarkerFails(t) PROVE Goal
    <3>1. t.sess \in Sessions  BY DEF TypeOK, Turn
    <3> QED  BY <1>a, <2>0, <2>9, <3>1, MoveTypes DEF ClearMarkerFails, Moves, TypeOK
  <2>5. ASSUME NEW t \in turns, AfterFailedCall(t) PROVE turns' \subseteq Turn
    <3>1. t.tries + 1 \in Nat  BY DEF TypeOK, Turn
    <3> QED  BY <2>5, <3>1, MoveTypes DEF AfterFailedCall, Moves, TypeOK
  <2>6. ASSUME NEW t \in turns, PostFails(t) PROVE Goal
    BY <1>a, <2>0, <2>5, <2>6 DEF PostFails, TypeOK
  <2>7. ASSUME NEW t \in turns, NEW level \in Levels, NEW n \in Sessions,
               PostReplyLost(t, level, n)
        PROVE  Goal
    <3>1. t.sess \in Sessions  BY DEF TypeOK, Turn
    <3>2. ChatTypeOK' /\ Extends(messages, messages')
      BY <2>7, <3>1, ReplyWrites DEF PostReplyLost, TypeOK
    <3> QED  BY <2>0, <2>5, <2>7, <3>2 DEF PostReplyLost, TypeOK
  <2> QED  BY <1>5, <2>1, <2>2, <2>3, <2>4, <2>6, <2>7, <2>8, <2>9 DEF Failure
<1>6. CASE UNCHANGED vars  BY <1>a, <1>6 DEF vars, TypeOK
<1> QED  BY <1>1, <1>2, <1>3, <1>4, <1>5, <1>6 DEF Next

(***************************************************************************)
(* Threads and turns                                                       *)
(***************************************************************************)

\* A row stays a row of its kind and session, and a row older than another
\* that is pending after a step was pending before it.
LEMMA RowsStay ==
    ASSUME TypeOK, Extends(messages, messages')
    PROVE  /\ MessageIds \subseteq MessageIds' /\ MessageIds' \subseteq Nat
           /\ InboundIds \subseteq InboundIds'
           /\ \A i \in MessageIds : messages'[i].sess = messages[i].sess
           /\ \A i \in MessageIds, j \in Pending' : j < i => j \in Pending
<1>1. messages \in Seq(Row) /\ messages' \in Seq(Row)  BY DEF TypeOK, ChatTypeOK, Extends
<1>2. MessageIds' \subseteq Nat  BY <1>1, LenProperties DEF MessageIds
<1>3. /\ MessageIds \subseteq MessageIds'
      /\ \A i \in MessageIds : /\ messages'[i].kind = messages[i].kind
                               /\ messages'[i].sess = messages[i].sess
                               /\ messages[i].read => messages'[i].read
                               /\ messages[i].deleted => messages'[i].deleted
  BY DEF Extends, KeepsRows, MessageIds
<1>4. ASSUME NEW i \in MessageIds, NEW j \in Pending', j < i PROVE j \in Pending
  <2>1. j \in MessageIds'  BY DEF Pending, InboundIds
  <2>2. j \in MessageIds
    <3>1. SUFFICES ASSUME j \notin MessageIds PROVE FALSE  OBVIOUS
    <3>2. i < j  BY <2>1, <3>1 DEF Extends, AddsLater, MessageIds
    <3>3. i \in Nat /\ j \in Nat  BY <1>2, <1>3, <2>1
    <3> QED  BY <1>4, <3>2, <3>3
  <2> QED  BY <1>3, <2>2 DEF Pending, InboundIds
<1> QED  BY <1>2, <1>3, <1>4 DEF InboundIds

Threads == /\ FetchedRows /\ TurnRows
           /\ FetchedInOrder /\ ServedInOrder
           /\ AbsentHoldsNothing /\ OneLoopPerShell
           /\ InFlightExact /\ OneTurnInLoop

\* If the table only grows, what a step leaves alone of a loop and of turns
\* keeps its rows and its order.
LEMMA RowsOfRest ==
    ASSUME TypeOK, Threads, Extends(messages, messages')
    PROVE  /\ \A l \in Loops : loops'[l].unread \subseteq loops[l].unread =>
                \A i \in loops'[l].unread : i \in InboundIds' /\ ShellOf[messages'[i].sess] = l[2]
           /\ \A l \in Loops : loops'[l].unread = loops[l].unread =>
                \A i \in loops'[l].unread : \A j \in Pending' :
                    j < i /\ messages'[j].sess = messages'[i].sess => j \in loops'[l].unread
           /\ \A t \in turns : /\ t.msg \in InboundIds'
                               /\ t.sess = messages'[t.msg].sess
                               /\ \A i \in MessageIds' :
                                    i < t.msg /\ messages'[i].sess = t.sess => i \notin Pending'
<1>0. InboundIds \subseteq MessageIds  BY DEF InboundIds
<1>1. Pending \subseteq MessageIds  BY DEF Pending, InboundIds
<1>2. ASSUME NEW l \in Loops, loops'[l].unread \subseteq loops[l].unread, NEW i \in loops'[l].unread
      PROVE  i \in InboundIds' /\ ShellOf[messages'[i].sess] = l[2]
  BY <1>0, <1>2, RowsStay DEF Threads, FetchedRows
<1>3. ASSUME NEW l \in Loops, loops'[l].unread = loops[l].unread, NEW i \in loops'[l].unread,
             NEW j \in Pending', j < i, messages'[j].sess = messages'[i].sess
      PROVE  j \in loops'[l].unread
  <2>1. i \in MessageIds  BY <1>0, <1>3 DEF Threads, FetchedRows
  <2>2. j \in Pending  BY <1>3, <2>1, RowsStay
  <2>3. messages[j].sess = messages[i].sess  BY <1>1, <1>3, <2>1, <2>2, RowsStay
  <2> QED  BY <1>3, <2>2, <2>3 DEF Threads, FetchedInOrder
<1>4. ASSUME NEW t \in turns
      PROVE  t.msg \in InboundIds' /\ t.sess = messages'[t.msg].sess
  BY <1>0, RowsStay DEF Threads, TurnRows
<1>5. ASSUME NEW t \in turns, NEW i \in MessageIds', i < t.msg, messages'[i].sess = t.sess,
             i \in Pending'
      PROVE  FALSE
  <2>1. t.msg \in MessageIds  BY <1>0 DEF Threads, TurnRows
  <2>2. i \in Pending  BY <1>5, <2>1, RowsStay
  <2>3. i \in MessageIds /\ messages[i].sess = t.sess  BY <1>1, <1>5, <2>2, RowsStay
  <2> QED  BY <1>5, <2>2, <2>3 DEF Threads, ServedInOrder
<1> QED  BY <1>2, <1>3, <1>4, <1>5

\* A step that adds no turn and fetches nothing, and after which a thread that
\* exists is one that existed, with what it held, keeps the rows, the order
\* and the one loop of a shell.
LEMMA NothingNew ==
    ASSUME TypeOK, Threads, Extends(messages, messages'),
           \A u \in turns' : \E t \in turns :
               u.loop = t.loop /\ u.msg = t.msg /\ u.sess = t.sess,
           \A l \in Loops : \/ loops'[l] = Absent
                            \/ Alive(l) /\ Alive(l)' /\ loops'[l].unread = loops[l].unread
    PROVE  /\ FetchedRows' /\ TurnRows' /\ FetchedInOrder' /\ ServedInOrder'
           /\ AbsentHoldsNothing' /\ OneLoopPerShell'
<1>1. \A l \in Loops : loops'[l].unread = loops[l].unread \/ loops'[l].unread = {}
  BY DEF Absent
<1>2. FetchedRows'  BY <1>1, RowsOfRest DEF FetchedRows
<1>3. TurnRows'
  <2> SUFFICES ASSUME NEW u \in turns'
               PROVE  /\ u.msg \in InboundIds'
                      /\ u.sess = messages'[u.msg].sess
                      /\ ShellOf[u.sess] = u.loop[2]
      BY DEF TurnRows
  <2> QED  BY RowsOfRest DEF Threads, TurnRows
<1>4. FetchedInOrder'  BY <1>1, RowsOfRest DEF FetchedInOrder
<1>5. ServedInOrder'  BY RowsOfRest DEF ServedInOrder
<1>6. AbsentHoldsNothing'  BY DEF AbsentHoldsNothing, Alive
<1>7. OneLoopPerShell'
  <2>1. \A l \in Loops : Alive(l)' => Alive(l)  BY DEF Alive, Absent
  <2> QED  BY <2>1 DEF Threads, OneLoopPerShell
<1> QED  BY <1>2, <1>3, <1>4, <1>5, <1>6, <1>7

\* Steps that start or end no thread and add no turn, and the end of a turn.
LEMMA TurnSteps ==
    ASSUME TypeOK, Threads, Extends(messages, messages'),
           \/ SameThreads
           \/ Signalled
           \/ \E t \in turns : TurnMoves(t) \/ Release(t)
    PROVE  Threads'
<1>0. \A l \in Loops : Alive(l) \/ loops[l] = Absent  BY DEF Threads, AbsentHoldsNothing
<1>1. CASE SameThreads
  <2>1. /\ FetchedRows' /\ TurnRows' /\ FetchedInOrder' /\ ServedInOrder'
        /\ AbsentHoldsNothing' /\ OneLoopPerShell'
    BY <1>0, <1>1, NothingNew DEF SameThreads, Alive
  <2>2. InFlightExact' /\ OneTurnInLoop'
    BY <1>1 DEF SameThreads, Threads, InFlightExact, OneTurnInLoop, TurnsOf
  <2> QED  BY <2>1, <2>2 DEF Threads
<1>2. CASE Signalled
  <2>1. /\ FetchedRows' /\ TurnRows' /\ FetchedInOrder' /\ ServedInOrder'
        /\ AbsentHoldsNothing' /\ OneLoopPerShell'
    <3>1. \A l \in Loops : \/ loops'[l] = Absent
                           \/ Alive(l) /\ Alive(l)' /\ loops'[l].unread = loops[l].unread
      BY <1>0, <1>2 DEF Signalled, Alive
    <3> QED  BY <1>2, <3>1, NothingNew DEF Signalled
  <2>2. InFlightExact' /\ OneTurnInLoop'
    BY <1>2 DEF Signalled, Threads, InFlightExact, OneTurnInLoop, TurnsOf
  <2> QED  BY <2>1, <2>2 DEF Threads
<1>3. ASSUME NEW t \in turns, TurnMoves(t) PROVE Threads'
  <2>0. t \in Turn  BY DEF TypeOK
  <2>1. PICK pc, k : turns' = (turns \ {t}) \cup {[t EXCEPT !.pc = pc, !.tries = k]}
    BY <1>3 DEF TurnMoves
  <2> DEFINE new == [t EXCEPT !.pc = pc, !.tries = k]
  <2>2. new.loop = t.loop /\ new.msg = t.msg /\ new.sess = t.sess  BY <2>0 DEF Turn
  <2>3. turns' = (turns \ {t}) \cup {new} /\ loops' = loops  BY <1>3, <2>1 DEF TurnMoves
  <2> HIDE DEF new
  <2>4. \A u \in turns' : \E v \in turns :
               u.loop = v.loop /\ u.msg = v.msg /\ u.sess = v.sess
    BY <2>2, <2>3
  <2>5. /\ FetchedRows' /\ TurnRows' /\ FetchedInOrder' /\ ServedInOrder'
        /\ AbsentHoldsNothing' /\ OneLoopPerShell'
    BY <1>0, <2>3, <2>4, NothingNew DEF Alive
  <2>6. InFlightExact'
    <3>1. \A l \in Loops : {u.sess : u \in TurnsOf(l)'} = {u.sess : u \in TurnsOf(l)}
      BY <2>2, <2>3 DEF TurnsOf
    <3> QED  BY <2>3, <3>1 DEF Threads, InFlightExact
  <2>7. OneTurnInLoop'  BY <2>2, <2>3 DEF Threads, OneTurnInLoop
  <2> QED  BY <2>5, <2>6, <2>7 DEF Threads
<1>4. ASSUME NEW t \in turns, Release(t) PROVE Threads'
  <2>0. t \in Turn /\ t.loop \in Loops  BY DEF TypeOK, Turn
  <2>1. turns' = turns \ {t}  BY <1>4 DEF Release
  <2>2. \A l \in Loops : /\ loops'[l].unread = loops[l].unread
                         /\ loops'[l].st = loops[l].st
                         /\ loops'[l].inflight = IF l = t.loop THEN loops[l].inflight \ {t.sess}
                                                 ELSE loops[l].inflight
                         /\ l # t.loop => loops'[l] = loops[l]
    <3>1. loops' = [loops EXCEPT ![t.loop].inflight = @ \ {t.sess}]  BY <1>4 DEF Release
    <3>2. \A l \in Loops : loops[l] \in Loop  BY DEF TypeOK
    <3>3. \A l \in Loops : loops'[l] = IF l = t.loop
                                       THEN [loops[l] EXCEPT !.inflight = @ \ {t.sess}]
                                       ELSE loops[l]
      BY <3>1 DEF TypeOK
    <3> QED  BY <3>2, <3>3 DEF Loop
  <2>3. Alive(t.loop)
    <3>1. t.sess \in loops[t.loop].inflight  BY <2>0 DEF Threads, InFlightExact, TurnsOf
    <3> QED  BY <1>0, <2>0, <3>1 DEF Absent
  <2>4. \A l \in Loops : \/ loops'[l] = Absent
                         \/ Alive(l) /\ Alive(l)' /\ loops'[l].unread = loops[l].unread
    BY <1>0, <2>2, <2>3 DEF Alive
  <2>5. /\ FetchedRows' /\ TurnRows' /\ FetchedInOrder' /\ ServedInOrder'
        /\ AbsentHoldsNothing' /\ OneLoopPerShell'
    BY <2>1, <2>4, NothingNew
  <2>6. InFlightExact'
    <3> SUFFICES ASSUME NEW l \in Loops
                 PROVE  loops'[l].inflight = {u.sess : u \in TurnsOf(l)'}
        BY DEF InFlightExact
    <3>1. CASE l = t.loop
      <4>1. TurnsOf(l)' = TurnsOf(l) \ {t}  BY <2>1 DEF TurnsOf
      <4>2. \A u \in TurnsOf(l) : u.sess = t.sess => u = t
        BY <3>1 DEF Threads, OneTurnInLoop, TurnsOf
      <4>3. t \in TurnsOf(l)  BY <3>1 DEF TurnsOf
      <4>4. loops[l].inflight = {u.sess : u \in TurnsOf(l)}  BY DEF Threads, InFlightExact
      <4>5. {u.sess : u \in TurnsOf(l) \ {t}} = {u.sess : u \in TurnsOf(l)} \ {t.sess}
        BY <4>2, <4>3
      <4> QED  BY <2>2, <3>1, <4>1, <4>4, <4>5
    <3>2. CASE l # t.loop
      <4>1. TurnsOf(l)' = TurnsOf(l)  BY <2>1, <3>2 DEF TurnsOf
      <4> QED  BY <2>2, <3>2, <4>1 DEF Threads, InFlightExact
    <3> QED  BY <3>1, <3>2
  <2>7. OneTurnInLoop'  BY <2>1 DEF Threads, OneTurnInLoop
  <2> QED  BY <2>5, <2>6, <2>7 DEF Threads
<1> QED  BY <1>1, <1>2, <1>3, <1>4

\* Threads that end: one that has drained, or all of a process.
LEMMA EndSteps ==
    ASSUME TypeOK, Threads, Extends(messages, messages'),
           \/ \E p \in Procs : Vanish(p)
           \/ \E l \in Loops : LoopEnds(l)
    PROVE  Threads'
<1>1. PICK gone \in SUBSET Loops :
         /\ loops' = [l \in Loops |-> IF l \in gone THEN Absent ELSE loops[l]]
         /\ turns' = {t \in turns : t.loop \notin gone}
  <2>1. ASSUME NEW p \in Procs, Vanish(p)
        PROVE  /\ loops' = [l \in Loops |-> IF l \in LoopsOf(p) THEN Absent ELSE loops[l]]
               /\ turns' = {t \in turns : t.loop \notin LoopsOf(p)}
    <3>1. \A t \in turns : t.loop \in Loops  BY DEF TypeOK, Turn
    <3> QED  BY <2>1, <3>1 DEF Vanish, LoopsOf
  <2>2. ASSUME NEW l \in Loops, LoopEnds(l)
        PROVE  /\ loops' = [k \in Loops |-> IF k \in {l} THEN Absent ELSE loops[k]]
               /\ turns' = {t \in turns : t.loop \notin {l}}
    <3>1. \A t \in turns : t.loop # l  BY <2>2 DEF LoopEnds, TurnsOf
    <3> QED  BY <2>2, <3>1 DEF LoopEnds, TypeOK
  <2> QED  BY <2>1, <2>2 DEF LoopsOf
<1>2. \A l \in Loops : Alive(l) \/ loops[l] = Absent  BY DEF Threads, AbsentHoldsNothing
<1>3. \A l \in Loops : loops'[l] = IF l \in gone THEN Absent ELSE loops[l]  BY <1>1
<1>4. \A l \in Loops : \/ loops'[l] = Absent
                       \/ Alive(l) /\ Alive(l)' /\ loops'[l].unread = loops[l].unread
  BY <1>2, <1>3 DEF Alive
<1>5. /\ FetchedRows' /\ TurnRows' /\ FetchedInOrder' /\ ServedInOrder'
      /\ AbsentHoldsNothing' /\ OneLoopPerShell'
  BY <1>1, <1>4, NothingNew
<1>6. InFlightExact'
  <2> SUFFICES ASSUME NEW l \in Loops
               PROVE  loops'[l].inflight = {u.sess : u \in TurnsOf(l)'}
      BY DEF InFlightExact
  <2>1. CASE l \in gone
    <3>1. TurnsOf(l)' = {}  BY <1>1, <2>1 DEF TurnsOf
    <3> QED  BY <1>3, <2>1, <3>1 DEF Absent
  <2>2. CASE l \notin gone
    <3>1. TurnsOf(l)' = TurnsOf(l)  BY <1>1, <2>2 DEF TurnsOf
    <3> QED  BY <1>3, <2>2, <3>1 DEF Threads, InFlightExact
  <2> QED  BY <2>1, <2>2
<1>7. OneTurnInLoop'  BY <1>1 DEF Threads, OneTurnInLoop
<1> QED  BY <1>5, <1>6, <1>7 DEF Threads

\* A thread that starts: the shell had none in the process.
LEMMA JoinStep ==
    ASSUME TypeOK, Threads, Extends(messages, messages'), NEW l \in Loops, Join(l)
    PROVE  Threads'
<1>1. turns' = turns /\ loops' = [loops EXCEPT ![l] = NewLoop] /\ ~Alive(l)
  BY DEF Join, NextSlot
<1>2. \A k \in Loops : loops'[k] = IF k = l THEN NewLoop ELSE loops[k]
  BY <1>1 DEF TypeOK
<1>3. loops[l] = Absent  BY <1>1 DEF Threads, AbsentHoldsNothing
<1>4. NewLoop.unread = {} /\ NewLoop.inflight = {} /\ NewLoop.st = "top"
  BY DEF NewLoop, Absent
<1>5. \A k \in Loops : /\ loops'[k].unread = loops[k].unread
                       /\ loops'[k].inflight = loops[k].inflight
  BY <1>2, <1>3, <1>4 DEF Absent
<1>6. FetchedRows'  BY <1>5, RowsOfRest DEF FetchedRows
<1>7. TurnRows'  BY <1>1, RowsOfRest DEF Threads, TurnRows
<1>8. FetchedInOrder'  BY <1>5, RowsOfRest DEF FetchedInOrder
<1>9. ServedInOrder'  BY <1>1, RowsOfRest DEF ServedInOrder
<1>10. AbsentHoldsNothing'
  BY <1>2, <1>4 DEF Threads, AbsentHoldsNothing, Alive
<1>11. OneLoopPerShell'
  <2>1. \A k \in Loops : k[1] = l[1] /\ k[2] = l[2] => ~Alive(k)
    <3> SUFFICES ASSUME NEW k \in Loops, k[1] = l[1], k[2] = l[2], Alive(k) PROVE FALSE
        OBVIOUS
    <3>1. k \in LoopsOf(l[1])  BY DEF LoopsOf
    <3>2. CASE loops[k].stop  BY <3>1, <3>2 DEF Join, MayJoin, Draining
    <3>3. CASE ~loops[k].stop  BY <3>1, <3>3 DEF Join, MayJoin, IsRunning
    <3> QED  BY <3>2, <3>3
  <2>2. \A k \in Loops : Alive(k)' => k = l \/ Alive(k)  BY <1>2 DEF Alive
  <2> QED  BY <2>1, <2>2 DEF Threads, OneLoopPerShell
<1>12. InFlightExact' /\ OneTurnInLoop'
  BY <1>1, <1>5 DEF Threads, InFlightExact, OneTurnInLoop, TurnsOf
<1> QED  BY <1>6, <1>7, <1>8, <1>9, <1>10, <1>11, <1>12 DEF Threads

\* A thread fetches every pending row of its shell.
LEMMA FetchStep ==
    ASSUME TypeOK, Threads, Extends(messages, messages'), NEW l \in Loops, Fetch(l)
    PROVE  Threads'
<1> DEFINE mine == {i \in Pending : ShellOf[messages[i].sess] = l[2]}
<1>1. /\ turns' = turns /\ messages' = messages
      /\ loops' = [loops EXCEPT ![l].st = "fetched", ![l].unread = mine]
  BY DEF Fetch
<1>2. \A k \in Loops : /\ loops'[k].inflight = loops[k].inflight
                       /\ Alive(k)' <=> Alive(k)
                       /\ k # l => loops'[k] = loops[k]
                       /\ k = l => loops'[k].unread = mine
  <2>1. loops[l].st = "top"  BY DEF Fetch
  <2>2. \A k \in Loops : loops[k] \in Loop  BY DEF TypeOK
  <2>3. \A k \in Loops : loops'[k] = IF k = l
                                     THEN [loops[k] EXCEPT !.st = "fetched", !.unread = mine]
                                     ELSE loops[k]
    BY <1>1 DEF TypeOK
  <2> HIDE DEF mine
  <2> QED  BY <2>1, <2>2, <2>3 DEF Loop, Alive
<1>3. Pending' = Pending /\ InboundIds' = InboundIds
  BY <1>1 DEF Pending, InboundIds, MessageIds
<1>4. FetchedRows'
  <2> SUFFICES ASSUME NEW k \in Loops, NEW i \in loops'[k].unread
               PROVE  i \in InboundIds' /\ ShellOf[messages'[i].sess] = k[2]
      BY DEF FetchedRows
  <2>1. CASE k = l
    <3>1. i \in mine  BY <1>2, <2>1
    <3>2. i \in InboundIds /\ ShellOf[messages[i].sess] = k[2]  BY <2>1, <3>1 DEF Pending
    <3> QED  BY <1>1, <1>3, <3>2
  <2>2. CASE k # l  BY <1>2, <2>2, RowsOfRest
  <2> QED  BY <2>1, <2>2
<1>5. TurnRows'  BY <1>1, RowsOfRest DEF Threads, TurnRows
<1>6. FetchedInOrder'
  <2> SUFFICES ASSUME NEW k \in Loops, NEW i \in loops'[k].unread, NEW j \in Pending',
                      j < i, messages'[j].sess = messages'[i].sess
               PROVE  j \in loops'[k].unread
      BY DEF FetchedInOrder
  <2>1. CASE k = l
    <3>1. i \in mine  BY <1>2, <2>1
    <3>2. messages[j].sess = messages[i].sess  BY <1>1
    <3>3. j \in Pending  BY <1>3
    <3>4. j \in mine  BY <3>1, <3>2, <3>3
    <3> QED  BY <1>2, <2>1, <3>4
  <2>2. CASE k # l  BY <1>2, <2>2, RowsOfRest
  <2> QED  BY <2>1, <2>2
<1>7. ServedInOrder'  BY <1>1, RowsOfRest DEF ServedInOrder
<1>8. AbsentHoldsNothing'
  <2>1. Alive(l)  BY DEF Fetch, Alive
  <2> QED  BY <1>2, <2>1 DEF Threads, AbsentHoldsNothing
<1>9. OneLoopPerShell'  BY <1>2 DEF Threads, OneLoopPerShell
<1>10. InFlightExact' /\ OneTurnInLoop'
  BY <1>1, <1>2 DEF Threads, InFlightExact, OneTurnInLoop, TurnsOf
<1> QED  BY <1>4, <1>5, <1>6, <1>7, <1>8, <1>9, <1>10 DEF Threads

\* A thread submits the oldest fetched row of each session that has no turn.
LEMMA SubmitStep ==
    ASSUME TypeOK, Threads, Extends(messages, messages'), NEW l \in Loops, Submit(l)
    PROVE  Threads'
<1> DEFINE added  == {NewTurn(l, i) : i \in Picked(l)}
           picked == {messages[i].sess : i \in Picked(l)}
<1>1. /\ turns' = turns \cup added /\ messages' = messages
      /\ loops' = [loops EXCEPT ![l].st = "top", ![l].unread = {},
                                ![l].inflight = @ \cup picked]
  BY DEF Submit
<1>2. \A k \in Loops : /\ Alive(k)' <=> Alive(k)
                       /\ k # l => loops'[k] = loops[k]
                       /\ k = l => /\ loops'[k].unread = {}
                                   /\ loops'[k].inflight = loops[k].inflight \cup picked
  <2>1. loops[l].st = "fetched"  BY DEF Submit
  <2>2. \A k \in Loops : loops[k] \in Loop  BY DEF TypeOK
  <2> HIDE DEF picked
  <2>3. \A k \in Loops : loops'[k] =
            IF k = l THEN [loops[k] EXCEPT !.st = "top", !.unread = {},
                                           !.inflight = loops[k].inflight \cup picked]
                     ELSE loops[k]
    BY <1>1 DEF TypeOK
  <2> QED  BY <2>1, <2>2, <2>3 DEF Loop, Alive
<1>3. Pending' = Pending /\ InboundIds' = InboundIds /\ MessageIds' = MessageIds
  BY <1>1 DEF Pending, InboundIds, MessageIds
<1>4. \A i \in Picked(l) : /\ i \in loops[l].unread /\ i \in InboundIds /\ i \in MessageIds
                           /\ ShellOf[messages[i].sess] = l[2]
                           /\ messages[i].sess \notin loops[l].inflight
  BY DEF Picked, Free, Threads, FetchedRows, InboundIds
<1>5. \A u \in added : \E i \in Picked(l) : u.loop = l /\ u.msg = i /\ u.sess = messages[i].sess
  BY DEF NewTurn
<1>6. \A i, j \in Picked(l) : messages[i].sess = messages[j].sess => i = j
  <2>1. ASSUME NEW i \in Picked(l), NEW j \in Picked(l), messages[i].sess = messages[j].sess
        PROVE  i <= j
    BY <1>4, <2>1 DEF Picked, Beside
  <2>2. \A i \in Picked(l) : i \in Nat  BY <1>4, RowsStay
  <2> QED  BY <2>1, <2>2
<1> HIDE DEF added
<1>7. FetchedRows'  BY <1>2, RowsOfRest DEF FetchedRows
<1>8. TurnRows'
  <2> SUFFICES ASSUME NEW u \in turns'
               PROVE  /\ u.msg \in InboundIds'
                      /\ u.sess = messages'[u.msg].sess
                      /\ ShellOf[u.sess] = u.loop[2]
      BY DEF TurnRows
  <2>1. CASE u \in turns  BY <2>1, RowsOfRest DEF Threads, TurnRows
  <2>2. CASE u \in added  BY <1>1, <1>3, <1>4, <1>5, <2>2
  <2> QED  BY <1>1, <2>1, <2>2
<1>9. FetchedInOrder'
  <2>1. \A k \in Loops : loops'[k].unread = loops[k].unread \/ loops'[k].unread = {}
    BY <1>2
  <2> QED  BY <2>1, RowsOfRest DEF FetchedInOrder
<1>10. ServedInOrder'
  <2> SUFFICES ASSUME NEW u \in turns', NEW i \in MessageIds', i < u.msg,
                      messages'[i].sess = u.sess, i \in Pending'
               PROVE  FALSE
      BY DEF ServedInOrder
  <2>1. CASE u \in turns  BY <2>1, RowsOfRest
  <2>2. CASE u \in added
    <3>1. PICK m \in Picked(l) : u.msg = m /\ u.sess = messages[m].sess  BY <1>5, <2>2
    <3>2. m \in loops[l].unread /\ m \in Nat  BY <1>4, RowsStay
    <3>3. i \in Pending /\ messages[i].sess = messages[m].sess /\ i < m
      BY <1>1, <1>3, <3>1
    <3>4. i \in loops[l].unread  BY <3>2, <3>3 DEF Threads, FetchedInOrder
    <3>5. i \in MessageIds /\ i \in Nat  BY <1>3, RowsStay
    <3>6. m <= i  BY <3>1, <3>3, <3>4, <3>5 DEF Picked, Beside
    <3> QED  BY <3>2, <3>3, <3>5, <3>6
  <2> QED  BY <1>1, <2>1, <2>2
<1>11. AbsentHoldsNothing'
  <2>1. Alive(l)  BY DEF Submit, Alive
  <2> QED  BY <1>2, <2>1 DEF Threads, AbsentHoldsNothing
<1>12. OneLoopPerShell'  BY <1>2 DEF Threads, OneLoopPerShell
<1>13. InFlightExact'
  <2> SUFFICES ASSUME NEW k \in Loops
               PROVE  loops'[k].inflight = {u.sess : u \in TurnsOf(k)'}
      BY DEF InFlightExact
  <2>1. loops[k].inflight = {u.sess : u \in TurnsOf(k)}  BY DEF Threads, InFlightExact
  <2>2. CASE k = l
    <3>1. TurnsOf(k)' = TurnsOf(k) \cup added  BY <1>1, <1>5, <2>2 DEF TurnsOf
    <3>2. {u.sess : u \in added} = picked
      <4>1. \A i \in Picked(l) : NewTurn(l, i).sess = messages[i].sess  BY DEF NewTurn
      <4> QED  BY <4>1 DEF added
    <3>3. {u.sess : u \in TurnsOf(k) \cup added}
             = {u.sess : u \in TurnsOf(k)} \cup {u.sess : u \in added}
      OBVIOUS
    <3>4. loops'[k].inflight = loops[k].inflight \cup picked  BY <1>2, <2>2
    <3> QED  BY <2>1, <3>1, <3>2, <3>3, <3>4
  <2>3. CASE k # l
    <3>1. TurnsOf(k)' = TurnsOf(k)  BY <1>1, <1>5, <2>3 DEF TurnsOf
    <3> QED  BY <1>2, <2>1, <2>3, <3>1
  <2> QED  BY <2>2, <2>3
<1>14. OneTurnInLoop'
  <2> SUFFICES ASSUME NEW t \in turns', NEW u \in turns', t.loop = u.loop, t.sess = u.sess
               PROVE  t = u
      BY DEF OneTurnInLoop
  <2>1. ASSUME NEW v \in turns, NEW w \in added, v.loop = w.loop, v.sess = w.sess PROVE FALSE
    <3>1. v \in TurnsOf(l) /\ w.sess \notin loops[l].inflight
      BY <1>4, <1>5, <2>1 DEF TurnsOf
    <3> QED  BY <2>1, <3>1 DEF Threads, InFlightExact
  <2>2. CASE t \in added /\ u \in added
    <3>1. PICK i \in Picked(l) : t = NewTurn(l, i)  BY <2>2 DEF added
    <3>2. PICK j \in Picked(l) : u = NewTurn(l, j)  BY <2>2 DEF added
    <3>3. messages[i].sess = messages[j].sess  BY <3>1, <3>2 DEF NewTurn
    <3> QED  BY <1>6, <3>1, <3>2, <3>3
  <2>3. CASE t \in turns /\ u \in turns  BY <2>3 DEF Threads, OneTurnInLoop
  <2> QED  BY <1>1, <2>1, <2>2, <2>3
<1> QED  BY <1>7, <1>8, <1>9, <1>10, <1>11, <1>12, <1>13, <1>14 DEF Threads

(***************************************************************************)
(* The theorems                                                            *)
(***************************************************************************)

\* The inductive invariant holds in every state.
THEOREM Inductive == Spec => []IInv
<1>1. Init => IInv
  <2> SUFFICES ASSUME Init PROVE IInv  OBVIOUS
  <2>1. ChatTypeOK
    <3>1. << >> \in Seq(Row)  OBVIOUS
    <3>2. sessions \in [Sessions -> Session]
      BY DEF Init, ChatInit, Session, Fresh, NoRowYet
    <3> QED  BY <3>1, <3>2 DEF Init, ChatInit, ChatTypeOK
  <2>2. loops \in [Loops -> Loop] /\ \A l \in Loops : loops[l] = Absent
    BY DEF Init, Loop, Absent
  <2>3. TypeOK  BY <2>1, <2>2, DispatcherAssumption DEF Init, TypeOK, Proc
  <2>4. Threads
    BY <2>2 DEF Init, Threads, FetchedRows, TurnRows, FetchedInOrder, ServedInOrder,
                AbsentHoldsNothing, OneLoopPerShell, InFlightExact, OneTurnInLoop,
                Absent, Alive, TurnsOf
  <2> QED  BY <2>3, <2>4 DEF IInv, Threads
<1>2. IInv /\ [Next]_vars => IInv'
  <2> SUFFICES ASSUME IInv, [Next]_vars PROVE IInv'  OBVIOUS
  <2>1. TypeOK /\ Threads  BY DEF IInv, Threads
  <2>2. TypeOK' /\ Extends(messages, messages')
    BY <2>1, StepTypes, ChatAssumption, DispatcherAssumption DEF Threads
  <2>3. Shape  BY <2>1, StepShape
  <2>4. Threads'
    BY <2>1, <2>2, <2>3, TurnSteps, EndSteps, JoinStep, FetchStep, SubmitStep DEF Shape
  <2> QED  BY <2>2, <2>4 DEF IInv, Threads
<1> QED  BY <1>1, <1>2, PTL DEF Spec

\* Every variable keeps its type, through crashes, retries and restarts.
THEOREM TypeCorrect == Spec => []TypeOK
<1>1. IInv => TypeOK  BY DEF IInv
<1> QED  BY <1>1, Inductive, PTL

\* A session is marked in flight exactly while it has a turn.
THEOREM InFlightIsExact == Spec => []InFlightExact
<1>1. IInv => InFlightExact  BY DEF IInv
<1> QED  BY <1>1, Inductive, PTL

\* The messages of a session are served in the order they were written.
THEOREM InOrder == Spec => []ServedInOrder
<1>1. IInv => ServedInOrder  BY DEF IInv
<1> QED  BY <1>1, Inductive, PTL

\* In one process a session has one turn at a time, however its shell leaves
\* and joins.
THEOREM SerialTurns == Spec => []OneTurnPerSession
<1>1. IInv => OneTurnPerSession
  <2> SUFFICES ASSUME IInv, NEW t \in turns, NEW u \in turns,
                      t.loop[1] = u.loop[1], t.sess = u.sess
               PROVE  t = u
      BY DEF OneTurnPerSession
  <2>1. \A v \in turns : v.loop \in Loops /\ Alive(v.loop)
    <3> SUFFICES ASSUME NEW v \in turns PROVE v.loop \in Loops /\ Alive(v.loop)  OBVIOUS
    <3>1. v.loop \in Loops  BY DEF IInv, TypeOK, Turn
    <3>2. v.sess \in loops[v.loop].inflight  BY <3>1 DEF IInv, InFlightExact, TurnsOf
    <3> QED  BY <3>1, <3>2 DEF IInv, AbsentHoldsNothing, Absent
  <2>2. t.loop[2] = u.loop[2]  BY DEF IInv, TurnRows
  <2>3. t.loop = u.loop  BY <2>1, <2>2 DEF IInv, OneLoopPerShell
  <2> QED  BY <2>3 DEF IInv, OneTurnInLoop
<1> QED  BY <1>1, Inductive, PTL

(***************************************************************************)
(* What a step writes to the table                                         *)
(***************************************************************************)

\* A write that adds no user's message: the rows in R are marked read, those in
\* D deleted, with every older row of their session.
Quiet(R, D) ==
    /\ \A i \in MessageIds' \ MessageIds : /\ messages'[i].kind # "inbound"
                                           /\ messages'[i].deleted <=> i \in D
    /\ \A i \in MessageIds : /\ messages'[i].read <=> messages[i].read \/ i \in R
                             /\ messages'[i].deleted <=> messages[i].deleted \/ i \in D
    /\ \A d \in D, j \in MessageIds' :
          j < d /\ messages'[j].sess = messages'[d].sess => j \in D

\* A clear, and a delete up to a message, take a session's rows from the front.
ClearedFromTheFront ==
    \A i, j \in MessageIds :
        j < i /\ messages[i].deleted /\ messages[j].sess = messages[i].sess =>
            messages[j].deleted

\* SET is_deleted=1, row by row.
LEMMA SoftDeleteAt ==
    ASSUME NEW ms \in Seq(Row), NEW S
    PROVE  /\ SoftDelete(ms, S) \in Seq(Row)
           /\ DOMAIN SoftDelete(ms, S) = DOMAIN ms
           /\ Len(SoftDelete(ms, S)) = Len(ms)
           /\ \A i \in DOMAIN ms : /\ SoftDelete(ms, S)[i].kind = ms[i].kind
                                   /\ SoftDelete(ms, S)[i].sess = ms[i].sess
                                   /\ SoftDelete(ms, S)[i].read <=> ms[i].read
                                   /\ SoftDelete(ms, S)[i].deleted <=> ms[i].deleted \/ i \in S
<1>1. SoftDelete(ms, S) \in Seq(Row)  BY SoftDeleteExtends DEF Extends
<1>2. DOMAIN SoftDelete(ms, S) = DOMAIN ms  BY DEF SoftDelete
<1>3. Len(SoftDelete(ms, S)) = Len(ms)  BY <1>1, <1>2, LenProperties
<1>4. \A i \in DOMAIN ms : ms[i] \in Row  BY ElementOfSeq
<1>5. \A i \in DOMAIN ms : SoftDelete(ms, S)[i]
                             = IF i \in S THEN [ms[i] EXCEPT !.deleted = TRUE] ELSE ms[i]
  BY DEF SoftDelete
<1>6. ASSUME NEW i \in DOMAIN ms
      PROVE  /\ SoftDelete(ms, S)[i].kind = ms[i].kind
             /\ SoftDelete(ms, S)[i].sess = ms[i].sess
             /\ SoftDelete(ms, S)[i].read <=> ms[i].read
             /\ SoftDelete(ms, S)[i].deleted <=> ms[i].deleted \/ i \in S
  <2>1. CASE i \in S
    <3>1. SoftDelete(ms, S)[i] = [ms[i] EXCEPT !.deleted = TRUE]  BY <1>5, <2>1
    <3> QED  BY <1>4, <2>1, <3>1 DEF Row
  <2>2. CASE i \notin S  BY <1>5, <2>2
  <2> QED  BY <2>1, <2>2
<1> QED  BY <1>1, <1>2, <1>3, <1>6

\* The reply route marks its source read and answers it; if the context was
\* too large it deletes the session, the answer included.
LEMMA ReplyRows ==
    ASSUME ChatTypeOK, NEW m \in MessageIds, NEW s \in Sessions, NEW level,
           NEW n \in Sessions, Reply(m, s, level, n)
    PROVE  /\ \E D : Quiet({m}, D) /\ \A d \in D : messages'[d].sess = s
           /\ \E r \in MessageIds' \ MessageIds :
                 messages'[r].kind # "inbound" /\ messages'[r].sess = s
           /\ \A r \in MessageIds' \ MessageIds : messages'[r].sess \in {s, n}
<1> DEFINE L        == Len(messages)
           warnNow  == level # "low" /\ ~sessions[s].warned
           source   == [messages EXCEPT ![m].read = TRUE]
           replied  == Append(source, NewRow("reply", s))
           warned   == IF warnNow THEN Append(replied, NewRow("notice", s)) ELSE replied
<1>0. messages \in Seq(Row) /\ L \in Nat /\ DOMAIN messages = 1..L
  BY LenProperties DEF ChatTypeOK
<1>1. /\ source \in Seq(Row) /\ Len(source) = L /\ DOMAIN source = 1..L
      /\ \A i \in 1..L : /\ source[i].read <=> messages[i].read \/ i = m
                         /\ source[i].deleted <=> messages[i].deleted
                         /\ source[i].sess = messages[i].sess
  <2>1. source \in Seq(Row)  BY <1>0, ReadExtends DEF Extends
  <2>2. DOMAIN source = 1..L  BY <1>0
  <2>3. Len(source) = L  BY <1>0, <2>1, <2>2, LenProperties
  <2>4. \A i \in 1..L : messages[i] \in Row  BY <1>0, ElementOfSeq
  <2>5. \A i \in 1..L : source[i] = IF i = m THEN [messages[i] EXCEPT !.read = TRUE]
                                    ELSE messages[i]
    BY <1>0
  <2>6. ASSUME NEW i \in 1..L
        PROVE  /\ source[i].read <=> messages[i].read \/ i = m
               /\ source[i].deleted <=> messages[i].deleted
               /\ source[i].sess = messages[i].sess
    <3>1. CASE i = m
      <4>1. source[i] = [messages[i] EXCEPT !.read = TRUE]  BY <2>5, <3>1
      <4> QED  BY <2>4, <3>1, <4>1 DEF Row
    <3>2. CASE i # m  BY <2>5, <3>2
    <3> QED  BY <3>1, <3>2
  <2> QED  BY <2>1, <2>2, <2>3, <2>6
<1> HIDE DEF source
<1>2. /\ replied \in Seq(Row) /\ Len(replied) = L + 1
      /\ DOMAIN replied = 1..(L + 1)
      /\ \A i \in 1..L : replied[i] = source[i]
      /\ replied[L + 1] = NewRow("reply", s)
  BY <1>0, <1>1, NewRowType, AppendProperties, AppendAt
<1> HIDE DEF replied
<1>3. PICK K \in {L + 1, L + 2} :
         /\ warned \in Seq(Row) /\ Len(warned) = K /\ DOMAIN warned = 1..K
         /\ \A i \in 1..L : warned[i] = source[i]
         /\ \A i \in (L + 1)..K : /\ warned[i].kind # "inbound"
                                  /\ warned[i].sess = s
                                  /\ ~warned[i].deleted
  <2>1. CASE warnNow
    <3>1. warned = Append(replied, NewRow("notice", s))  BY <2>1
    <3> HIDE DEF warned
    <3>2. /\ warned \in Seq(Row) /\ Len(warned) = L + 2 /\ DOMAIN warned = 1..(L + 2)
          /\ \A i \in 1..(L + 1) : warned[i] = replied[i]
          /\ warned[L + 2] = NewRow("notice", s)
      BY <1>0, <1>2, <3>1, NewRowType, AppendProperties, AppendAt
    <3>3. \A i \in (L + 1)..(L + 2) : i = L + 1 \/ i = L + 2  BY <1>0
    <3>4. \A i \in 1..L : i \in 1..(L + 1)  BY <1>0
    <3>5. L + 1 \in 1..(L + 1)  BY <1>0
    <3> QED  BY <1>2, <3>2, <3>3, <3>4, <3>5 DEF NewRow
  <2>2. CASE ~warnNow
    <3>1. \A i \in (L + 1)..(L + 1) : i = L + 1  BY <1>0
    <3> QED  BY <1>2, <2>2, <3>1 DEF NewRow
  <2> QED  BY <2>1, <2>2
<1>4. CASE level # "clear"
  <2>1. messages' = warned  BY <1>4 DEF Reply, source, replied
  <2> HIDE DEF warned
  <2>2. MessageIds' = 1..K /\ MessageIds = 1..L  BY <1>0, <1>3, <2>1 DEF MessageIds
  <2>3. Quiet({m}, {})  BY <1>0, <1>1, <1>3, <2>1, <2>2 DEF Quiet
  <2>4. L + 1 \in MessageIds' \ MessageIds /\ L + 1 \in (L + 1)..K  BY <1>0, <1>3, <2>2
  <2>5. \A r \in MessageIds' \ MessageIds : r \in (L + 1)..K  BY <1>0, <1>3, <2>2
  <2> QED  BY <1>3, <2>1, <2>3, <2>4, <2>5
<1>5. CASE level = "clear"
  <2> DEFINE D       == {i \in 1..K : warned[i].sess = s}
             cleared == SoftDelete(warned, D)
  <2>1. messages' = Append(cleared, NewRow("notice", n))
    BY <1>3, <1>5 DEF Reply, ClearRows, source, replied
  <2> HIDE DEF warned
  <2>2. /\ cleared \in Seq(Row) /\ Len(cleared) = K /\ DOMAIN cleared = 1..K
        /\ \A i \in 1..K : /\ cleared[i].kind = warned[i].kind
                           /\ cleared[i].sess = warned[i].sess
                           /\ cleared[i].read <=> warned[i].read
                           /\ cleared[i].deleted <=> warned[i].deleted \/ i \in D
    BY <1>3, SoftDeleteAt
  <2> HIDE DEF cleared
  <2>3. /\ MessageIds' = 1..(K + 1) /\ MessageIds = 1..L
        /\ \A i \in 1..K : messages'[i] = cleared[i]
        /\ messages'[K + 1] = NewRow("notice", n)
    BY <1>0, <2>1, <2>2, NewRowType, AppendAt DEF MessageIds
  <2>4. \A i \in 1..L : i \in 1..K  BY <1>0, <1>3
  <2>5. \A i \in MessageIds' \ MessageIds : \/ i \in (L + 1)..K /\ i \in 1..K
                                            \/ i = K + 1 /\ i \notin 1..K
    BY <1>0, <1>3, <2>3
  <2>6. ASSUME NEW i \in MessageIds' \ MessageIds
        PROVE  messages'[i].kind # "inbound" /\ (messages'[i].deleted <=> i \in D)
    <3>1. CASE i \in (L + 1)..K /\ i \in 1..K  BY <1>3, <2>2, <2>3, <3>1
    <3>2. CASE i = K + 1 /\ i \notin 1..K
      <4>1. messages'[i].kind = "notice" /\ ~messages'[i].deleted
        BY <2>3, <3>2 DEF NewRow
      <4> QED  BY <3>2, <4>1
    <3> QED  BY <2>5, <2>6, <3>1, <3>2
  <2>7. ASSUME NEW i \in MessageIds
        PROVE  /\ messages'[i].read <=> messages[i].read \/ i \in {m}
               /\ messages'[i].deleted <=> messages[i].deleted \/ i \in D
    BY <1>1, <1>3, <2>2, <2>3, <2>4
  <2>8. ASSUME NEW d \in D, NEW j \in MessageIds', j < d, messages'[j].sess = messages'[d].sess
        PROVE  j \in D
    <3>1. j \in 1..K /\ d \in 1..K  BY <1>0, <1>3, <2>3, <2>8
    <3> QED  BY <2>2, <2>3, <2>8, <3>1
  <2>9. \A d \in D : messages'[d].sess = s  BY <2>2, <2>3
  <2>10. L + 1 \in MessageIds' \ MessageIds /\ L + 1 \in (L + 1)..K /\ L + 1 \in 1..K
    BY <1>0, <1>3, <2>3
  <2>11. messages'[L + 1].kind # "inbound" /\ messages'[L + 1].sess = s
    BY <1>3, <2>2, <2>3, <2>10
  <2> HIDE DEF D
  <2>12. Quiet({m}, D)  BY <2>6, <2>7, <2>8 DEF Quiet
  <2>13. ASSUME NEW r \in MessageIds' \ MessageIds PROVE messages'[r].sess \in {s, n}
    <3>1. CASE r \in (L + 1)..K /\ r \in 1..K  BY <1>3, <2>2, <2>3, <3>1
    <3>2. CASE r = K + 1  BY <2>3, <3>2 DEF NewRow
    <3> QED  BY <2>5, <2>13, <3>1, <3>2
  <2> QED  BY <2>9, <2>10, <2>11, <2>12, <2>13
<1> QED  BY <1>4, <1>5

\* A step ends the wait of turn t's message, and may clear its session.
Serves(t) == \E D : Quiet({t.msg}, D) /\ \A d \in D : messages'[d].sess = t.sess

\* Every step adds one message of a user's, serves a turn's message, or marks
\* none read.
TableShape == \/ \E s \in Sessions : PostChat(s)
              \/ \E D : Quiet({}, D)
              \/ \E t \in turns : Serves(t)

\* Every step has that shape.
LEMMA TableStep ==
    ASSUME TypeOK, TurnRows, [Next]_vars, Extends(messages, messages')
    PROVE  TableShape
<1>0. /\ messages \in Seq(Row) /\ Len(messages) \in Nat
      /\ MessageIds = 1..Len(messages) /\ DOMAIN messages = MessageIds
      /\ \A i \in MessageIds : messages[i] \in Row
  BY LenProperties, ElementOfSeq DEF TypeOK, ChatTypeOK, MessageIds
<1>a. ASSUME messages' = messages PROVE Quiet({}, {})
  BY <1>0, <1>a DEF Quiet, MessageIds
<1>b. ASSUME NEW S, messages' = SoftDelete(messages, S),
             \A d \in S, j \in MessageIds :
                 d \in MessageIds /\ j < d /\ messages[j].sess = messages[d].sess => j \in S
      PROVE  \E D : Quiet({}, D)
  <2> DEFINE D == S \cap MessageIds
  <2>1. /\ MessageIds' = MessageIds
        /\ \A i \in MessageIds : /\ messages'[i].sess = messages[i].sess
                                 /\ messages'[i].read <=> messages[i].read
                                 /\ messages'[i].deleted <=> messages[i].deleted \/ i \in S
    BY <1>0, <1>b, SoftDeleteAt DEF MessageIds
  <2>2. Quiet({}, D)  BY <1>b, <2>1 DEF Quiet
  <2> QED  BY <2>2
<1>c. ASSUME NEW m \in MessageIds, MarkRead(m) PROVE Quiet({m}, {})
  <2>1. messages' = [messages EXCEPT ![m].read = TRUE]  BY <1>c DEF MarkRead
  <2>2. MessageIds' = MessageIds  BY <1>0, <2>1 DEF MessageIds
  <2>3. \A i \in MessageIds : messages'[i] = IF i = m THEN [messages[i] EXCEPT !.read = TRUE]
                                             ELSE messages[i]
    BY <1>0, <2>1
  <2>4. ASSUME NEW i \in MessageIds
        PROVE  /\ messages'[i].read <=> messages[i].read \/ i \in {m}
               /\ messages'[i].deleted <=> messages[i].deleted
    <3>1. CASE i = m
      <4>1. messages'[i] = [messages[i] EXCEPT !.read = TRUE]  BY <2>3, <3>1
      <4> QED  BY <1>0, <3>1, <4>1 DEF Row
    <3>2. CASE i # m  BY <2>3, <3>2
    <3> QED  BY <3>1, <3>2
  <2> QED  BY <2>2, <2>4 DEF Quiet
<1>d. \A t \in turns : /\ t.msg \in MessageIds /\ t.sess \in Sessions
                       /\ t.sess = messages[t.msg].sess /\ t.msg \in Nat
  BY <1>0 DEF TurnRows, TypeOK, Turn, InboundIds
<1>e. ASSUME NEW t \in turns, NEW level, NEW n \in Sessions, Reply(t.msg, t.sess, level, n)
      PROVE  Serves(t)
  BY <1>d, <1>e, ReplyRows DEF TypeOK, Serves
<1>1. CASE User
  <2>1. ASSUME NEW s \in Sessions, SwitchModel(s) PROVE Quiet({}, {})
    <3>1. /\ MessageIds' = 1..(Len(messages) + 1)
          /\ \A i \in MessageIds : messages'[i] = messages[i]
          /\ messages'[Len(messages) + 1] = NewRow("notice", s)
      BY <1>0, <2>1, NewRowType, AppendAt DEF SwitchModel, MessageIds
    <3>2. \A i \in MessageIds' \ MessageIds : i = Len(messages) + 1  BY <1>0, <3>1
    <3> QED  BY <3>1, <3>2 DEF Quiet, NewRow
  <2>2. ASSUME NEW s \in Sessions, ClearSession(s) PROVE \E D : Quiet({}, D)
    <3>1. messages' = SoftDelete(messages, {i \in MessageIds : messages[i].sess = s})
      BY <1>0, <2>2 DEF ClearSession, ClearRows
    <3> QED  BY <1>b, <3>1
  <2>3. ASSUME NEW sh \in Shells, NEW b \in 0..Len(messages), DeleteChat(sh, b)
        PROVE  \E D : Quiet({}, D)
    <3> DEFINE chosen == {i \in MessageIds : /\ ShellOf[messages[i].sess] = sh
                                             /\ b = 0 \/ i <= b}
    <3>1. messages' = SoftDelete(messages, chosen)  BY <2>3 DEF DeleteChat
    <3>2. \A d \in chosen, j \in MessageIds :
             j < d /\ messages[j].sess = messages[d].sess => j \in chosen
      BY <1>0
    <3> QED  BY <1>b, <3>1, <3>2
  <2>4. ASSUME NEW s \in Sessions, CreateSession(s) PROVE Quiet({}, {})
    BY <1>a, <2>4 DEF CreateSession
  <2>5. ASSUME NEW sh \in Shells, ActivateShell(sh) \/ ToggleBrowserChat(sh) PROVE Quiet({}, {})
    BY <1>a, <2>5 DEF ActivateShell, ToggleBrowserChat
  <2>6. (\E s \in Sessions : PostChat(s)) \/ (\E D : Quiet({}, D))
    BY <1>1, <2>1, <2>2, <2>3, <2>4, <2>5 DEF User, UserAction
  <2> QED  BY <2>6 DEF TableShape
<1>2. ASSUME messages' = messages PROVE TableShape
  BY <1>a, <1>2 DEF TableShape
<1>3. CASE Supervise
  <2>1. messages' = messages
    BY <1>3 DEF Supervise, Start, Leave, Join, Exit
  <2> QED  BY <1>2, <2>1
<1>4. ASSUME NEW l \in Loops, Poll(l) PROVE TableShape
  <2>1. messages' = messages
    BY <1>4 DEF Poll, Fetch, Submit, Halt, LoopEnds
  <2> QED  BY <1>2, <2>1
<1>5. ASSUME NEW t \in turns, Work(t) PROVE TableShape
  <2>1. CASE TurnStart(t) \/ Load(t) \/ ClearMarker(t) \/ Release(t)
    <3>1. messages' = messages
      BY <2>1 DEF TurnStart, Load, ClearMarker, Release
    <3> QED  BY <1>2, <3>1
  <2>2. CASE Skip(t)
    <3>1. Quiet({t.msg}, {})  BY <1>c, <1>d, <2>2 DEF Skip
    <3>2. Serves(t)  BY <3>1 DEF Serves
    <3> QED  BY <3>2 DEF TableShape
  <2>3. ASSUME NEW level \in Levels, NEW n \in Sessions, PostReply(t, level, n)
        PROVE  TableShape
    BY <1>e, <2>3 DEF PostReply, TableShape
  <2> QED  BY <1>5, <2>1, <2>2, <2>3 DEF Work
<1>6. CASE Failure
  <2>1. ASSUME NEW p \in Procs, Sigterm(p) \/ Kill(p) PROVE TableShape
    <3>1. messages' = messages  BY <2>1 DEF Sigterm, Kill
    <3> QED  BY <1>2, <3>1
  <2>2. ASSUME NEW t \in turns,
               \/ TurnStartFails(t) \/ HandlerFails(t)
               \/ ClearMarkerFails(t) \/ PostFails(t)
        PROVE  TableShape
    <3>1. messages' = messages
      BY <2>2 DEF TurnStartFails, HandlerFails, ClearMarkerFails, PostFails
    <3> QED  BY <1>2, <3>1
  <2>3. ASSUME NEW t \in turns, TurnRaises(t) PROVE TableShape
    <3>1. Quiet({t.msg}, {})  BY <1>c, <1>d, <2>3 DEF TurnRaises
    <3>2. Serves(t)  BY <3>1 DEF Serves
    <3> QED  BY <3>2 DEF TableShape
  <2>4. ASSUME NEW t \in turns, NEW level \in Levels, NEW n \in Sessions,
               PostReplyLost(t, level, n)
        PROVE  TableShape
    BY <1>e, <2>4 DEF PostReplyLost, TableShape
  <2> QED  BY <1>6, <2>1, <2>2, <2>3, <2>4 DEF Failure
<1>7. CASE UNCHANGED vars  BY <1>2, <1>7 DEF vars
<1> QED  BY <1>1, <1>3, <1>4, <1>5, <1>6, <1>7 DEF Next

\* A user's message is a new row after all others.
LEMMA PostAdds ==
    ASSUME TypeOK, NEW s \in Sessions, PostChat(s)
    PROVE  \E new \in Nat \ {0} :
              /\ MessageIds' = MessageIds \cup {new} /\ new \notin MessageIds
              /\ InboundIds' = InboundIds \cup {new}
              /\ \A i \in MessageIds : i < new /\ i \in Nat
              /\ \A i \in MessageIds : messages'[i] = messages[i]
              /\ messages'[new] = NewRow("inbound", s)
<1> DEFINE new == Len(messages) + 1
<1>1. /\ messages \in Seq(Row) /\ Len(messages) \in Nat /\ MessageIds = 1..Len(messages)
  BY LenProperties DEF TypeOK, ChatTypeOK, MessageIds
<1>2. /\ MessageIds' = 1..(Len(messages) + 1)
      /\ \A i \in MessageIds : messages'[i] = messages[i]
      /\ messages'[new] = NewRow("inbound", s)
  BY <1>1, NewRowType, AppendAt DEF PostChat, MessageIds
<1>3. /\ MessageIds' = MessageIds \cup {new} /\ new \notin MessageIds /\ new \in Nat \ {0}
      /\ \A i \in MessageIds : i < new /\ i \in Nat
  BY <1>1, <1>2
<1> HIDE DEF new
<1>4. InboundIds' = InboundIds \cup {new}  BY <1>2, <1>3 DEF InboundIds, NewRow
<1> QED  BY <1>2, <1>3, <1>4

\* One of the messages users wrote is the newest.
HasNewest == InboundIds # {} => \E i \in InboundIds : \A j \in InboundIds : j <= i

\* The invariant of the table.
TableInv == ClearedFromTheFront /\ HasNewest

\* A step keeps the invariant of the table.
LEMMA TableInvKept ==
    ASSUME TypeOK, TurnRows, TableInv, [Next]_vars, Extends(messages, messages')
    PROVE  TableInv'
<1>0. TableShape  BY TableStep
<1>1. /\ MessageIds \subseteq MessageIds' /\ MessageIds' \subseteq Nat
      /\ \A i \in MessageIds : /\ messages'[i].kind = messages[i].kind
                               /\ messages'[i].sess = messages[i].sess
      /\ \A i \in MessageIds, j \in MessageIds' \ MessageIds : i < j
  BY RowsStay DEF Extends, KeepsRows, AddsLater, MessageIds
<1>4. ASSUME NEW s \in Sessions, PostChat(s) PROVE TableInv'
  <2>1. PICK new \in Nat \ {0} :
              /\ MessageIds' = MessageIds \cup {new} /\ new \notin MessageIds
              /\ InboundIds' = InboundIds \cup {new}
              /\ \A i \in MessageIds : i < new /\ i \in Nat
              /\ \A i \in MessageIds : messages'[i] = messages[i]
              /\ messages'[new] = NewRow("inbound", s)
    BY <1>4, PostAdds
  <2>2. ~messages'[new].read /\ ~messages'[new].deleted  BY <2>1 DEF NewRow
  <2>3. InboundIds \subseteq MessageIds  BY DEF InboundIds
  <2>4. ClearedFromTheFront'
    BY <2>1, <2>2 DEF TableInv, ClearedFromTheFront
  <2>6. HasNewest'  BY <2>1, <2>3 DEF HasNewest
  <2> QED  BY <2>4, <2>6 DEF TableInv
<1>5. ASSUME NEW R, NEW D, Quiet(R, D) PROVE TableInv'
  <2>1. InboundIds' = InboundIds  BY <1>1, <1>5 DEF Quiet, InboundIds
  <2>2. ClearedFromTheFront'
    <3> SUFFICES ASSUME NEW i \in MessageIds', NEW j \in MessageIds', j < i,
                        messages'[i].deleted, messages'[j].sess = messages'[i].sess
                 PROVE  messages'[j].deleted
        BY DEF ClearedFromTheFront
    <3>1. CASE i \in D
      <4>1. j \in D  BY <1>5, <3>1 DEF Quiet
      <4> QED  BY <1>5, <4>1 DEF Quiet
    <3>2. CASE i \notin D
      <4>1. i \in MessageIds /\ messages[i].deleted  BY <1>5, <3>2 DEF Quiet
      <4>2. j \in MessageIds  BY <1>1, <4>1
      <4>3. messages[j].deleted  BY <1>1, <4>1, <4>2 DEF TableInv, ClearedFromTheFront
      <4> QED  BY <1>5, <4>2, <4>3 DEF Quiet
    <3> QED  BY <3>1, <3>2
  <2>4. HasNewest'  BY <2>1 DEF TableInv, HasNewest
  <2> QED  BY <2>2, <2>4 DEF TableInv
<1>6. CASE \E D : Quiet({}, D)  BY <1>5, <1>6
<1>7. ASSUME NEW t \in turns, Serves(t) PROVE TableInv'
  BY <1>5, <1>7 DEF Serves
<1> QED  BY <1>0, <1>4, <1>6, <1>7 DEF TableShape

\* What the invariant says of any step.
LEMMA StepFacts ==
    ASSUME IInv, [Next]_vars
    PROVE  TypeOK' /\ Extends(messages, messages') /\ TypeOK /\ TurnRows
BY StepTypes, ChatAssumption, DispatcherAssumption DEF IInv

\* The table keeps its invariant through every step.
THEOREM TableInvariant == Spec => []TableInv
<1>1. Init => TableInv
  <2> SUFFICES ASSUME Init PROVE TableInv  OBVIOUS
  <2>1. MessageIds = {}  BY DEF Init, ChatInit, MessageIds
  <2> QED
    BY <2>1 DEF TableInv, ClearedFromTheFront, HasNewest, InboundIds
<1>2. IInv /\ TableInv /\ [Next]_vars => TableInv'  BY StepFacts, TableInvKept
<1> QED  BY <1>1, <1>2, Inductive, PTL DEF Spec

(***************************************************************************)
(* The dispatcher implements Mailbox                                       *)
(***************************************************************************)

\* What a user's row stands for in the mailbox.
LEMMA BoxAt ==
    /\ DOMAIN BoxOf = InboundIds
    /\ \A i \in InboundIds :
          /\ BoxOf[i].sess = messages[i].sess
          /\ BoxOf[i] = [sess |-> messages[i].sess, status |-> BoxOf[i].status]
          /\ Box!Waiting(i) <=> i \in Pending
          /\ BoxOf[i].status = IF messages[i].read THEN "settled"
                               ELSE IF messages[i].deleted THEN "withdrawn" ELSE "waiting"
BY DEF BoxOf, Box!Waiting, Pending

\* A user's row with another status.
LEMMA BoxMark ==
    ASSUME NEW j \in InboundIds, NEW st
    PROVE  [BoxOf[j] EXCEPT !.status = st] = [sess |-> messages[j].sess, status |-> st]
BY BoxAt

\* The greatest member of a set of ids.
LEMMA GreatestIs ==
    ASSUME NEW S \in SUBSET Nat, NEW n \in S, \A j \in S : j <= n
    PROVE  (CHOOSE i \in S : \A j \in S : j <= i) = n
<1> DEFINE c == CHOOSE i \in S : \A j \in S : j <= i
<1>1. c \in S /\ \A j \in S : j <= c  OBVIOUS
<1>2. c <= n /\ n <= c  BY <1>1
<1> HIDE DEF c
<1>3. c \in Nat /\ n \in Nat  BY <1>1
<1> QED  BY <1>2, <1>3 DEF c

\* A step of the dispatcher is a step of the mailbox, or none.
LEMMA BoxStep ==
    ASSUME IInv, TableInv, TableInv', [Next]_vars
    PROVE  [Box!MailboxNext]_<<BoxOf, LastOf>>
<1>0. TypeOK' /\ Extends(messages, messages') /\ TypeOK /\ TurnRows  BY StepFacts
<1>1. TableShape  BY <1>0, TableStep
<1>2. /\ MessageIds \subseteq MessageIds' /\ MessageIds' \subseteq Nat
      /\ InboundIds \subseteq MessageIds
      /\ \A i \in MessageIds : /\ messages'[i].kind = messages[i].kind
                               /\ messages'[i].sess = messages[i].sess
  BY <1>0, RowsStay DEF Extends, KeepsRows, InboundIds, MessageIds
<1>3. ASSUME NEW s \in Sessions, PostChat(s) PROVE Box!Arrive(s)
  <2>1. PICK new \in Nat \ {0} :
              /\ MessageIds' = MessageIds \cup {new} /\ new \notin MessageIds
              /\ InboundIds' = InboundIds \cup {new}
              /\ \A i \in MessageIds : i < new /\ i \in Nat
              /\ \A i \in MessageIds : messages'[i] = messages[i]
              /\ messages'[new] = NewRow("inbound", s)
    BY <1>0, <1>3, PostAdds
  <2>2. LastOf' = new
    <3>1. /\ new \in InboundIds' /\ InboundIds' \in SUBSET Nat
          /\ \A j \in InboundIds' : j <= new
      BY <1>2, <2>1
    <3>2. LastOf' = CHOOSE i \in InboundIds' : \A j \in InboundIds' : j <= i
      BY <3>1 DEF LastOf
    <3> QED  BY <3>1, <3>2, GreatestIs
  <2>3. LastOf < new
    <3>1. CASE InboundIds = {}
      <4>1. \A j \in InboundIds' : j = new  BY <2>1, <3>1
      <4>2. LastOf = 0  BY <3>1 DEF LastOf
      <4>3. new # 0  BY <2>1, <1>0
      <4> QED  BY <4>2, <4>3
    <3>2. CASE InboundIds # {}
      <4>1. PICK n \in InboundIds : \A j \in InboundIds : j <= n
        BY <3>2 DEF TableInv, HasNewest
      <4>2. LastOf = n  BY <1>2, <3>2, <4>1, GreatestIs DEF LastOf
      <4> QED  BY <1>2, <2>1, <4>1, <4>2
    <3> QED  BY <3>1, <3>2
  <2>4. BoxOf' = [j \in InboundIds \cup {new} |->
                    IF j = new THEN [sess |-> s, status |-> "waiting"] ELSE BoxOf[j]]
    <3>1. BoxOf' = [j \in InboundIds' |->
                      [sess |-> messages'[j].sess,
                       status |-> IF messages'[j].read THEN "settled"
                                  ELSE IF messages'[j].deleted THEN "withdrawn" ELSE "waiting"]]
      BY DEF BoxOf
    <3>2. messages'[new].sess = s /\ ~messages'[new].read /\ ~messages'[new].deleted
      BY <2>1 DEF NewRow
    <3>3. \A j \in InboundIds : j # new /\ messages'[j] = messages[j]  BY <1>2, <2>1
    <3> QED  BY <2>1, <3>1, <3>2, <3>3 DEF BoxOf
  <2> QED  BY <2>2, <2>3, <2>4, BoxAt DEF Box!Arrive
<1>4. ASSUME NEW R, NEW D, Quiet(R, D)
      PROVE  /\ LastOf' = LastOf
             /\ DOMAIN BoxOf' = InboundIds
             /\ BoxOf' = [i \in InboundIds |->
                            [sess |-> messages[i].sess,
                             status |-> IF messages[i].read \/ i \in R THEN "settled"
                                        ELSE IF messages[i].deleted \/ i \in D THEN "withdrawn"
                                        ELSE "waiting"]]
  <2>1. InboundIds' = InboundIds  BY <1>2, <1>4 DEF Quiet, InboundIds
  <2>2. \A i \in InboundIds : /\ messages'[i].sess = messages[i].sess
                              /\ messages'[i].read <=> messages[i].read \/ i \in R
                              /\ messages'[i].deleted <=> messages[i].deleted \/ i \in D
    BY <1>2, <1>4 DEF Quiet
  <2>3. BoxOf' = [i \in InboundIds |->
                            [sess |-> messages[i].sess,
                             status |-> IF messages[i].read \/ i \in R THEN "settled"
                                        ELSE IF messages[i].deleted \/ i \in D THEN "withdrawn"
                                        ELSE "waiting"]]
    BY <2>1, <2>2 DEF BoxOf
  <2>4. LastOf' = LastOf  BY <2>1 DEF LastOf
  <2> QED  BY <2>3, <2>4
<1>5. ASSUME NEW R, NEW D, Quiet(R, D), \A i \in R : i \in InboundIds => messages[i].read
      PROVE  Box!MailboxNext
  <2> DEFINE W == {i \in InboundIds : i \in Pending /\ i \in D}
  <2>1. BoxOf' = [j \in DOMAIN BoxOf |-> IF j \in W THEN [BoxOf[j] EXCEPT !.status = "withdrawn"]
                                         ELSE BoxOf[j]]
    <3> DEFINE after(j) == [sess |-> messages[j].sess,
                            status |-> IF messages[j].read \/ j \in R THEN "settled"
                                       ELSE IF messages[j].deleted \/ j \in D THEN "withdrawn"
                                       ELSE "waiting"]
               mapped(j) == IF j \in W THEN [BoxOf[j] EXCEPT !.status = "withdrawn"]
                            ELSE BoxOf[j]
    <3>1. \A j \in InboundIds : after(j) = mapped(j)
      <4> TAKE j \in InboundIds
      <4>1. CASE j \in W
        <5>1. ~messages[j].read /\ j \notin R /\ j \in D  BY <1>5, <4>1 DEF Pending
        <5> QED  BY <4>1, <5>1, BoxMark
      <4>2. CASE j \notin W
        <5>1. BoxOf[j].status = IF messages[j].read \/ j \in R THEN "settled"
                                ELSE IF messages[j].deleted \/ j \in D THEN "withdrawn"
                                ELSE "waiting"
          BY <1>5, <4>2, BoxAt DEF Pending
        <5> QED  BY <4>2, <5>1, BoxAt
      <4> QED  BY <4>1, <4>2
    <3>2. BoxOf' = [j \in InboundIds |-> after(j)] /\ DOMAIN BoxOf = InboundIds
      BY <1>4, <1>5, BoxAt
    <3> HIDE DEF after, mapped
    <3>3. BoxOf' = [j \in DOMAIN BoxOf |-> mapped(j)]  BY <3>1, <3>2
    <3> QED  BY <3>3 DEF mapped
  <2>2. \A i \in W, j \in DOMAIN BoxOf :
           j < i /\ BoxOf[j].sess = BoxOf[i].sess /\ Box!Waiting(j) => j \in W
    <3> SUFFICES ASSUME NEW i \in W, NEW j \in InboundIds, j < i,
                        messages[j].sess = messages[i].sess, j \in Pending
                 PROVE  j \in D
        BY BoxAt
    <3>1. i \in MessageIds /\ j \in MessageIds /\ j \in MessageIds'  BY <1>2
    <3>2. messages'[j].sess = messages'[i].sess  BY <1>2, <3>1
    <3> QED  BY <1>5, <3>1, <3>2 DEF Quiet
  <2>3. LastOf' = LastOf  BY <1>4, <1>5
  <2>4. \A i \in W : Box!Waiting(i)  BY BoxAt
  <2>5. W \in SUBSET DOMAIN BoxOf  BY BoxAt
  <2> HIDE DEF W
  <2>6. Box!Withdraw(W)  BY <2>1, <2>2, <2>3, <2>4 DEF Box!Withdraw, Box!WithStatus
  <2> QED  BY <2>5, <2>6 DEF Box!MailboxNext
<1>6. ASSUME NEW t \in turns, Serves(t), ~messages[t.msg].read PROVE Box!MailboxNext
  <2> DEFINE m == t.msg
  <2>1. PICK D : Quiet({m}, D) /\ \A d \in D : messages'[d].sess = t.sess
    BY <1>6 DEF Serves
  <2> DEFINE W == {i \in InboundIds : i \in Pending /\ i \in D /\ i # m}
  <2>2. m \in InboundIds /\ m \in MessageIds /\ messages[m].sess = t.sess
    BY <1>0, <1>2 DEF TurnRows
  <2>3. BoxOf[m].status \in {"waiting", "withdrawn"}  BY <1>6, <2>2, BoxAt
  <2>4. Box!Foremost(m)
    BY <1>2, <2>2, BoxAt DEF IInv, ServedInOrder, Box!Foremost
  <2>5. \A j \in W : Box!Waiting(j) /\ j # m /\ BoxOf[j].sess = BoxOf[m].sess
    BY <1>2, <2>1, <2>2, BoxAt
  <2>6. BoxOf' = [j \in DOMAIN BoxOf |->
                    IF j = m THEN [BoxOf[j] EXCEPT !.status = "settled"]
                    ELSE IF j \in W THEN [BoxOf[j] EXCEPT !.status = "withdrawn"]
                    ELSE BoxOf[j]]
    <3> DEFINE after(j) == [sess |-> messages[j].sess,
                            status |-> IF messages[j].read \/ j \in {m} THEN "settled"
                                       ELSE IF messages[j].deleted \/ j \in D THEN "withdrawn"
                                       ELSE "waiting"]
               mapped(j) == IF j = m THEN [BoxOf[j] EXCEPT !.status = "settled"]
                            ELSE IF j \in W THEN [BoxOf[j] EXCEPT !.status = "withdrawn"]
                            ELSE BoxOf[j]
    <3>1. \A j \in InboundIds : after(j) = mapped(j)
      <4> TAKE j \in InboundIds
      <4>1. CASE j = m  BY <4>1, BoxMark
      <4>2. CASE j # m /\ j \in W
        <5>1. ~messages[j].read /\ j \in D  BY <4>2 DEF Pending
        <5> QED  BY <4>2, <5>1, BoxMark
      <4>3. CASE j # m /\ j \notin W
        <5>1. BoxOf[j].status = IF messages[j].read \/ j \in {m} THEN "settled"
                                ELSE IF messages[j].deleted \/ j \in D THEN "withdrawn"
                                ELSE "waiting"
          BY <4>3, BoxAt DEF Pending
        <5> QED  BY <4>3, <5>1, BoxAt
      <4> QED  BY <4>1, <4>2, <4>3
    <3>2. BoxOf' = [j \in InboundIds |-> after(j)] /\ DOMAIN BoxOf = InboundIds
      BY <1>4, <2>1, BoxAt
    <3> HIDE DEF after, mapped
    <3>3. BoxOf' = [j \in DOMAIN BoxOf |-> mapped(j)]  BY <3>1, <3>2
    <3> QED  BY <3>3 DEF mapped
  <2>7. LastOf' = LastOf  BY <1>4, <2>1
  <2>8. W \in SUBSET DOMAIN BoxOf /\ m \in DOMAIN BoxOf  BY <2>2, BoxAt
  <2> HIDE DEF W, m
  <2>9. BoxOf' = [Box!WithStatus(W, "withdrawn") EXCEPT ![m].status = "settled"]
    <3>1. m \notin W  BY DEF W
    <3> QED  BY <2>6, <2>8, <3>1 DEF Box!WithStatus
  <2>10. Box!Settle(m, W)  BY <2>3, <2>4, <2>5, <2>7, <2>9 DEF Box!Settle
  <2> QED  BY <2>8, <2>10 DEF Box!MailboxNext
<1>7. CASE \E s \in Sessions : PostChat(s)  BY <1>3, <1>7 DEF Box!MailboxNext
<1>8. CASE \E D : Quiet({}, D)  BY <1>5, <1>8
<1>9. ASSUME NEW t \in turns, Serves(t) PROVE Box!MailboxNext
  <2>1. CASE messages[t.msg].read
    <3>1. PICK D : Quiet({t.msg}, D)  BY <1>9 DEF Serves
    <3> QED  BY <1>5, <2>1, <3>1
  <2>2. CASE ~messages[t.msg].read  BY <1>6, <1>9, <2>2
  <2> QED  BY <2>1, <2>2
<1> QED  BY <1>1, <1>7, <1>8, <1>9 DEF TableShape

\* The dispatcher implements Mailbox, whatever crashes, is retried or cleared.
THEOREM Implements == Spec => ImplementsMailbox
<1>1. Init => Box!MailboxInit
  <2> SUFFICES ASSUME Init PROVE Box!MailboxInit  OBVIOUS
  <2>1. InboundIds = {}  BY DEF Init, ChatInit, MessageIds, InboundIds
  <2>2. LastOf = 0  BY <2>1 DEF LastOf
  <2>3. BoxOf = [i \in {} |-> 0]  BY <2>1 DEF BoxOf
  <2> QED  BY <2>2, <2>3 DEF Box!MailboxInit
<1>2. IInv /\ TableInv /\ TableInv' /\ [Next]_vars => [Box!MailboxNext]_<<BoxOf, LastOf>>
  BY BoxStep
<1> QED
  BY <1>1, <1>2, Inductive, TableInvariant, PTL DEF Spec, ImplementsMailbox, Box!MailboxSpec

(***************************************************************************)
(* The markers, where one process is all there is                          *)
(***************************************************************************)

\* Every row is of a session that exists.
RowsInSessions == \A i \in MessageIds : sessions[messages[i].sess].exists

\* A process that is off has no threads.
OffHoldsNothing == \A l \in Loops : proc[l[1]] = "off" => ~Alive(l)

\* No session goes, and the marker of one that exists stays; a session that
\* did not exist may start with its marker out.
SessionsStay ==
    \A s \in Sessions :
        /\ sessions[s].exists => sessions'[s].exists
        /\ \/ sessions'[s].marker = sessions[s].marker
           \/ sessions'[s].marker = 0 /\ ~sessions[s].exists

\* The reply route leaves the sessions and their markers; the one it opens
\* is new.
LEMMA ReplySessions ==
    ASSUME ChatTypeOK, NEW m, NEW s \in Sessions, NEW level, NEW n \in Sessions,
           Reply(m, s, level, n), sessions[s].exists
    PROVE  SessionsStay /\ sessions'[s].exists /\ sessions'[n].exists
<1> DEFINE warnNow  == level # "low" /\ ~sessions[s].warned
           rewarned == [sessions EXCEPT ![s].warned = @ \/ warnNow]
<1>1. \A x \in Sessions : sessions[x] \in Session  BY DEF ChatTypeOK
<1>2. /\ rewarned \in [Sessions -> Session]
      /\ \A x \in Sessions : /\ rewarned[x].exists <=> sessions[x].exists
                             /\ rewarned[x].marker = sessions[x].marker
  BY DEF ChatTypeOK, Session
<1>3. CASE level # "clear"
  <2>1. sessions' = rewarned /\ n = s  BY <1>3 DEF Reply
  <2> HIDE DEF rewarned
  <2> QED  BY <1>2, <2>1 DEF SessionsStay
<1>4. CASE level = "clear"
  <2>1. /\ sessions' = [rewarned EXCEPT ![s].active = FALSE, ![n] = Fresh]
        /\ ~sessions[n].exists
    BY <1>4 DEF Reply, Existing
  <2> HIDE DEF rewarned
  <2>2. n # s  BY <2>1
  <2>3. /\ sessions'[n] = Fresh
        /\ \A x \in Sessions : x # n => /\ sessions'[x].exists <=> rewarned[x].exists
                                        /\ sessions'[x].marker = rewarned[x].marker
    BY <1>2, <2>1, <2>2 DEF Session
  <2>4. Fresh.exists /\ Fresh.marker = 0  BY DEF Fresh
  <2> QED  BY <1>2, <2>1, <2>2, <2>3, <2>4 DEF SessionsStay
<1> QED  BY <1>3, <1>4

\* So does whatever a user does.
LEMMA UserSessions == ASSUME ChatTypeOK, UserAction PROVE SessionsStay
<1>1. \A x \in Sessions : sessions[x] \in Session  BY DEF ChatTypeOK
<1>2. ASSUME sessions' = sessions PROVE SessionsStay  BY <1>2 DEF SessionsStay
<1>3. ASSUME NEW s \in Sessions, CreateSession(s) PROVE SessionsStay
  <2>1. \A x \in Sessions : sessions'[x] = IF x = s THEN Fresh
                                           ELSE IF ShellOf[x] = ShellOf[s]
                                                THEN [sessions[x] EXCEPT !.active = FALSE]
                                                ELSE sessions[x]
    BY <1>3 DEF CreateSession
  <2>2. Fresh.exists /\ Fresh.marker = 0 /\ ~sessions[s].exists
    BY <1>3 DEF Fresh, CreateSession, Existing
  <2> QED  BY <1>1, <2>1, <2>2 DEF SessionsStay, Session
<1>4. ASSUME NEW s \in Sessions, ClearSession(s) PROVE SessionsStay
  <2>1. \A x \in Sessions : sessions'[x] = IF x = s THEN [sessions[x] EXCEPT !.active = FALSE]
                                           ELSE sessions[x]
    BY <1>4 DEF ClearSession, ChatTypeOK
  <2> QED  BY <1>1, <2>1 DEF SessionsStay, Session
<1>5. ASSUME NEW sh \in Shells, NEW b \in 0..Len(messages), DeleteChat(sh, b)
      PROVE  SessionsStay
  <2>1. \A x \in Sessions : sessions'[x] = IF ShellOf[x] = sh
                                           THEN [sessions[x] EXCEPT !.active = FALSE]
                                           ELSE sessions[x]
    BY <1>5 DEF DeleteChat
  <2> QED  BY <1>1, <2>1 DEF SessionsStay, Session
<1>6. ASSUME NEW s \in Sessions, PostChat(s) \/ SwitchModel(s) PROVE SessionsStay
  BY <1>2, <1>6 DEF PostChat, SwitchModel
<1>7. ASSUME NEW sh \in Shells, ActivateShell(sh) \/ ToggleBrowserChat(sh) PROVE SessionsStay
  BY <1>2, <1>7 DEF ActivateShell, ToggleBrowserChat
<1> QED  BY <1>3, <1>4, <1>5, <1>6, <1>7 DEF UserAction

\* Turn u holds a marker as turn t does.
SameMark(t, u) == t.loop = u.loop /\ t.msg = u.msg /\ t.sess = u.sess

\* No thread is new, and the turns that hold a marker are the same ones.
MarksStay ==
    /\ \A l \in Loops : Alive(l)' /\ proc'[l[1]] = "up" => Alive(l) /\ proc[l[1]] = "up"
    /\ \A t \in turns : t.pc \in Marking => \E u \in turns' : SameMark(t, u) /\ u.pc \in Marking
    /\ \A u \in turns' : u.pc \in Marking => \E t \in turns : SameMark(t, u) /\ t.pc \in Marking

MarkerInv == MarkerTruthful /\ RowsInSessions /\ OffHoldsNothing

\* A turn's session exists.
LEMMA TurnSessions ==
    ASSUME TypeOK, TurnRows, RowsInSessions
    PROVE  \A t \in turns : t.sess \in Sessions /\ sessions[t.sess].exists
BY DEF TypeOK, Turn, TurnRows, RowsInSessions, InboundIds

\* If neither turns with markers nor markers of existing sessions change, the
\* markers stay true.
LEMMA MarkersStay ==
    ASSUME TypeOK, TurnRows, MarkerInv, MarksStay, SessionsStay, uncleared' = uncleared
    PROVE  MarkerTruthful'
<1> SUFFICES ASSUME NEW l \in Loops, NEW s \in Sessions,
                    Alive(l)', proc'[l[1]] = "up", ShellOf[s] = l[2]
             PROVE  /\ sessions'[s].marker # 0 /\ s \notin uncleared' =>
                          \E u \in turns' : /\ u.loop[1] = l[1]
                                            /\ u.sess = s
                                            /\ u.msg = sessions'[s].marker
                                            /\ u.pc \in Marking
                    /\ \A u \in turns' : u.loop = l /\ u.sess = s /\ u.pc \in Marking =>
                          sessions'[s].marker = u.msg /\ s \notin uncleared'
    BY DEF MarkerTruthful, TurnsOf
<1>1. Alive(l) /\ proc[l[1]] = "up"  BY DEF MarksStay
<1>2. /\ sessions[s].marker # 0 /\ s \notin uncleared =>
            \E t \in turns : /\ t.loop[1] = l[1]
                             /\ t.sess = s
                             /\ t.msg = sessions[s].marker
                             /\ t.pc \in Marking
      /\ \A t \in turns : t.loop = l /\ t.sess = s /\ t.pc \in Marking =>
            sessions[s].marker = t.msg /\ s \notin uncleared
  BY <1>1 DEF MarkerInv, MarkerTruthful, TurnsOf
<1>3. ASSUME sessions'[s].marker # 0, s \notin uncleared'
      PROVE  \E u \in turns' : /\ u.loop[1] = l[1]
                               /\ u.sess = s
                               /\ u.msg = sessions'[s].marker
                               /\ u.pc \in Marking
  <2>1. sessions'[s].marker = sessions[s].marker  BY <1>3 DEF SessionsStay
  <2>2. PICK t \in turns : /\ t.loop[1] = l[1]
                           /\ t.sess = s
                           /\ t.msg = sessions[s].marker
                           /\ t.pc \in Marking
    BY <1>2, <1>3, <2>1
  <2>3. PICK u \in turns' : SameMark(t, u) /\ u.pc \in Marking  BY <2>2 DEF MarksStay
  <2> QED  BY <2>1, <2>2, <2>3 DEF SameMark
<1>4. ASSUME NEW u \in turns', u.loop = l, u.sess = s, u.pc \in Marking
      PROVE  sessions'[s].marker = u.msg /\ s \notin uncleared'
  <2>1. PICK t \in turns : SameMark(t, u) /\ t.pc \in Marking  BY <1>4 DEF MarksStay
  <2>2. sessions[s].exists  BY <1>4, <2>1, TurnSessions DEF SameMark, MarkerInv
  <2>3. sessions[s].marker = t.msg /\ s \notin uncleared  BY <1>2, <1>4, <2>1 DEF SameMark
  <2> QED  BY <2>1, <2>2, <2>3 DEF SessionsStay, SameMark
<1> QED  BY <1>3, <1>4

\* A turn that moves within, or outside, its marked states.
LEMMA BecomesMarks ==
    ASSUME turns \subseteq Turn, NEW t \in turns, NEW pc, NEW k, Becomes(t, pc, k),
           t.pc \in Marking <=> pc \in Marking,
           UNCHANGED <<proc, loops>>
    PROVE  MarksStay
<1> DEFINE new == [t EXCEPT !.pc = pc, !.tries = k]
<1>1. /\ new.loop = t.loop /\ new.msg = t.msg /\ new.sess = t.sess /\ new.pc = pc
      /\ turns' = (turns \ {t}) \cup {new}
  BY DEF Becomes, Turn
<1> HIDE DEF new
<1>2. \A v \in turns : v.pc \in Marking => \E u \in turns' : SameMark(v, u) /\ u.pc \in Marking
  <2> SUFFICES ASSUME NEW v \in turns, v.pc \in Marking
               PROVE  \E u \in turns' : SameMark(v, u) /\ u.pc \in Marking
      OBVIOUS
  <2>1. CASE v = t  BY <1>1, <2>1 DEF SameMark
  <2>2. CASE v # t  BY <1>1, <2>2 DEF SameMark
  <2> QED  BY <2>1, <2>2
<1>3. \A u \in turns' : u.pc \in Marking => \E v \in turns : SameMark(v, u) /\ v.pc \in Marking
  <2> SUFFICES ASSUME NEW u \in turns', u.pc \in Marking
               PROVE  \E v \in turns : SameMark(v, u) /\ v.pc \in Marking
      OBVIOUS
  <2>1. CASE u = new  BY <1>1, <2>1 DEF SameMark
  <2>2. CASE u # new  BY <1>1, <2>2 DEF SameMark
  <2> QED  BY <2>1, <2>2
<1> QED  BY <1>2, <1>3 DEF MarksStay, Alive

\* Where nothing happens to the turns, and to threads no more than a signal.
LEMMA SameTurnsMarks ==
    ASSUME turns' = turns,
           \A l \in Loops : Alive(l)' /\ proc'[l[1]] = "up" => Alive(l) /\ proc[l[1]] = "up"
    PROVE  MarksStay
BY DEF MarksStay, SameMark

\* A thread is of a process and serves a shell.
LEMMA LoopParts == \A l \in Loops : l[1] \in Procs /\ l[2] \in Shells
BY DEF Loops

\* The sessions, after any step but the four that write markers.
LEMMA SessionStep ==
    ASSUME TypeOK, TurnRows, RowsInSessions, [Next]_vars
    PROVE  \/ SessionsStay
           \/ \E l \in Loops : Join(l)
           \/ \E t \in turns : TurnStart(t) \/ ClearMarker(t)
           \/ \E p \in Procs : Sigterm(p)
<1>1. ASSUME sessions' = sessions PROVE SessionsStay  BY <1>1 DEF SessionsStay
<1>2. \A t \in turns : t.sess \in Sessions /\ sessions[t.sess].exists  BY TurnSessions
<1>3. CASE User  BY <1>3, UserSessions DEF User, TypeOK
<1>4. CASE Supervise  BY <1>1, <1>4 DEF Supervise, Start, Leave, Exit
<1>5. ASSUME NEW l \in Loops, Poll(l) PROVE SessionsStay
  BY <1>1, <1>5 DEF Poll, Fetch, Submit, Halt, LoopEnds
<1>6. ASSUME NEW t \in turns, Work(t), ~TurnStart(t), ~ClearMarker(t) PROVE SessionsStay
  <2>1. ASSUME NEW level \in Levels, NEW n \in Sessions, PostReply(t, level, n)
        PROVE  SessionsStay
    BY <1>2, <2>1, ReplySessions DEF PostReply, TypeOK
  <2> QED  BY <1>1, <1>6, <2>1 DEF Work, Skip, Load, Release
<1>7. CASE Failure
  <2>1. ASSUME NEW t \in turns, NEW level \in Levels, NEW n \in Sessions,
               PostReplyLost(t, level, n)
        PROVE  SessionsStay
    BY <1>2, <2>1, ReplySessions DEF PostReplyLost, TypeOK
  <2> QED
    BY <1>1, <1>7, <2>1 DEF Failure, Kill, TurnStartFails, TurnRaises, HandlerFails,
                            ClearMarkerFails, PostFails
<1>8. CASE UNCHANGED vars  BY <1>1, <1>8 DEF vars
<1> QED  BY <1>3, <1>4, <1>5, <1>6, <1>7, <1>8 DEF Next

\* A write of markers leaves the sessions there are.
LEMMA MarkerWritesKeep ==
    ASSUME ChatTypeOK,
           \/ \E shs : ClearMarkers(shs)
           \/ \E s \in Sessions, k \in Nat : sessions' = [sessions EXCEPT ![s].marker = k]
    PROVE  \A s \in Sessions : sessions'[s].exists <=> sessions[s].exists
<1>1. sessions \in [Sessions -> Session]  BY DEF ChatTypeOK
<1>2. ASSUME NEW shs, ClearMarkers(shs)
      PROVE  \A s \in Sessions : sessions'[s].exists <=> sessions[s].exists
  <2>1. \A s \in Sessions : sessions'[s] = IF ShellOf[s] \in shs
                                           THEN [sessions[s] EXCEPT !.marker = 0]
                                           ELSE sessions[s]
    BY <1>2 DEF ClearMarkers
  <2> QED  BY <1>1, <2>1 DEF Session
<1>3. ASSUME NEW s \in Sessions, NEW k \in Nat, sessions' = [sessions EXCEPT ![s].marker = k]
      PROVE  \A x \in Sessions : sessions'[x].exists <=> sessions[x].exists
  <2>1. \A x \in Sessions : sessions'[x] = IF x = s THEN [sessions[x] EXCEPT !.marker = k]
                                           ELSE sessions[x]
    BY <1>1, <1>3
  <2> QED  BY <1>1, <2>1 DEF Session
<1> QED  BY <1>2, <1>3

\* Once a session exists it goes on existing.
LEMMA SessionsGrow ==
    ASSUME TypeOK, TurnRows, RowsInSessions, [Next]_vars
    PROVE  \A s \in Sessions : sessions[s].exists => sessions'[s].exists
<1>1. ASSUME SessionsStay
      PROVE  \A s \in Sessions : sessions[s].exists => sessions'[s].exists
  BY <1>1 DEF SessionsStay
<1>2. ASSUME NEW l \in Loops, Join(l)
      PROVE  \A s \in Sessions : sessions[s].exists => sessions'[s].exists
  BY <1>2, MarkerWritesKeep DEF Join, TypeOK
<1>3. ASSUME NEW p \in Procs, Sigterm(p)
      PROVE  \A s \in Sessions : sessions[s].exists => sessions'[s].exists
  <2>1. CASE sessions' = sessions  BY <2>1
  <2>2. CASE sessions' # sessions  BY <1>3, <2>2, MarkerWritesKeep DEF Sigterm, TypeOK
  <2> QED  BY <2>1, <2>2
<1>4. ASSUME NEW t \in turns, TurnStart(t) \/ ClearMarker(t)
      PROVE  \A s \in Sessions : sessions[s].exists => sessions'[s].exists
  <2>1. t.sess \in Sessions /\ t.msg \in Nat /\ 0 \in Nat  BY DEF TypeOK, Turn
  <2>2. \E k \in Nat : sessions' = [sessions EXCEPT ![t.sess].marker = k]
    BY <1>4, <2>1 DEF TurnStart, ClearMarker
  <2> QED  BY <2>1, <2>2, MarkerWritesKeep DEF TypeOK
<1> QED  BY <1>1, <1>2, <1>3, <1>4, SessionStep

\* A step leaves every row in a session that exists.
LEMMA RowsInSessionsKept ==
    ASSUME TypeOK, TurnRows, RowsInSessions, [Next]_vars, Extends(messages, messages')
    PROVE  RowsInSessions'
<1>0. /\ \A i \in MessageIds : messages'[i].sess = messages[i].sess
      /\ \A i \in MessageIds : messages[i].sess \in Sessions
      /\ messages \in Seq(Row) /\ Len(messages) \in Nat /\ MessageIds = 1..Len(messages)
  <2>1. messages \in Seq(Row) /\ Len(messages) \in Nat /\ MessageIds = 1..Len(messages)
    BY LenProperties DEF TypeOK, ChatTypeOK, MessageIds
  <2>2. \A i \in MessageIds : messages[i] \in Row  BY <2>1, ElementOfSeq
  <2> QED  BY <2>1, <2>2, RowsStay DEF Row
<1>1. \A i \in MessageIds : sessions'[messages'[i].sess].exists
  BY <1>0, SessionsGrow DEF RowsInSessions
<1>2. ASSUME \A i \in MessageIds' \ MessageIds : sessions'[messages'[i].sess].exists
      PROVE  RowsInSessions'
  BY <1>1, <1>2 DEF RowsInSessions
<1>3. ASSUME DOMAIN messages' = DOMAIN messages PROVE RowsInSessions'
  BY <1>2, <1>3 DEF MessageIds
<1>4. ASSUME NEW s \in Sessions, PostChat(s) \/ SwitchModel(s) PROVE RowsInSessions'
  <2>1. PICK k \in {"inbound", "notice"} : messages' = Append(messages, NewRow(k, s))
    BY <1>4 DEF PostChat, SwitchModel
  <2>2. NewRow(k, s) \in Row  BY NewRowType
  <2>3. /\ MessageIds' = 1..(Len(messages) + 1)
        /\ messages'[Len(messages) + 1] = NewRow(k, s)
    BY <1>0, <2>1, <2>2, AppendAt DEF MessageIds
  <2>4. \A i \in MessageIds' \ MessageIds : messages'[i].sess = s
    BY <1>0, <2>3 DEF NewRow
  <2>5. sessions'[s].exists  BY <1>4 DEF PostChat, SwitchModel, Existing
  <2> QED  BY <1>2, <2>4, <2>5
<1>5. ASSUME NEW t \in turns, NEW level, NEW n \in Sessions, Reply(t.msg, t.sess, level, n)
      PROVE  RowsInSessions'
  <2>1. /\ t.sess \in Sessions /\ sessions[t.sess].exists /\ t.msg \in MessageIds
    BY TurnSessions DEF TurnRows, InboundIds
  <2>2. \A r \in MessageIds' \ MessageIds : messages'[r].sess \in {t.sess, n}
    BY <1>5, <2>1, ReplyRows DEF TypeOK
  <2>3. sessions'[t.sess].exists /\ sessions'[n].exists
    BY <1>5, <2>1, ReplySessions DEF TypeOK
  <2> QED  BY <1>2, <2>2, <2>3
<1>6. CASE User
  <2>1. ASSUME NEW S, messages' = SoftDelete(messages, S)
        PROVE  RowsInSessions'
    BY <1>3, <2>1 DEF SoftDelete
  <2> QED
    BY <1>3, <1>4, <1>6, <2>1 DEF User, UserAction, CreateSession, ClearSession, ClearRows,
       DeleteChat, ActivateShell, ToggleBrowserChat
<1>7. CASE Supervise  BY <1>3, <1>7 DEF Supervise, Start, Leave, Join, Exit
<1>8. ASSUME NEW l \in Loops, Poll(l) PROVE RowsInSessions'
  BY <1>3, <1>8 DEF Poll, Fetch, Submit, Halt, LoopEnds
<1>9. ASSUME NEW i, MarkRead(i) PROVE RowsInSessions'
  BY <1>3, <1>9 DEF MarkRead
<1>10. ASSUME NEW t \in turns, Work(t) PROVE RowsInSessions'
  BY <1>3, <1>5, <1>9, <1>10 DEF Work, TurnStart, Skip, Load, PostReply, ClearMarker, Release
<1>11. CASE Failure
  BY <1>3, <1>5, <1>9, <1>11 DEF Failure, Sigterm, Kill, TurnStartFails, TurnRaises,
     HandlerFails, ClearMarkerFails, PostFails, PostReplyLost
<1>12. CASE UNCHANGED vars  BY <1>3, <1>12 DEF vars
<1> QED  BY <1>6, <1>7, <1>8, <1>10, <1>11, <1>12 DEF Next

\* A process that goes off takes its threads with it; only one that is up
\* starts any.
LEMMA OffKept ==
    ASSUME TypeOK, OffHoldsNothing, [Next]_vars
    PROVE  OffHoldsNothing'
<1>1. ASSUME proc' = proc, \A l \in Loops : Alive(l)' => Alive(l) PROVE OffHoldsNothing'
  BY <1>1 DEF OffHoldsNothing
<1>2. ASSUME NEW p \in Procs, Vanish(p) PROVE OffHoldsNothing'
  BY <1>2, LoopParts DEF OffHoldsNothing, Vanish, TypeOK, Alive, Absent
<1>3. ASSUME UNCHANGED <<proc, loops>> PROVE OffHoldsNothing'
  BY <1>3 DEF OffHoldsNothing, Alive
<1>4. ASSUME NEW p \in Procs, Start(p) PROVE OffHoldsNothing'
  BY <1>4, LoopParts DEF OffHoldsNothing, Start, TypeOK, Alive
<1>5. ASSUME Signalled, UNCHANGED proc PROVE OffHoldsNothing'
  BY <1>1, <1>5 DEF Signalled, Alive
<1>6. ASSUME NEW l \in Loops, Leave(l) \/ Halt(l) PROVE OffHoldsNothing'
  <2>1. Signalled
    BY <1>6 DEF Leave, Halt, Signalled, TypeOK, Alive, Loop
  <2> QED  BY <1>5, <1>6, <2>1 DEF Leave, Halt
<1>7. ASSUME NEW l \in Loops, Join(l) PROVE OffHoldsNothing'
  <2>1. proc[l[1]] = "up" /\ proc' = proc  BY <1>7 DEF Join
  <2>2. \A k \in Loops : k # l => loops'[k] = loops[k]  BY <1>7 DEF Join, TypeOK
  <2> QED  BY <2>1, <2>2 DEF OffHoldsNothing, Alive
<1>8. ASSUME NEW p \in Procs, Sigterm(p) PROVE OffHoldsNothing'
  <2>1. Signalled  BY <1>8 DEF Sigterm, Signalled, TypeOK, Alive, Loop
  <2>2. \A l \in Loops : Alive(l)' => Alive(l)  BY <2>1 DEF Signalled, Alive
  <2>3. \A q \in Procs : proc'[q] = "off" => proc[q] = "off"
    BY <1>8 DEF Sigterm, TypeOK
  <2> QED  BY <2>2, <2>3, LoopParts DEF OffHoldsNothing
<1>9. ASSUME NEW l \in Loops, Fetch(l) \/ Submit(l) \/ LoopEnds(l) PROVE OffHoldsNothing'
  <2>1. \A k \in Loops : k # l => loops'[k] = loops[k]
    BY <1>9 DEF Fetch, Submit, LoopEnds, TypeOK
  <2>2. Alive(l)  BY <1>9 DEF Fetch, Submit, LoopEnds, Alive
  <2> QED  BY <1>1, <1>9, <2>1, <2>2 DEF Fetch, Submit, LoopEnds, Alive
<1>10. ASSUME NEW t \in turns, Release(t) PROVE OffHoldsNothing'
  <2>1. \A l \in Loops : loops'[l].st = loops[l].st  BY <1>10 DEF Release, TypeOK, Loop
  <2> QED  BY <1>1, <1>10, <2>1 DEF Release, Alive
<1>11. CASE User  BY <1>3, <1>11 DEF User, UserAction
<1>12. ASSUME NEW t \in turns, Work(t), ~Release(t) PROVE OffHoldsNothing'
  BY <1>3, <1>12 DEF Work, TurnStart, Skip, Load, PostReply, ClearMarker
<1>13. CASE Failure
  BY <1>2, <1>3, <1>8, <1>13 DEF Failure, Kill, TurnStartFails, TurnRaises, HandlerFails,
     ClearMarkerFails, PostFails, PostReplyLost
<1>14. CASE UNCHANGED vars  BY <1>3, <1>14 DEF vars
<1> QED
  BY <1>2, <1>4, <1>6, <1>7, <1>9, <1>10, <1>11, <1>12, <1>13, <1>14 DEF Next, Supervise, Poll, Exit

\* Where all threads are of one process, a session's turn is of the one thread
\* of its shell, and it is the only one.
LEMMA OneTurnOfSession ==
    ASSUME \A p, q \in Procs : p = q, IInv
    PROVE  /\ \A t \in turns : t.loop \in Loops /\ Alive(t.loop)
           /\ \A t \in turns, l \in Loops :
                 Alive(l) /\ ShellOf[t.sess] = l[2] => t.loop = l
           /\ \A t, u \in turns : t.sess = u.sess => t = u
<1>1. \A t \in turns : t.loop \in Loops /\ Alive(t.loop)
  <2> SUFFICES ASSUME NEW t \in turns PROVE t.loop \in Loops /\ Alive(t.loop)  OBVIOUS
  <2>1. t.loop \in Loops  BY DEF IInv, TypeOK, Turn
  <2>2. t.sess \in loops[t.loop].inflight  BY <2>1 DEF IInv, InFlightExact, TurnsOf
  <2> QED  BY <2>1, <2>2 DEF IInv, AbsentHoldsNothing, Absent
<1>2. ASSUME NEW t \in turns, NEW l \in Loops, Alive(l), ShellOf[t.sess] = l[2]
      PROVE  t.loop = l
  <2>1. t.loop[2] = l[2]  BY <1>2 DEF IInv, TurnRows
  <2>2. t.loop[1] = l[1]  BY <1>1, LoopParts
  <2> QED  BY <1>1, <1>2, <2>1, <2>2 DEF IInv, OneLoopPerShell
<1>3. ASSUME NEW t \in turns, NEW u \in turns, t.sess = u.sess PROVE t = u
  <2>1. ShellOf[t.sess] = u.loop[2]  BY <1>3 DEF IInv, TurnRows
  <2>2. t.loop = u.loop  BY <1>1, <1>2, <2>1
  <2> QED  BY <1>3, <2>2 DEF IInv, OneTurnInLoop
<1> QED  BY <1>1, <1>2, <1>3

\* A shell that joins starts with every marker of its sessions out, and no turn.
LEMMA JoinMarkers ==
    ASSUME \A p, q \in Procs : p = q, IInv, MarkerInv, NEW l \in Loops, Join(l)
    PROVE  MarkerTruthful'
<1>0. sessions \in [Sessions -> Session] /\ loops \in [Loops -> Loop]
  BY DEF IInv, TypeOK, ChatTypeOK
<1>1. \A s \in Sessions : sessions'[s].marker = IF ShellOf[s] = l[2] THEN 0 ELSE sessions[s].marker
  BY <1>0 DEF Join, ClearMarkers, Session
<1>2. /\ turns' = turns /\ proc' = proc
      /\ \A s \in Sessions : s \in uncleared' <=> s \in uncleared /\ ShellOf[s] # l[2]
  BY DEF Join, ClearMarkers
<1>3. \A k \in Loops : k # l => (Alive(k)' <=> Alive(k))  BY <1>0 DEF Join, Alive
<1>4. \A t \in turns : ShellOf[t.sess] # l[2]
  <2> SUFFICES ASSUME NEW t \in turns, ShellOf[t.sess] = l[2] PROVE FALSE  OBVIOUS
  <2>1. /\ t.loop \in Loops /\ Alive(t.loop) /\ t.loop[2] = l[2] /\ t.loop[1] = l[1]
    BY OneTurnOfSession, LoopParts DEF IInv, TurnRows
  <2>2. t.loop \in LoopsOf(l[1])  BY <2>1 DEF LoopsOf
  <2> QED  BY <2>1, <2>2 DEF Join, MayJoin, Draining, IsRunning
<1> SUFFICES ASSUME NEW k \in Loops, NEW s \in Sessions,
                    Alive(k)', proc[k[1]] = "up", ShellOf[s] = k[2]
             PROVE  /\ sessions'[s].marker # 0 /\ s \notin uncleared' =>
                          \E u \in turns : /\ u.loop[1] = k[1]
                                           /\ u.sess = s
                                           /\ u.msg = sessions'[s].marker
                                           /\ u.pc \in Marking
                    /\ \A u \in turns : u.loop = k /\ u.sess = s /\ u.pc \in Marking =>
                          sessions'[s].marker = u.msg /\ s \notin uncleared'
    BY <1>2 DEF MarkerTruthful, TurnsOf
<1>5. CASE k[2] = l[2]  BY <1>1, <1>4, <1>5
<1>6. CASE k[2] # l[2]
  <2>1. Alive(k)  BY <1>3, <1>6
  <2>2. /\ sessions'[s].marker = sessions[s].marker
        /\ s \in uncleared' <=> s \in uncleared
    BY <1>1, <1>2, <1>6
  <2> QED  BY <2>1, <2>2 DEF MarkerInv, MarkerTruthful, TurnsOf
<1> QED  BY <1>5, <1>6

\* A turn puts its message on its session's marker, takes it off, or fails to.
LEMMA TurnMarkers ==
    ASSUME \A p, q \in Procs : p = q, IInv, MarkerInv, NEW t \in turns,
           TurnStart(t) \/ ClearMarker(t) \/ ClearMarkerFails(t)
    PROVE  MarkerTruthful'
<1>0. /\ sessions \in [Sessions -> Session] /\ loops' = loops /\ proc' = proc
      /\ t \in Turn /\ t.sess \in Sessions /\ t.msg \in Nat
  BY DEF IInv, TypeOK, ChatTypeOK, Turn, TurnStart, ClearMarker, ClearMarkerFails
<1>1. PICK pc, k, un :
         /\ Moves(t, pc)
         /\ \/ pc = "marked" /\ t.pc = "queued" /\ k = t.msg /\ un = uncleared \ {t.sess}
            \/ pc = "unmarked" /\ t.pc = "done" /\ k = 0 /\ un = uncleared
            \/ pc = "unmarked" /\ t.pc = "done" /\ un = uncleared \cup {t.sess}
         /\ sessions' = [sessions EXCEPT ![t.sess].marker = k]
         /\ uncleared' = un
  <2>1. CASE ClearMarkerFails(t)
    <3>1. sessions = [sessions EXCEPT ![t.sess].marker = sessions[t.sess].marker]
      BY <1>0 DEF Session
    <3> QED  BY <2>1, <3>1 DEF ClearMarkerFails
  <2>2. CASE TurnStart(t)  BY <2>2 DEF TurnStart, Takable
  <2>3. CASE ClearMarker(t)  BY <2>3 DEF ClearMarker
  <2> QED  BY <2>1, <2>2, <2>3
<1> DEFINE new == [t EXCEPT !.pc = pc, !.tries = 0]
<1>2. /\ new.loop = t.loop /\ new.msg = t.msg /\ new.sess = t.sess /\ new.pc = pc
      /\ turns' = (turns \ {t}) \cup {new}
  BY <1>0, <1>1 DEF Moves, Becomes, Turn
<1> HIDE DEF new
<1>3. \A s \in Sessions : sessions'[s].marker = IF s # t.sess THEN sessions[s].marker ELSE k
  BY <1>0, <1>1 DEF Session
<1> SUFFICES ASSUME NEW l \in Loops, NEW s \in Sessions,
                    Alive(l), proc[l[1]] = "up", ShellOf[s] = l[2]
             PROVE  /\ sessions'[s].marker # 0 /\ s \notin uncleared' =>
                          \E u \in turns' : /\ u.loop[1] = l[1]
                                            /\ u.sess = s
                                            /\ u.msg = sessions'[s].marker
                                            /\ u.pc \in Marking
                    /\ \A u \in turns' : u.loop = l /\ u.sess = s /\ u.pc \in Marking =>
                          sessions'[s].marker = u.msg /\ s \notin uncleared'
    BY <1>0 DEF MarkerTruthful, TurnsOf, Alive
<1>4. /\ sessions[s].marker # 0 /\ s \notin uncleared =>
            \E u \in turns : /\ u.loop[1] = l[1]
                             /\ u.sess = s
                             /\ u.msg = sessions[s].marker
                             /\ u.pc \in Marking
      /\ \A u \in turns : u.loop = l /\ u.sess = s /\ u.pc \in Marking =>
            sessions[s].marker = u.msg /\ s \notin uncleared
  BY DEF MarkerInv, MarkerTruthful, TurnsOf
<1>5. CASE s # t.sess
  <2>1. \A u \in turns : u.sess = s => u \in turns'  BY <1>2, <1>5
  <2>2. \A u \in turns' : u.sess = s => u \in turns  BY <1>2, <1>5
  <2>3. /\ sessions'[s].marker = sessions[s].marker
        /\ s \in uncleared' <=> s \in uncleared
    BY <1>1, <1>3, <1>5
  <2> QED  BY <1>4, <2>1, <2>2, <2>3
<1>6. CASE s = t.sess
  <2>1. \A u \in turns' : u.sess = s => u = new
    BY <1>2, <1>6, OneTurnOfSession
  <2>2. new \in turns' /\ new.sess = s /\ new.msg = t.msg /\ new.loop = l
    BY <1>2, <1>6, OneTurnOfSession
  <2>3. CASE pc = "marked"
    <3>1. sessions'[s].marker = t.msg /\ s \notin uncleared'  BY <1>1, <1>3, <1>6, <2>3
    <3> QED  BY <1>2, <2>1, <2>2, <2>3, <3>1 DEF Marking
  <2>4. CASE pc = "unmarked"
    <3>1. new.pc \notin Marking  BY <1>2, <2>4 DEF Marking
    <3>2. sessions'[s].marker = 0 \/ s \in uncleared'  BY <1>1, <1>3, <1>6, <2>4
    <3> QED  BY <2>1, <3>1, <3>2
  <2> QED  BY <1>1, <2>3, <2>4
<1> QED  BY <1>5, <1>6

\* Every step keeps the markers true.
LEMMA MarkerTruthKept ==
    ASSUME \A p, q \in Procs : p = q, IInv, MarkerInv, [Next]_vars
    PROVE  MarkerTruthful'
<1>0. TypeOK /\ TurnRows /\ turns \subseteq Turn  BY DEF IInv, TypeOK
<1>1. ASSUME MarksStay, SessionsStay, uncleared' = uncleared PROVE MarkerTruthful'
  BY <1>0, <1>1, MarkersStay
<1>2. ASSUME sessions' = sessions PROVE SessionsStay  BY <1>2 DEF SessionsStay
<1>3. ASSUME UNCHANGED <<proc, loops, turns>> PROVE MarksStay
  BY <1>3, SameTurnsMarks DEF Alive
<1>4. ASSUME \A p \in Procs : proc'[p] # "up" PROVE MarkerTruthful'
  BY <1>4, LoopParts DEF MarkerTruthful
<1>5. ASSUME NEW t \in turns, NEW pc, NEW k, Becomes(t, pc, k), UNCHANGED <<proc, loops>>,
             t.pc \in Marking <=> pc \in Marking
      PROVE  MarksStay
  BY <1>0, <1>5, BecomesMarks
<1>6. ASSUME NEW t \in turns, NEW level, NEW n \in Sessions, Reply(t.msg, t.sess, level, n)
      PROVE  SessionsStay
  BY <1>0, <1>6, TurnSessions, ReplySessions DEF TypeOK, MarkerInv
<1>7. CASE User
  <2>1. SessionsStay  BY <1>0, <1>7, UserSessions DEF User, TypeOK
  <2> QED  BY <1>1, <1>3, <1>7, <2>1 DEF User, UserAction
<1>8. CASE Supervise
  <2>1. ASSUME NEW p \in Procs, Start(p) PROVE MarkerTruthful'
    <3>1. \A l \in Loops : l[1] = p => ~Alive(l)
      BY <2>1 DEF Start, MarkerInv, OffHoldsNothing
    <3>2. \A q \in Procs : q # p => proc'[q] = proc[q]  BY <1>0, <2>1 DEF Start, TypeOK
    <3>3. MarksStay  BY <2>1, <3>1, <3>2, LoopParts, SameTurnsMarks DEF Start, Alive
    <3> QED  BY <1>1, <1>2, <2>1, <3>3 DEF Start
  <2>2. ASSUME NEW l \in Loops, Leave(l) PROVE MarkerTruthful'
    <3>1. \A k \in Loops : Alive(k)' => Alive(k)
      BY <1>0, <2>2 DEF Leave, TypeOK, Alive, Loop
    <3>2. MarksStay  BY <2>2, <3>1, SameTurnsMarks DEF Leave
    <3> QED  BY <1>1, <1>2, <2>2, <3>2 DEF Leave
  <2>3. ASSUME NEW p \in Procs, Exit(p) PROVE MarkerTruthful'
    BY <1>0, <1>4, <2>3 DEF Exit, Vanish, TypeOK
  <2> QED  BY <1>8, <2>1, <2>2, <2>3, JoinMarkers DEF Supervise
<1>9. ASSUME NEW l \in Loops, Poll(l) PROVE MarkerTruthful'
  <2>1. SessionsStay /\ proc' = proc /\ uncleared' = uncleared
    BY <1>2, <1>9 DEF Poll, Fetch, Submit, Halt, LoopEnds
  <2>2. \A k \in Loops : Alive(k)' => Alive(k)
    <3>1. \A k \in Loops : k # l => loops'[k] = loops[k]
      BY <1>0, <1>9 DEF Poll, Fetch, Submit, Halt, LoopEnds, TypeOK
    <3>2. Alive(l)  BY <1>9 DEF Poll, Fetch, Submit, Halt, LoopEnds, Alive
    <3> QED  BY <3>1, <3>2 DEF Alive
  <2>3. CASE turns' = turns  BY <1>1, <2>1, <2>2, <2>3, SameTurnsMarks
  <2>4. CASE Submit(l)
    <3> DEFINE new == {NewTurn(l, i) : i \in Picked(l)}
    <3>1. turns' = turns \cup new /\ \A u \in new : u.pc = "queued"
      BY <2>4 DEF Submit, NewTurn
    <3> HIDE DEF new
    <3>2. MarksStay  BY <2>1, <2>2, <3>1 DEF MarksStay, SameMark, Marking
    <3> QED  BY <1>1, <2>1, <3>2
  <2> QED  BY <1>9, <2>3, <2>4 DEF Poll, Fetch, Halt, LoopEnds
<1>10. ASSUME NEW t \in turns, Work(t) PROVE MarkerTruthful'
  <2>1. CASE TurnStart(t) \/ ClearMarker(t)  BY <2>1, TurnMarkers
  <2>2. CASE Skip(t) \/ Load(t)
    <3>1. SessionsStay /\ uncleared' = uncleared  BY <1>2, <2>2 DEF Skip, Load
    <3>2. MarksStay  BY <1>5, <2>2 DEF Skip, Load, Moves, Marking
    <3> QED  BY <1>1, <3>1, <3>2
  <2>3. ASSUME NEW level \in Levels, NEW n \in Sessions, PostReply(t, level, n)
        PROVE  MarkerTruthful'
    <3>1. SessionsStay /\ uncleared' = uncleared  BY <1>6, <2>3 DEF PostReply
    <3>2. MarksStay  BY <1>5, <2>3 DEF PostReply, Moves, Marking
    <3> QED  BY <1>1, <3>1, <3>2
  <2>4. CASE Release(t)
    <3>1. SessionsStay /\ uncleared' = uncleared  BY <1>2, <2>4 DEF Release
    <3>2. \A l \in Loops : Alive(l)' => Alive(l)
      BY <1>0, <2>4 DEF Release, Alive, TypeOK, Loop
    <3>3. t.pc \notin Marking /\ turns' = turns \ {t} /\ proc' = proc
      BY <2>4 DEF Release, Marking
    <3>4. MarksStay  BY <3>2, <3>3 DEF MarksStay, SameMark
    <3> QED  BY <1>1, <3>1, <3>4
  <2> QED  BY <1>10, <2>1, <2>2, <2>3, <2>4 DEF Work
<1>11. CASE Failure
  <2>1. ASSUME NEW p \in Procs, Sigterm(p) \/ Kill(p) PROVE MarkerTruthful'
    <3>1. proc'[p] # "up"  BY <1>0, <2>1 DEF Sigterm, Kill, Vanish, TypeOK
    <3> QED  BY <1>4, <3>1
  <2>2. ASSUME NEW t \in turns, TurnStartFails(t) PROVE MarkerTruthful'
    <3>1. SessionsStay /\ uncleared' = uncleared  BY <1>2, <2>2 DEF TurnStartFails
    <3>2. MarksStay  BY <1>5, <2>2 DEF TurnStartFails, Takable, Moves, Marking
    <3> QED  BY <1>1, <3>1, <3>2
  <2>3. ASSUME NEW t \in turns, TurnRaises(t) \/ HandlerFails(t) PROVE MarkerTruthful'
    <3>1. SessionsStay /\ uncleared' = uncleared
      BY <1>2, <2>3 DEF TurnRaises, HandlerFails
    <3>2. MarksStay  BY <1>5, <2>3 DEF TurnRaises, HandlerFails, Moves, Marking
    <3> QED  BY <1>1, <3>1, <3>2
  <2>4. ASSUME NEW t \in turns, t.pc = "thinking", AfterFailedCall(t), UNCHANGED <<proc, loops>>
        PROVE  MarksStay
    BY <1>5, <2>4 DEF AfterFailedCall, Moves, Marking
  <2>5. ASSUME NEW t \in turns, PostFails(t) PROVE MarkerTruthful'
    BY <1>1, <1>2, <2>4, <2>5 DEF PostFails
  <2>6. ASSUME NEW t \in turns, NEW level \in Levels, NEW n \in Sessions,
               PostReplyLost(t, level, n)
        PROVE  MarkerTruthful'
    BY <1>1, <1>6, <2>4, <2>6 DEF PostReplyLost
  <2> QED  BY <1>11, <2>1, <2>2, <2>3, <2>5, <2>6, TurnMarkers DEF Failure
<1>12. CASE UNCHANGED vars  BY <1>1, <1>2, <1>3, <1>12 DEF vars
<1> QED  BY <1>7, <1>8, <1>9, <1>10, <1>11, <1>12 DEF Next

\* Where one process serves the shells, what it shows as a session's turn in
\* flight is the message whose turn runs: no marker of an earlier run or thread
\* survives, and of a turn's own only one whose clearing failed, not beyond the
\* start of the session's next turn.
THEOREM MarkersTrue ==
    ASSUME \A p, q \in Procs : p = q
    PROVE  Spec => []MarkerTruthful
<1>1. Init => MarkerInv
  <2> SUFFICES ASSUME Init PROVE MarkerInv  OBVIOUS
  <2>1. \A l \in Loops : ~Alive(l)  BY DEF Init, Alive, Absent
  <2>2. MessageIds = {}  BY DEF Init, ChatInit, MessageIds
  <2> QED  BY <2>1, <2>2 DEF MarkerInv, MarkerTruthful, RowsInSessions, OffHoldsNothing
<1>2. IInv /\ MarkerInv /\ [Next]_vars => MarkerInv'
  <2> SUFFICES ASSUME IInv, MarkerInv, [Next]_vars PROVE MarkerInv'  OBVIOUS
  <2> QED
    BY StepFacts, MarkerTruthKept, RowsInSessionsKept, OffKept DEF MarkerInv
<1>3. MarkerInv => MarkerTruthful  BY DEF MarkerInv
<1> QED  BY <1>1, <1>2, <1>3, Inductive, PTL DEF Spec
=============================================================================
