--------------------------- MODULE BootDocument ---------------------------
(***************************************************************************)
(* shell_core/api/services/boot_document.py: the system prompt of a chat   *)
(* session, kept materialized in chat_sessions.boot_document.  Writers of  *)
(* the routes in routers/shells.py render it again in their transaction;   *)
(* GET session-start renders a column that is still NULL (a session older  *)
(* than migration 022); a turn of dispatch_live.py is its reader.          *)
(*                                                                         *)
(* A document is what it was rendered from: the shell's identity (its      *)
(* columns, entries and decisions) and the session's model.  Left out: the *)
(* chat itself, and the sections nothing promises to keep fresh (clock,    *)
(* projects, flags, the universal blocks; current state and connections,   *)
(* which PUT prompt-sections writes without a rendering; and skills and    *)
(* tools, whose grants render nothing either).                             *)
(***************************************************************************)
EXTENDS Naturals, FiniteSets

CONSTANTS Shells, Sessions, Clients,  \* Clients: PATCHes of sessions, side by side
          ShellOf,     \* the shell each session id belongs to
          OldSessions, \* sessions that exist at the start, with no document
          Workers,     \* turns that may run at once
          Texts, Models,
          DefaultModel, \* DISPATCH_MODEL
          NoModel,      \* model_id NULL
          NoDocument   \* boot_document NULL

ASSUME BootAssumption ==
    /\ ShellOf \in [Sessions -> Shells]
    /\ OldSessions \subseteq Sessions
    /\ Workers \in Nat \ {0}
    /\ DefaultModel \in Models /\ NoModel \notin Models

VARIABLES shell,   \* rows of shells with what hangs on them
          session, \* chat_sessions
          patch,   \* per client: an open PATCH of a session
          turn     \* per session: a turn of the dispatcher

vars == <<shell, session, patch, turn>>

Shell == [identity : Texts]

\* A session is pinned to a model, or to none.
Pins == Models \cup {NoModel}

\* torn is history: the document was written, or left in place, by a request
\* that had read what has changed since.
Document == [identity : Texts, model : Pins, torn : BOOLEAN]

ASSUME NullAssumption == NoDocument \notin Document

Session == [exists : BOOLEAN, active : BOOLEAN, model : Pins,
            doc : Document \cup {NoDocument}]

NoPatch == [open |-> FALSE]
\* An open PATCH knows the model it sets and whether that was another one.
Patch == [open : {TRUE}, session : Sessions, changed : BOOLEAN, new : Pins]

\* A turn has loaded its model (and its tools, left out), has also composed a
\* document that is still to be written, or has been given its prompt: the model
\* its document is for.  moved is history: the session's model has changed since
\* it was loaded, or the document was torn.
NoTurn == [pc |-> "none"]
Loaded == [pc : {"loaded"}, model : Models, moved : BOOLEAN]
Composing == [pc : {"composed"}, model : Models, moved : BOOLEAN, doc : Document]
Prompted == [pc : {"given"}, model : Models, moved : BOOLEAN, prompt : Pins]

Existing == {s \in Sessions : session[s].exists}
SessionsOf(sh) == {s \in Sessions : ShellOf[s] = sh}

(***************************************************************************)
(* Rendering                                                               *)
(***************************************************************************)

\* compose_boot_document at model m for a shell sh; at NoModel it names no model
\* and takes the dialect of Anthropic.
Compose(sh, m) == [identity |-> sh.identity, model |-> m, torn |-> FALSE]

\* Session s with its document rendered: rerender_boot_document.
Rendered(s, m, sh) == [session[s] EXCEPT !.model = m, !.doc = Compose(sh, m)]

\* rerender_shell_sessions, for shell id with its row become sh.
RenderAll(id, sh) ==
    [s \in Sessions |-> IF ShellOf[s] = id /\ session[s].active
                        THEN Rendered(s, session[s].model, sh)
                        ELSE session[s]]

\* A session that POST /chat/session or an auto-clear opens.
Opened(s, m) == [exists |-> TRUE, active |-> TRUE, model |-> m,
                 doc |-> Compose(shell[ShellOf[s]], m)]

\* The turns of S learn that what they loaded has changed.
Move(S) ==
    turn' = [s \in Sessions |-> IF s \in S /\ turn[s].pc # "none"
                                THEN [turn[s] EXCEPT !.moved = TRUE]
                                ELSE turn[s]]

(***************************************************************************)
(* Routes that write what documents render                                 *)
(***************************************************************************)

\* A mutant: the entry is written and the documents are left as they are.
WriteIdentityOnly(id, text) ==
    /\ shell' = [shell EXCEPT ![id].identity = text]
    /\ UNCHANGED <<session, patch, turn>>

\* PATCH /shells/{id}, an identity entry written or retired, a decision
\* written or changed: every active session is rendered again.
WriteIdentity(id, text) ==
    /\ shell' = [shell EXCEPT ![id].identity = text]
    /\ session' = RenderAll(id, shell'[id])
    /\ UNCHANGED <<patch, turn>>

(***************************************************************************)
(* Routes that open, retire and change sessions                            *)
(***************************************************************************)

\* POST /shells/{id}/chat/session
CreateSession(s, m) ==
    /\ s \notin Existing
    /\ session' = [x \in Sessions |-> IF x = s THEN Opened(s, m)
                                      ELSE [session[x] EXCEPT !.active =
                                              @ /\ ShellOf[x] # ShellOf[s]]]
    /\ UNCHANGED <<shell, patch, turn>>

\* A reply at the size limit of the context: s is retired, n takes its place.
AutoClear(s, n) ==
    /\ turn[s].pc = "given"
    /\ n \notin Existing /\ ShellOf[n] = ShellOf[s]
    /\ session' = [session EXCEPT ![s].active = FALSE, ![n] = Opened(n, session[s].model)]
    /\ turn' = [turn EXCEPT ![s] = NoTurn]
    /\ UNCHANGED <<shell, patch>>

\* POST .../clear and, for all sessions of a shell, DELETE /chat
Retire(S) ==
    /\ S \subseteq Existing /\ S # {}
    /\ session' = [s \in Sessions |-> [session[s] EXCEPT !.active = @ /\ s \notin S]]
    /\ UNCHANGED <<shell, patch, turn>>

\* PATCH .../sessions/{id} with a model_id reads the row as it was ...
PatchReads(c, s, m) ==
    /\ ~patch[c].open
    /\ s \in Existing
    /\ patch' = [patch EXCEPT ![c] = [open |-> TRUE, session |-> s,
                                      changed |-> m # session[s].model, new |-> m]]
    /\ UNCHANGED <<shell, session, turn>>

\* A mutant: the document is rendered before the model is updated.
WrittenEarly(p) ==
    LET s == p.session
    IN [session EXCEPT ![s] =
          IF p.changed
          THEN [Rendered(s, @.model, shell[ShellOf[s]]) EXCEPT !.model = p.new]
          ELSE [@ EXCEPT !.model = p.new]]

\* ... and writes the new model, in a transaction of its own.  The document is
\* rendered if the model differs from the one that was read.
Written(p) ==
    LET s == p.session
    IN [session EXCEPT ![s] =
          IF p.changed THEN Rendered(s, p.new, shell[ShellOf[s]])
          ELSE IF @.model = p.new \/ @.doc = NoDocument THEN [@ EXCEPT !.model = p.new]
          ELSE [@ EXCEPT !.model = p.new, !.doc.torn = TRUE]]

PatchWrites(c) ==
    /\ patch[c].open
    /\ session' = Written(patch[c])
    /\ Move({s \in Sessions : session'[s].model # session[s].model})
    /\ patch' = [patch EXCEPT ![c] = NoPatch]
    /\ UNCHANGED shell

(***************************************************************************)
(* A turn of the dispatcher                                                *)
(***************************************************************************)

\* resolve_model: the model a session calls.
Resolved(m) == IF m = NoModel THEN DefaultModel ELSE m

\* A mutant: the model of the session the shell has open now.
TurnLoadsActive(s) ==
    /\ s \in Existing /\ turn[s].pc = "none"
    /\ Cardinality({x \in Sessions : turn[x].pc # "none"}) < Workers
    /\ \E x \in Existing :
          /\ ShellOf[x] = ShellOf[s] /\ (session[x].active \/ x = s)
          /\ turn' = [turn EXCEPT ![s] = [pc |-> "loaded", model |-> Resolved(session[x].model),
                                          moved |-> FALSE]]
    /\ UNCHANGED <<shell, session, patch>>

\* resolve_model (and load_tools).
TurnLoads(s) ==
    /\ s \in Existing /\ turn[s].pc = "none"
    /\ Cardinality({x \in Sessions : turn[x].pc # "none"}) < Workers
    /\ turn' = [turn EXCEPT ![s] = [pc |-> "loaded", model |-> Resolved(session[s].model),
                                    moved |-> FALSE]]
    /\ UNCHANGED <<shell, session, patch>>

\* Turn t is given document d for its prompt.
Given(t, d) == [pc |-> "given", model |-> t.model, moved |-> t.moved \/ d.torn,
                prompt |-> d.model]

\* Turn t has composed document d and has still to write it.
Composed(t, d) == [pc |-> "composed", model |-> t.model, moved |-> t.moved, doc |-> d]

\* A mutant: a document that is not there is not rendered.
StartReadsColumn(s) ==
    /\ turn[s].pc = "loaded"
    /\ turn' = [turn EXCEPT ![s] =
                  IF session[s].doc # NoDocument THEN Given(@, session[s].doc)
                  ELSE [pc |-> "given", model |-> @.model, moved |-> @.moved,
                        prompt |-> NoDocument]]
    /\ UNCHANGED <<shell, session, patch>>

\* session_start_payload reads the column and, if it is NULL, composes.
SessionStart(s) ==
    /\ turn[s].pc = "loaded"
    /\ turn' = [turn EXCEPT ![s] =
                  IF session[s].doc # NoDocument THEN Given(@, session[s].doc)
                  ELSE Composed(@, Compose(shell[ShellOf[s]], session[s].model))]
    /\ UNCHANGED <<shell, session, patch>>

\* The composed document is written over whatever the column holds by now.
LazyWrite(s) ==
    LET now == Compose(shell[ShellOf[s]], session[s].model)
        doc == [turn[s].doc EXCEPT !.torn = turn[s].doc # now]
    IN /\ turn[s].pc = "composed"
       /\ session' = [session EXCEPT ![s].doc = doc]
       /\ turn' = [turn EXCEPT ![s] = Given(@, doc)]
       /\ UNCHANGED <<shell, patch>>

\* The turn is over, or session-start could not be reached or failed.
TurnEnds(s) ==
    /\ turn[s].pc # "none"
    /\ turn' = [turn EXCEPT ![s] = NoTurn]
    /\ UNCHANGED <<shell, session, patch>>

(***************************************************************************)
(* Specification                                                           *)
(***************************************************************************)

Init ==
    /\ shell \in [Shells -> Shell]
    /\ session \in [Sessions -> [exists : BOOLEAN, active : BOOLEAN, model : Pins,
                                 doc : {NoDocument}]]
    /\ \A s \in Sessions : /\ session[s].exists <=> s \in OldSessions
                           /\ session[s].active => session[s].exists
    /\ patch = [c \in Clients |-> NoPatch]
    /\ turn = [s \in Sessions |-> NoTurn]

Route ==
    \/ \E id \in Shells, text \in Texts : WriteIdentity(id, text)
    \/ \E s \in Sessions, m \in Pins : CreateSession(s, m)
    \/ \E s \in Sessions : Retire({s})
    \/ \E id \in Shells : Retire(SessionsOf(id) \cap Existing)
    \/ \E c \in Clients, s \in Sessions, m \in Pins : PatchReads(c, s, m)
    \/ \E c \in Clients : PatchWrites(c)

Dispatcher ==
    \E s \in Sessions : \/ TurnLoads(s)
                        \/ SessionStart(s)
                        \/ LazyWrite(s)
                        \/ \E n \in Sessions : AutoClear(s, n)
                        \/ TurnEnds(s)

Next == Route \/ Dispatcher

Spec == Init /\ [][Next]_vars

(***************************************************************************)
(* Properties                                                              *)
(***************************************************************************)

\* Every variable has its type; a turn that goes on has a document.
TypeOK ==
    /\ shell \in [Shells -> Shell]
    /\ session \in [Sessions -> Session]
    /\ patch \in [Clients -> Patch \cup {NoPatch}]
    /\ turn \in [Sessions -> {NoTurn} \cup Loaded \cup Composing \cup Prompted]

Whole(d) == d # NoDocument /\ ~d.torn

\* The document of an active session tells the shell's identity as it is now,
\* whatever order sessions are opened, retired, switched and lazily rendered in
\* (unless a lazy rendering has overtaken a newer one).
IdentityIsCurrent ==
    \A s \in Sessions :
        session[s].active /\ Whole(session[s].doc)
            => session[s].doc.identity = shell[ShellOf[s]].identity

\* A document, also a retired session's, is rendered for the session's model.
ModelIsCurrent ==
    \A s \in Sessions :
        Whole(session[s].doc) => session[s].doc.model = session[s].model

\* A turn is given a document for the model it calls, or, when its session is
\* pinned to none, one that names no model while DISPATCH_MODEL is called: never
\* a document for another model, unless the session's model has changed since it
\* was loaded.
TurnHasItsModel ==
    \A s \in Sessions :
        turn[s].pc = "given" /\ ~turn[s].moved => Resolved(turn[s].prompt) = turn[s].model
=============================================================================
