------------------------------- MODULE Chat -------------------------------
(***************************************************************************)
(* The two chat tables of schema.sql and the routes of                     *)
(* shell_core/api/routers/shells.py (and one of admin.py) that write them. *)
(* A route body is one SQLite write transaction, so it is one action here; *)
(* the dispatcher's own writes are in module Dispatcher.                   *)
(*                                                                         *)
(* Abstractions.  A message body is left out.  message_id is the position  *)
(* of a row in messages, which is also its place in the order (sent_at,    *)
(* message_id).  A turn's token count is one of three levels: below the    *)
(* warning threshold, at or above it, at or above the auto-clear one.      *)
(* Each session id (a fresh uuid) is set aside for one shell by ShellOf.   *)
(***************************************************************************)
EXTENDS Naturals, Sequences, FiniteSets

CONSTANTS Shells,      \* rows of shells, all owned by one user
          Sessions,    \* the ids chat_sessions may use
          ShellOf,     \* the shell each session id belongs to
          FirstOf,     \* sessions that exist at the start
          Window,      \* users.chat_history_window
          Levels,      \* the token levels a turn may reach
          MaxMessages, \* a bound: messages users write
          MaxRows      \* a bound: rows at which users stop switching models

ASSUME ChatAssumption ==
    /\ ShellOf \in [Sessions -> Shells]
    /\ FirstOf \subseteq Sessions
    /\ Window \in Nat \ {0}
    /\ Levels \subseteq {"low", "warn", "clear"}
    /\ MaxMessages \in Nat
    /\ MaxRows \in Nat

VARIABLES messages,      \* chat_messages, in message_id order
          sessions,      \* chat_sessions
          browser        \* shells.browser_chat

chatVars == <<messages, sessions, browser>>

\* kind is the column direction, its outbound rows split in a model's replies
\* and the notices the API writes (model switched, context large, cleared).
Row == [kind : {"inbound", "reply", "notice"}, sess : Sessions,
        read : BOOLEAN, deleted : BOOLEAN]

Session == [exists : BOOLEAN, active : BOOLEAN, warned : BOOLEAN, marker : Nat]

NoRowYet == [exists |-> FALSE, active |-> FALSE, warned |-> FALSE, marker |-> 0]
Fresh == [exists |-> TRUE, active |-> TRUE, warned |-> FALSE, marker |-> 0]

NewRow(k, s) == [kind |-> k, sess |-> s, read |-> FALSE, deleted |-> FALSE]

Existing == {s \in Sessions : sessions[s].exists}
MessageIds == DOMAIN messages
InboundIds == {i \in MessageIds : messages[i].kind = "inbound"}

(***************************************************************************)
(* Queries on the tables                                                   *)
(***************************************************************************)

\* The rows the dispatcher has still to serve: inbound, unread, not deleted.
Pending == {i \in InboundIds : ~messages[i].read /\ ~messages[i].deleted}

Visible(s) == {i \in MessageIds : messages[i].sess = s /\ ~messages[i].deleted}

\* ms with the rows in S soft-deleted.
SoftDelete(ms, S) ==
    [i \in DOMAIN ms |-> IF i \in S THEN [ms[i] EXCEPT !.deleted = TRUE] ELSE ms[i]]

ClearRows(ms, s) == SoftDelete(ms, {i \in DOMAIN ms : ms[i].sess = s})

(***************************************************************************)
(* Routes                                                                  *)
(***************************************************************************)

\* POST /shells/{id}/chat: a user's message, into any session the tab holds,
\* also one that has been retired since.
PostChat(s) ==
    /\ Cardinality(InboundIds) < MaxMessages
    /\ s \in Existing
    /\ messages' = Append(messages, NewRow("inbound", s))
    /\ UNCHANGED <<sessions, browser>>

\* POST /shells/{id}/chat/session: retires the shell's sessions, opens s.
CreateSession(s) ==
    /\ s \notin Existing
    /\ sessions' = [x \in Sessions |->
                      IF x = s THEN Fresh
                      ELSE IF ShellOf[x] = ShellOf[s]
                           THEN [sessions[x] EXCEPT !.active = FALSE]
                           ELSE sessions[x]]
    /\ UNCHANGED <<messages, browser>>

\* PATCH .../sessions/{id} with a different model_id: posts a marker message.
SwitchModel(s) ==
    /\ Len(messages) < MaxRows
    /\ s \in Existing
    /\ messages' = Append(messages, NewRow("notice", s))
    /\ UNCHANGED <<sessions, browser>>

\* POST .../sessions/{id}/clear: retires s and deletes every row of it, the
\* ones nobody has served yet included.
ClearSession(s) ==
    /\ s \in Existing
    /\ sessions' = [sessions EXCEPT ![s].active = FALSE]
    /\ messages' = ClearRows(messages, s)
    /\ UNCHANGED browser

\* DELETE /shells/{id}/chat, up to message before or, with before = 0, all.
DeleteChat(sh, before) ==
    LET chosen == {i \in MessageIds : /\ ShellOf[messages[i].sess] = sh
                                      /\ before = 0 \/ i <= before}
    IN /\ messages' = SoftDelete(messages, chosen)
       /\ sessions' = [x \in Sessions |-> IF ShellOf[x] = sh
                                          THEN [sessions[x] EXCEPT !.active = FALSE]
                                          ELSE sessions[x]]
       /\ UNCHANGED browser

\* PATCH /shells/{id}/activate: sh becomes the user's one browser-chat target.
ActivateShell(sh) ==
    /\ browser' = [x \in Shells |-> x = sh]
    /\ UNCHANGED <<messages, sessions>>

\* PATCH /admin/shells/{id}/browser-chat: flips sh, and when it turns sh on
\* turns the user's other shells off.
ToggleBrowserChat(sh) ==
    /\ browser' = [x \in Shells |-> IF x = sh THEN ~browser[sh]
                                    ELSE browser[x] /\ browser[sh]]
    /\ UNCHANGED <<messages, sessions>>

\* POST /shells/{id}/chat/reply: marks the source read, appends the reply and,
\* by the size of the context, a warning (once) or a replacement session n.
Reply(m, s, level, n) ==
    LET warnNow  == level # "low" /\ ~sessions[s].warned
        replied  == Append([messages EXCEPT ![m].read = TRUE],
                           NewRow("reply", s))
        warned   == IF warnNow THEN Append(replied, NewRow("notice", s)) ELSE replied
        rewarned == [sessions EXCEPT ![s].warned = @ \/ warnNow]
    IN /\ UNCHANGED browser
       /\ \/ /\ level # "clear"
             /\ n = s
             /\ messages' = warned
             /\ sessions' = rewarned
          \/ /\ level = "clear"
             /\ n \in Sessions \ Existing
             /\ ShellOf[n] = ShellOf[s]
             /\ messages' = Append(ClearRows(warned, s), NewRow("notice", n))
             /\ sessions' = [rewarned EXCEPT ![s].active = FALSE, ![n] = Fresh]

(***************************************************************************)
(* Everything a person does through the UI                                 *)
(***************************************************************************)

ChatInit ==
    /\ messages = << >>
    /\ sessions = [s \in Sessions |-> IF s \in FirstOf THEN Fresh ELSE NoRowYet]
    /\ browser \in [Shells -> BOOLEAN]
    /\ \A x, y \in Shells : browser[x] /\ browser[y] => x = y

UserAction ==
    \/ \E s \in Sessions : PostChat(s)
    \/ \E s \in Sessions : CreateSession(s)
    \/ \E s \in Sessions : SwitchModel(s)
    \/ \E s \in Sessions : ClearSession(s)
    \/ \E sh \in Shells, b \in 0..Len(messages) : DeleteChat(sh, b)
    \/ \E sh \in Shells : ActivateShell(sh)
    \/ \E sh \in Shells : ToggleBrowserChat(sh)

ChatTypeOK ==
    /\ messages \in Seq(Row)
    /\ sessions \in [Sessions -> Session]
    /\ browser \in [Shells -> BOOLEAN]
=============================================================================
