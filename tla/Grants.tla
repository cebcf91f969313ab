------------------------------- MODULE Grants -------------------------------
(***************************************************************************)
(* Skills and tools of shells: what bootstrap seeds and attaches           *)
(* (scripts/db_init.py), and the routes that create shells and skills and  *)
(* hand them out (routers/shells.py, routers/admin.py).  A turn may call   *)
(* the general tools and those granted to its shell; a skill brings its    *)
(* tools once, when it is attached.                                        *)
(*                                                                         *)
(* Abstractions.  A skill or a tool is a row; names, texts and the status  *)
(* of a tool, which nothing changes, are left out.                         *)
(***************************************************************************)
EXTENDS FiniteSets

CONSTANTS Shells, Skills, Tools, \* rows that may ever be there
          Forge, ExpPrime,   \* the two shells of a fresh database
          Shipped,           \* skills under assets/skills
          ForgeSkills,       \* what forge.md names
          Requires           \* skill_map: shipped skills and the tools they need

VARIABLES booting, \* bootstrap.py runs
          stage,   \* the seeds that are committed
          skills,  \* skills
          links,   \* skill_tools
          general, \* tools.is_general
          held,    \* shell_skills, for the shells that exist
          granted, \* shell_tools
          taken    \* history: tools removed from a shell by hand

vars == <<booting, stage, skills, links, general, held, granted, taken>>

\* No shell yet, or its skills.
NoShell == [exists |-> FALSE, skills |-> {}]

Existing == {s \in Shells : held[s].exists}
Live == {k \in Skills : skills[k].live}
Common == {k \in Live : skills[k].common}

\* What skills K require.
RequiredBy(K) == {t \in Tools : \E k \in K : <<k, t>> \in links}

\* load_tools and render_tools: general tools and direct grants.
Effective(s) == general \cup granted[s]

\* Shell s, created or not, with skills K attached: shell_skills, and the tools
\* materialised from all the skills it has now.
Attach(s, K) ==
    LET all == held[s].skills \cup K IN
    /\ held' = [held EXCEPT ![s] = [exists |-> TRUE, skills |-> all]]
    /\ granted' = [granted EXCEPT ![s] = @ \cup RequiredBy(all)]
    /\ taken' = taken \ ({s} \X RequiredBy(all))

(***************************************************************************)
(* bootstrap.py                                                            *)
(***************************************************************************)

\* seed_skills: every shipped skill that is missing.
SeedSkills ==
    /\ booting /\ stage = "none"
    /\ \E common \in SUBSET Shipped :
          skills' = [k \in Skills |-> IF k \in Shipped THEN [live |-> TRUE, common |-> k \in common]
                                      ELSE skills[k]]
    /\ stage' = "skills"
    /\ UNCHANGED <<booting, links, general, held, granted, taken>>

EnsureForge ==
    /\ booting /\ stage = "skills"
    /\ Attach(Forge, ForgeSkills)
    /\ stage' = "forge"
    /\ UNCHANGED <<booting, skills, links, general>>

SeedExpPrime ==
    /\ booting /\ stage = "forge"
    /\ Attach(ExpPrime, Common)
    /\ stage' = "prime"
    /\ UNCHANGED <<booting, skills, links, general>>

\* seed_tools: the tools, which skills require them, and which are general.
\* "No per-shell grant is written here."
SeedTools ==
    /\ booting /\ stage = "prime"
    /\ links' = {kt \in Shipped \X Tools : kt[2] \in Requires[kt[1]]}
    /\ general' = {t \in Tools : \A k \in Shipped : t \notin Requires[k]}
    /\ stage' = "done" /\ booting' = FALSE
    /\ UNCHANGED <<skills, held, granted, taken>>

\* It ends early, and a database it leaves is never seeded again.
BootAbort ==
    /\ booting
    /\ booting' = FALSE
    /\ UNCHANGED <<stage, skills, links, general, held, granted, taken>>

(***************************************************************************)
(* Routes                                                                  *)
(***************************************************************************)

Served == ~booting

\* POST /shells, with the common skills or none and some others.
CreateShell(s, K) ==
    /\ Served
    /\ s \notin Existing \cup {Forge, ExpPrime}
    /\ K \subseteq Live
    /\ \/ Attach(s, K)
       \/ Attach(s, Common \cup K)
    /\ UNCHANGED <<booting, stage, skills, links, general>>

\* The shell of a new user has the skills of Exp-Prime, deleted ones too.
CreateUserShell(s) ==
    /\ Served
    /\ s \notin Existing \cup {Forge, ExpPrime}
    /\ Attach(s, held[ExpPrime].skills)
    /\ UNCHANGED <<booting, stage, skills, links, general>>

\* POST /admin/shells/{id}/skills: the tools of this skill alone.
AddSkill(s, k) ==
    /\ Served
    /\ s \in Existing /\ k \in Live \ held[s].skills
    /\ held' = [held EXCEPT ![s].skills = @ \cup {k}]
    /\ granted' = [granted EXCEPT ![s] = @ \cup RequiredBy({k})]
    /\ taken' = taken \ ({s} \X RequiredBy({k}))
    /\ UNCHANGED <<booting, stage, skills, links, general>>

\* DELETE of it: "tools materialised from it stay".
RemoveSkill(s, k) ==
    /\ Served
    /\ k \in held[s].skills
    /\ held' = [held EXCEPT ![s].skills = @ \ {k}]
    /\ UNCHANGED <<booting, stage, skills, links, general, granted, taken>>

\* POST /admin/shells/{id}/tools: a tool of the registry that is not general.
AddTool(s, t) ==
    /\ Served /\ stage = "done"
    /\ s \in Existing
    /\ t \notin general \cup granted[s]
    /\ granted' = [granted EXCEPT ![s] = @ \cup {t}]
    /\ taken' = taken \ {<<s, t>>}
    /\ UNCHANGED <<booting, stage, skills, links, general, held>>

RemoveTool(s, t) ==
    /\ Served
    /\ t \in granted[s]
    /\ granted' = [granted EXCEPT ![s] = @ \ {t}]
    /\ taken' = taken \cup {<<s, t>>}
    /\ UNCHANGED <<booting, stage, skills, links, general, held>>

\* POST /admin/skills: no route links a tool to it.
CreateSkill(k, common) ==
    /\ Served
    /\ k \notin Live \cup Shipped
    /\ \A s \in Shells : k \notin held[s].skills
    /\ skills' = [skills EXCEPT ![k] = [live |-> TRUE, common |-> common]]
    /\ UNCHANGED <<booting, stage, links, general, held, granted, taken>>

\* PATCH /admin/skills/{id}.
UpdateSkill(k) ==
    /\ Served
    /\ k \in Live
    /\ skills' = [skills EXCEPT ![k].common = ~@]
    /\ UNCHANGED <<booting, stage, links, general, held, granted, taken>>

\* DELETE /admin/skills/{id}: the row, its links and its attachments stay.
DeleteSkill(k) ==
    /\ Served
    /\ k \in Live
    /\ skills' = [skills EXCEPT ![k].live = FALSE]
    /\ UNCHANGED <<booting, stage, links, general, held, granted, taken>>

Init ==
    /\ booting = TRUE /\ stage = "none"
    /\ skills = [k \in Skills |-> [live |-> FALSE, common |-> FALSE]]
    /\ links = {} /\ general = {}
    /\ held = [s \in Shells |-> NoShell]
    /\ granted = [s \in Shells |-> {}]
    /\ taken = {}

Next ==
    \/ SeedSkills \/ EnsureForge \/ SeedExpPrime \/ SeedTools \/ BootAbort
    \/ \E s \in Shells, K \in SUBSET Skills : CreateShell(s, K)
    \/ \E s \in Shells : CreateUserShell(s)
    \/ \E s \in Shells, k \in Skills : AddSkill(s, k) \/ RemoveSkill(s, k)
    \/ \E s \in Shells, t \in Tools : AddTool(s, t) \/ RemoveTool(s, t)
    \/ \E k \in Skills, common \in BOOLEAN : CreateSkill(k, common)
    \/ \E k \in Skills : UpdateSkill(k) \/ DeleteSkill(k)

Spec == Init /\ [][Next]_vars

(***************************************************************************)
(* Properties                                                              *)
(***************************************************************************)

\* "Assigning the skill to a shell materialises these into shell_tools"
\* (schema.sql): a shell may call what its skills require, unless an admin has
\* taken the tool away.
SkillsBringTools ==
    \A s \in Shells : \A t \in RequiredBy(held[s].skills) :
        t \in Effective(s) \/ <<s, t>> \in taken
=============================================================================
