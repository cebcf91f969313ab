----------------------------- MODULE MCStartup -----------------------------
(* A small instance of Startup: two runs of migrate.py, a migration that     *)
(* fails and one that creates a table and can be applied again, both        *)
(* released at any time; and two dependencies, a path and that table.       *)
EXTENDS Startup, TLC

MCTargets == <<"deps", "filepaths", "db">>
MCEntries == [deps |-> {"httpx", "vite"}, filepaths |-> {"Makefile"}, db |-> {"dr_page"}]
MCTableOf == [dr_page |-> 2]
=============================================================================
