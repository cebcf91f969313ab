-------------------------- MODULE MCModelRegistry --------------------------
(* A small instance of ModelRegistry: two models that Ollama may install, one of *)
(* them listed by Ollama Cloud too, and a remote catalogue of a seeded model and *)
(* a dated snapshot of it.                                                       *)
EXTENDS ModelRegistry, TLC

CONSTANTS qwen, oss, gpt, dated, r1

MCCatalogue == [ollama_cloud |-> {oss}, openai |-> {gpt, dated}]
MCSnapshotOf == [n \in {dated} |-> gpt]
=============================================================================
