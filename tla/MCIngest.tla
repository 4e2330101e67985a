------------------------------ MODULE MCIngest ------------------------------
EXTENDS Ingest

(* A scanned page before and after one with a text layer, and a page that  *)
(* cannot be read.                                                         *)
MCPages == <<"scan", "text", "broken", "scan">>

(* The four ways get_provider and chat_model can come out.                 *)
MCSettings ==
    {[name |-> "remote", key |-> TRUE, package |-> TRUE],
     [name |-> "remote", key |-> TRUE, package |-> FALSE],
     [name |-> "remote", key |-> FALSE, package |-> TRUE],
     [name |-> "ollama", key |-> FALSE, package |-> TRUE]}
=============================================================================
