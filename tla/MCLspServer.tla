----------------------------- MODULE MCLspServer -----------------------------
(***************************************************************************)
(* One document, two backend slots, a cache that holds one view.  The      *)
(* session starts with the document open, so that the messages of the      *)
(* bound are not spent on that.                                            *)
(***************************************************************************)
EXTENDS LspServer

CONSTANT OpenText

MCSpec == Session([u \in Uris |-> OpenText]) /\ [][Next]_vars /\ Fairness
==============================================================================
