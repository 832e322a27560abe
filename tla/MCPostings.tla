----------------------------- MODULE MCPostings -----------------------------
(***************************************************************************)
(* A small instance of Postings: lists of up to five documents.            *)
(***************************************************************************)
EXTENDS Postings

CONSTANT MaxDoc

MCDocs == 0 .. MaxDoc
=============================================================================
