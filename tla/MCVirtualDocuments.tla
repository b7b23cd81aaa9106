------------------------- MODULE MCVirtualDocuments -------------------------
(***************************************************************************)
(* An instance of VirtualDocuments in which documents, requests and        *)
(* closings are interchangeable.                                           *)
(***************************************************************************)
EXTENDS VirtualDocuments, TLC

Symmetry ==
  Permutations(Docs) \cup Permutations(Requests) \cup Permutations(Closers)
=============================================================================
