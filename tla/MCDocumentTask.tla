--------------------------- MODULE MCDocumentTask ---------------------------
(* DocumentTask for model checking: ids of requests, deliveries and         *)
(* documents are interchangeable.                                           *)
EXTENDS DocumentTask, TLC

TaskSymmetry ==
  Permutations(Requests) \cup Permutations(Runs) \cup Permutations(Docs)
=============================================================================
