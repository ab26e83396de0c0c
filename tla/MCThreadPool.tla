---------------------------- MODULE MCThreadPool -----------------------------
(* A list with equal elements, of two full blocks of two and a rest.       *)
EXTENDS ThreadPool

List == <<2, 1, 2, 1, 3>>
=============================================================================
