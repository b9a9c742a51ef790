----------------------------- MODULE MCSessions -----------------------------
(* Handlers and session ids are interchangeable.                             *)
EXTENDS Sessions, TLC

Symmetry == Permutations(Logins) \cup Permutations(Refreshes) \cup Permutations(Rows)
=============================================================================
