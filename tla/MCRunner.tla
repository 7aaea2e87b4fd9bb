------------------------------ MODULE MCRunner ------------------------------
(* Small instances of Runner for TLC. *)
EXTENDS Runner, TLC

CONSTANTS a, b, c, p, q

\* Two calls in one process, and three in two.
OneProcess   == a :> p @@ b :> p
TwoProcesses == a :> p @@ b :> p @@ c :> q
ReuseOnly    == b :> p @@ c :> q

\* One call refreshes an old image, one pulls always, one only what is absent.
Refreshing == a :> "age" @@ b :> "always" @@ c :> "default"
Defaults   == [r \in Runs |-> "default"]

Symmetry == Permutations(Ids)
=============================================================================
