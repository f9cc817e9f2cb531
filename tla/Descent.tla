------------------------------- MODULE Descent -------------------------------
(***************************************************************************)
(* Measures that show that something comes to an end: tuples of natural    *)
(* numbers, of which the first that changes gets smaller.                  *)
(***************************************************************************)
EXTENDS Naturals

Measures(n) == [1 .. n -> Nat]

Below(n, a, b) == \E k \in 1 .. n : a[k] < b[k] /\ \A j \in 1 .. k - 1 : a[j] = b[j]

=============================================================================
