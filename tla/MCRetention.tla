---------------------------- MODULE MCRetention ----------------------------
(* Retention on a small instance: the requests are alike.                  *)
EXTENDS Retention, TLC

Symmetry == Permutations(Clients)

=============================================================================
