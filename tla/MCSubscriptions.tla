-------------------------- MODULE MCSubscriptions --------------------------
(* Two proxies that may be exchanged for one another. *)
EXTENDS Subscriptions, TLC

CONSTANTS p1, p2

Symmetry == Permutations({p1, p2})

=============================================================================
