----------------------------- MODULE MCPhoneOrders -----------------------------
(* Two accounts and a registration after the same numbers; or one, beside a subscription.     *)
EXTENDS PhoneOrders, TLC

CONSTANTS a1, a2, w1, n1, n2, s1, r1, r2

Symmetry == Permutations({a1, a2}) \union Permutations({n1, n2}) \union Permutations({r1, r2})
=============================================================================
