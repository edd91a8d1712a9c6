-------------------------------- MODULE Lists --------------------------------
(***************************************************************************)
(* What loops over a list collect, in a form that can be reasoned about:   *)
(* the elements at a set of positions, in their order, and totals.         *)
(***************************************************************************)
EXTENDS Naturals, Sequences, FiniteSets

(* The nth lowest of a set of positions.                                   *)
Nth(K, n) == CHOOSE k \in K : Cardinality({j \in K : j <= k}) = n

Ascending(K) == [n \in 1 .. Cardinality(K) |-> Nth(K, n)]

Picked(s, K) == [n \in 1 .. Cardinality(K) |-> s[Nth(K, n)]]

(* The elements of s that are in S, and those that pass a test.            *)
Kept(s, S)           == Picked(s, {k \in DOMAIN s : s[k] \in S})
Filtered(s, Test(_)) == Kept(s, {x \in {s[k] : k \in DOMAIN s} : Test(x)})

(* The sum of the numbers a function or a list gives: one unit of each.    *)
Units(f) == UNION {{x} \X (1 .. f[x]) : x \in DOMAIN f}
Total(f) == Cardinality(Units(f))
==============================================================================
