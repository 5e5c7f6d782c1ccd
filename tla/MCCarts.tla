------------------------------- MODULE MCCarts -------------------------------
(* The configuration MCCarts.cfg instantiates Carts for TLC: a customer with  *)
(* or without a cart, a browser with a guest cart or the customer's own, and  *)
(* one without a cookie.                                                      *)
EXTENDS Carts

CONSTANTS b1, b2, k1, k1r, k2

\* k1r is k1 with its options in another order.
Sorted == [k \in Key |-> IF k = k1r THEN k1 ELSE k]

Of(kind, b, k, n) == [kind |-> kind, browser |-> b, key |-> k, quantity |-> n]
Row(c, k, n) == [cart |-> c, key |-> k, quantity |-> n, total |-> n]
Held(h, n) == [holder |-> h, items |-> n, amount |-> n]

FewOps ==
  {Of("add", b1, k1, 1), Of("set", b2, k1, 2), Of("remove", b2, k1, 1),
   Of("login", b1, k1, 1), Of("login", b2, k1, 1), Of("order", b2, k1, 1)}

\* b1 holds a guest cart with one product twice, its options in two orders, and b2
\* the customer's cart with that product; or b2 holds a second guest cart and the
\* customer has none; or b1's cart is empty and b2 has no cookie.  The cron runs
\* no more in the first case, once in the second and twice in the third.
ThreeStarts ==
  {[carts |-> <<Held("guest", 2), Held("customer", 1)>>,
    rows |-> <<Row(1, k1, 1), Row(1, k1r, 1), Row(2, k1, 1)>>,
    cookie |-> [b \in Browser |-> IF b = b1 THEN 1 ELSE 2], runs |-> 2],
   [carts |-> <<Held("guest", 1), Held("guest", 1)>>,
    rows |-> <<Row(1, k1, 1), Row(2, k1, 1)>>,
    cookie |-> [b \in Browser |-> IF b = b1 THEN 1 ELSE 2], runs |-> 1],
   [carts |-> <<Held("guest", 0), Held("customer", 2)>>,
    rows |-> <<Row(2, k2, 2)>>,
    cookie |-> [b \in Browser |-> IF b = b1 THEN 1 ELSE 0], runs |-> 0]}

Symmetric == Permutations(Request) \cup Permutations(Instance)
=============================================================================
