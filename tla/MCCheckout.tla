----------------------------- MODULE MCCheckout -----------------------------
(* The configurations MCCheckout*.cfg instantiate Checkout for TLC.  Requests *)
(* are model values; liveness is checked, so no symmetry is declared.         *)
EXTENDS Checkout
=============================================================================
