-------------------------- MODULE MCOrderLifecycle --------------------------
(* The configurations MCOrderLifecycle*.cfg instantiate OrderLifecycle for    *)
(* TLC: an order of one product.                                              *)
EXTENDS OrderLifecycle

CONSTANT p1

OneItem == <<p1>>
=============================================================================
