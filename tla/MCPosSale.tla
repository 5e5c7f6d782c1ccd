------------------------------ MODULE MCPosSale ------------------------------
(* The configurations MCPosSale*.cfg instantiate PosSale for TLC: item lists  *)
(* that cross, one of which names a row twice, and one with a variant.        *)
EXTENDS PosSale

CONSTANTS tea, mug, cup

OneOf(w) == [row |-> w, quantity |-> 1]

CrossingBaskets ==
  {<<OneOf(tea), OneOf(mug)>>, <<OneOf(mug), OneOf(tea), OneOf(tea)>>,
   <<OneOf(cup), OneOf(mug)>>}

SingleItem == {<<OneOf(tea)>>}
=============================================================================
