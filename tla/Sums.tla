--------------------------------- MODULE Sums ---------------------------------
(***************************************************************************)
(* Sums over finite sets, as the code's loops and the SUM of its queries add *)
(* up quantities, amounts and sizes.  SumsProofs has the facts about them.   *)
(***************************************************************************)
EXTENDS FiniteSetsExt

\* The sum of f[x] over the members x of S.
SumOver(f, S) == MapThenSumSet(LAMBDA x : f[x], S)
=============================================================================
