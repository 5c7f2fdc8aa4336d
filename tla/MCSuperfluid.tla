---------------------------- MODULE MCSuperfluid ----------------------------
(* Constants of the superfluid runs *)
EXTENDS Superfluid

Half == <<1, 2>>

\* With half of it at risk a share is worth one osmo: without rounding for the first
\* multiplier, and for the second one share is worth as much as two.
SmallMultipliers == {<<2, 1>>, <<1, 1>>}
=============================================================================
