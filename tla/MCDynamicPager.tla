--------------------------- MODULE MCDynamicPager ---------------------------
(* The instance of DynamicPager that TLC explores. *)
EXTENDS DynamicPager, TLC

\* An array of three items of size two exceeds a cache of five.
ThreeItems == [b \in Builder |-> 3]
SizeTwo == [b \in Builder |-> 2]
=============================================================================
