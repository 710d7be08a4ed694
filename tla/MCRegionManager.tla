-------------------------- MODULE MCRegionManager --------------------------
EXTENDS RegionManager

\* Regions differ only by name, and so do cores.
Symmetry == Permutations(Region) \cup Permutations(Core)

\* Explore a behaviour no further than the first mark on a temporal region.
UntilMixed == KindsSeparate
============================================================================
