--------------------------- MODULE MCFeatureStore ---------------------------
EXTENDS FeatureStore, TLC

\* Rows are handed to warps in every way: the warps of a kernel are alike.
WarpSymmetry == Permutations(Warps)
=============================================================================
