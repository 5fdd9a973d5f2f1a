--------------------------- MODULE MCFeedHandler ---------------------------
EXTENDS FeedHandler, TLC

RefSymmetry == Permutations(Refs \ {NullRef})
=============================================================================
