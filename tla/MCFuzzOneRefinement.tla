------------------------ MODULE MCFuzzOneRefinement ------------------------
EXTENDS FuzzOneRefinement

MCNoSeeds == {}
=============================================================================
