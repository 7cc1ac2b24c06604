---------------------------- MODULE MCNativeLoop ----------------------------
EXTENDS NativeLoop, TLC
CONSTANTS c1, c2, c3, ordinary, rewake, startup
CallsSym == Permutations(Calls)
=============================================================================
