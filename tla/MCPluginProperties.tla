------------------------- MODULE MCPluginProperties -------------------------
EXTENDS PluginProperties, TLC

\* Threads, names and directions are all alike.
Interchangeable == Permutations(Threads) \cup Permutations(Names) \cup Permutations(Directions)
=============================================================================
