------------------------------ MODULE MCDCFilter ------------------------------
EXTENDS DCFilter, TLC

\* The clients are interchangeable.
Interchangeable == Permutations(Clients)
=============================================================================
