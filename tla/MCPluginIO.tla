----------------------------- MODULE MCPluginIO -----------------------------
(* PluginIO for TLC: the HAL's clients are interchangeable.                *)
EXTENDS PluginIO, TLC

Interchangeable == Permutations(Clients)
=============================================================================
