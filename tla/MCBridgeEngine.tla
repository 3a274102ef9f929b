---------------------------- MODULE MCBridgeEngine ----------------------------
(* Small instances of BridgeEngine: files, contents and processes are        *)
(* interchangeable.                                                          *)
EXTENDS BridgeEngine, TLC

Symmetry == Permutations(File) \cup Permutations(Content)
=============================================================================
