---------------------------- MODULE MCBrowserStore ----------------------------
(* BrowserStore on small instances.                                        *)
EXTENDS BrowserStore, TLC

Symmetry == Permutations(Families)
=============================================================================
