--------------------------- MODULE MCBrowserSession ---------------------------
(* Small instances of BrowserSession.                                      *)
EXTENDS BrowserSession, TLC

Symmetry == Permutations(Tab) \cup Permutations(Call)
=============================================================================
