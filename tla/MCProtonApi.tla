---------------------------- MODULE MCProtonApi -----------------------------
(* The programs of the run: one that keeps to every rule, and one whose      *)
(* threads only take turns at scopes.                                        *)
EXTENDS ProtonApi, TLC

MCRuleSets == {RuleNames, {"one thread"}}

Symmetric ==
  Permutations(Paths) \cup Permutations(Names) \cup Permutations(Threads)
    \cup Permutations(Profilers)
=============================================================================
