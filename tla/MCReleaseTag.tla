---------------------------- MODULE MCReleaseTag ---------------------------
(***************************************************************************)
(* Two releasers and three commits: the first may be released, and each of *)
(* its two children lacks one thing, green tests or the version.           *)
(***************************************************************************)
EXTENDS ReleaseTag, TLC

CONSTANTS c1, c2, c3

MCAncestors == (c1 :> {c1}) @@ (c2 :> {c1, c2}) @@ (c3 :> {c1, c3})
Symmetry == Permutations(Releasers)
=============================================================================
