--------------------------- MODULE MCPackageStore ---------------------------
(* q needs p and sorts before it.  Both install into a directory of their  *)
(* own, which their archives give the same name, and both install into     *)
(* lib.  Of what q installs in its own directory, its remove.js names some  *)
(* files only by a pattern.                                                *)
EXTENDS PackageStore

CONSTANTS p, q, lib, pbin, qbin, Ebin, Elib

MCPackage == {p, q}
MCRank == (q :> 1) @@ (p :> 2)
MCNeeds == (p :> {}) @@ (q :> {p})
MCDir == {lib, pbin, qbin}
MCDirsOf == (p :> <<pbin, lib>>) @@ (q :> <<qbin, lib>>)
MCNamed == (MCDir \X MCPackage) \ {<<qbin, q>>}
MCEntry == {Ebin, Elib}
MCEntryOf == (lib :> Elib) @@ (pbin :> Ebin) @@ (qbin :> Ebin)
=============================================================================
