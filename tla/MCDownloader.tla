---------------------------- MODULE MCDownloader ----------------------------
(* Jobs over two http packages, one file:// package and two packages       *)
(* without url, in every order and of every length.  The urls of one http  *)
(* package and of the file:// package end in the same name.                *)
EXTENDS Downloader, FiniteSets

CONSTANTS a, b, c, m, n, fa, fb

MCPackage == {a, b, c, m, n}
MCFile == {fa, fb}
MCHasUrl == {a, b, c}
MCLocalUrl == {c}
MCFileOf == (a :> fa) @@ (b :> fb) @@ (c :> fa)

MCJobs == {s \in SeqOf(MCPackage, Cardinality(MCPackage)) : Injective(s)}
=============================================================================
