--------------------------- MODULE MCLoadMetadata ---------------------------
(* Two http repositories and a file:// one, whose entry gets another url.  *)
EXTENDS LoadMetadata

CONSTANTS a, b, l, localhost, fa, fb, fl

MCUrl == {a, b, l}
MCKey == MCUrl \cup {localhost}
MCEntryUrl == (a :> a) @@ (b :> b) @@ (l :> localhost)
MCFile == {fa, fb, fl}

(* file:///x and file://localhost/x differ in the host: the first one's    *)
(* name is never used.                                                     *)
CONSTANT unused
MCFiles == MCFile \cup {unused}
MCFileOf == (a :> fa) @@ (b :> fb) @@ (l :> unused) @@ (localhost :> fl)

MCRepositoryLists == {<<>>, <<a>>, <<a, b>>, <<a, a>>, <<l, b>>}
=============================================================================
