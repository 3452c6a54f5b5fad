------------------------------ MODULE MCArchive ------------------------------
(* A file in a directory, whose name is long, the directory, and a file in *)
(* the root.  The foreign archives are a tar file with an end mark, a zip  *)
(* file with two entries, the size of one of which is only in the index,   *)
(* and an ar archive with a table of names.                                *)
EXTENDS Archive

CONSTANTS d, f, g, cut

MCName == {d, f, g, cut}
MCWritePath == {<<d>>, <<d, f>>, <<g>>}
MCLongPath == {<<d, f>>}
MCCutPath == <<cut>>

Written(path, id) == [path |-> path, kind |-> "file", id |-> id]

MCForeign ==
    {[format |-> "tar",
      cells |-> <<Header(<<g>>, "file", 9, 1), Data(9, 1), Mark("zero"), Mark("zero")>>,
      log |-> <<Written(<<g>>, 9)>>],
     [format |-> "zip",
      cells |-> <<[Local(<<g>>, "file", 9) EXCEPT !.size = 1], Data(9, 1),
                  Local(<<f>>, "file", 8), Data(8, 1), Data(8, 2),
                  Central([FileOf(<<g>>, "file", 9, 0) EXCEPT !.size = 1]),
                  Central([FileOf(<<f>>, "file", 8, 2) EXCEPT !.size = 2])>> \o EndRecord,
      log |-> <<Written(<<g>>, 9), Written(<<f>>, 8)>>],
     [format |-> "ar",
      cells |-> <<Mark("magic"), Mark("symbols"), Mark("names"),
                  Ref(<<f>>, 8, 1), Data(8, 1), Member(<<g>>, 9, 2), Data(9, 1), Data(9, 2)>>,
      log |-> <<Written(<<f>>, 8), Written(<<g>>, 9)>>]}
=============================================================================
