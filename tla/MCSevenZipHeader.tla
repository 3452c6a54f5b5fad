--------------------------- MODULE MCSevenZipHeader ---------------------------
(* Numbers of one and of two bytes, and with vectors of more than a byte.  *)
EXTENDS SevenZipHeader

File(size) == [kind |-> "file", size |-> size]
Other(kind) == [kind |-> kind, size |-> IF kind = "link" THEN 1 ELSE 0]

MCItem == {File(1), File(128), File(20000), Other("link"), Other("empty"), Other("dir")}
MCFewItem == {File(128), Other("empty")}
MCWideNumber ==
    {[k \in 1..8 |-> IF k < 6 THEN n[k] ELSE 0] : n \in [1..5 -> {0, 1, 7, 127, 128, 255}]}
=============================================================================
