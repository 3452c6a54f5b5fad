------------------------------- MODULE MCDevices -------------------------------
(* Files of every format, whole, cut short, damaged and with something     *)
(* behind them, around buffers of three and four cells.                    *)
EXTENDS Devices

MCCells == <<"a", "b", "c", "d", "e", "f">>
Old == <<"o", "p", "q", "r", "s", "t">>

MCInitialFile ==
    LET whole == UNION {{Encoded(kind, SubSeq(Old, 1, n)) : n \in {1, 3, 6}}
                            : kind \in {"gzip", "raw", "xz", "bzip2"}}
        short == {SubSeq(f, 1, Len(f) - n) : f \in {g \in whole : Len(g) > 3}, n \in {1, 3}}
        damaged == UNION {{[f EXCEPT ![n] = "bad"] : n \in {2, Len(f) - 1}}
                            : f \in {g \in whole : Len(g) > 3}}
        longer == {f \o <<"o">> : f \in whole}
    IN  whole \cup short \cup damaged \cup longer
            \cup {Encoded("none", SubSeq(Old, 1, n)) : n \in {0, 2, 6}}

MCWriteKind == {"gzip", "raw", "xz", "bzip2"}
MCReadKind == MCWriteKind \cup {"none"}
=============================================================================
