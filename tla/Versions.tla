------------------------------- MODULE Versions -------------------------------
(***************************************************************************)
(* Version strings and the order isVersionHigherThan defines on them.  A   *)
(* version is what its string spells: up to four numbers, and a title such *)
(* as beta with a number of its own.  "5" and "5.0" are different strings, *)
(* and neither is higher than the other.                                   *)
(***************************************************************************)
EXTENDS Naturals, Sequences

Title == {"", "alpha", "beta", "rc"}

Version == [numbers : Seq(Nat), title : Title, titlenum : Nat]

(* The string of no version. *)
NoVersion == [numbers |-> <<>>, title |-> "", titlenum |-> 0]

(* What the regular expression captures: a number that is missing is 0, and *)
(* of the first one, (?<first>\d)*, it keeps the last digit.                *)
Captured(v, i) ==
    IF i \notin DOMAIN v.numbers THEN 0
    ELSE IF i = 1 THEN v.numbers[1] % 10 ELSE v.numbers[i]

(* titles[title]: a title the map does not have is inserted as 0. *)
TitleRank(v) == CASE v.title = "rc" -> 2 [] v.title = "beta" -> 1 [] OTHER -> 0

NumbersEqual(v1, v2) == \A i \in 1..4 : Captured(v1, i) = Captured(v2, i)
NumbersHigher(v1, v2) ==
    \E i \in 1..4 :
        /\ Captured(v1, i) > Captured(v2, i)
        /\ \A j \in 1..4 : j < i => Captured(v1, j) = Captured(v2, j)

TitleHigher(v1, v2) ==
    IF v1.title # v2.title
    THEN TitleRank(v1) > TitleRank(v2)
    ELSE v1.titlenum > v2.titlenum

(* The default of developerMode, FALSE, is what the program uses. *)
IsVersionHigherThan(v1, v2, developerMode) ==
    \/ NumbersHigher(v1, v2)
    \/ developerMode /\ NumbersEqual(v1, v2) /\ TitleHigher(v1, v2)

Higher(v1, v2) == IsVersionHigherThan(v1, v2, FALSE)
===============================================================================
