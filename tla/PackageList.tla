------------------------------ MODULE PackageList ------------------------------
(***************************************************************************)
(* The packages of the loaded metadata, and the ways to pick some of them: *)
(* by identifier, as a dependency, with all they need, or with all that    *)
(* needs them.  A list holds the packages in the order of the metadata; a  *)
(* PackagePointer is a position in it, and None the null pointer.          *)
(***************************************************************************)
EXTENDS Versions, FiniteSets, SequencesExt

CONSTANTS
    Id,         \* names of packages
    Platform,   \* [os, arch, compiler]
    Current,    \* currentPlatform()
    Rank        \* the place of "id#host#target" among all such strings

Unset == [os |-> "", arch |-> "", compiler |-> ""]
None == 0
AnyVersion == [version |-> NoVersion, plus |-> FALSE]

Identity == [id : Id, host : Platform, target : Platform]

ASSUME PackageListAssumption ==
    /\ Platform \subseteq [os : STRING, arch : STRING, compiler : STRING]
    /\ {Current, Unset} \subseteq Platform
    /\ Rank \in [Identity -> Nat]
    /\ \A i, j \in Identity : Rank[i] = Rank[j] => i = j

(* What a dependency or an argument asks for: any version, the one it      *)
(* names, or, with a plus, one that is not lower.                          *)
Request == [version : Version, plus : BOOLEAN]
Dependency == [id : Id, request : Request]
Package ==
    [id : Id, version : Version, host : Platform, target : Platform,
     hasUrl : BOOLEAN, dependencies : Seq(Dependency)]

(* Lists are finite, and so are the recursions over them unless packages   *)
(* depend on each other in a circle.                                       *)
IdentityOf(e) == [id |-> e.id, host |-> e.host, target |-> e.target]

FuzzyCompareString(s, t) == s = t \/ {s, t} \cap {"", "*"} # {}
FuzzyCompare(p, q) ==
    /\ FuzzyCompareString(p.os, q.os)
    /\ FuzzyCompareString(p.arch, q.arch)
    /\ FuzzyCompareString(p.compiler, q.compiler)

(* The elements of a sequence at some of its places, in order. *)
Picked(s, places) ==
    LET picked[n \in 0..Len(s)] ==
            IF n = 0 THEN <<>>
            ELSE IF n \in places THEN Append(picked[n - 1], s[n])
            ELSE picked[n - 1]
    IN  picked[Len(s)]

OrCurrent(host) == IF host = Unset THEN Current ELSE host

Matches(e, id, host, target) ==
    /\ e.id = id
    /\ FuzzyCompare(e.host, OrCurrent(host))
    /\ FuzzyCompare(e.target, target)

-----------------------------------------------------------------------------
(* PackageList::package: the loop's result so far, unless it has returned. *)
LastOne(list, i, result) == TRUE    \* faulty: the last one is taken
Better(list, i, result) ==
    \/ result = None
    \/ list[i].version = list[result].version
    \/ Higher(list[i].version, list[result].version)

Considered(list, id, request, host, target, found, i) ==
    IF found.returned \/ ~Matches(list[i], id, host, target)
    THEN found
    ELSE IF \/ request = AnyVersion
            \/ request.plus /\ Higher(list[i].version, request.version)
    THEN IF Better(list, i, found.result)
         THEN [found EXCEPT !.result = i]
         ELSE found
    ELSE IF list[i].version = request.version
    THEN [result |-> i, returned |-> TRUE]
    ELSE found

FindPackage(list, id, request, host, target) ==
    LET found[n \in 0..Len(list)] ==
            IF n = 0 THEN [result |-> None, returned |-> FALSE]
            ELSE Considered(list, id, request, host, target, found[n - 1], n)
    IN  found[Len(list)].result

(* The package a dependency of the package at i resolves to. *)
Resolve(list, i, dependency) ==
    FindPackage(list, dependency.id, dependency.request, list[i].host, list[i].target)

Direct(list, i) == {Resolve(list, i, d) : d \in ToSet(list[i].dependencies)}

(* All that recursiveDependencies comes across; None if something is not   *)
(* in the list.                                                            *)
Reached(list, i) ==
    LET reached[n \in 0..Len(list)] ==
            IF n = 0 THEN Direct(list, i)
            ELSE LET before == reached[n - 1]
                 IN  before \cup UNION {Direct(list, j) : j \in before \ {None}}
    IN  reached[Len(list)]

(* A null pointer is used, or the recursion does not end. *)
Crashes(list, i) ==
    \/ None \in Reached(list, i)
    \/ \E j \in (Reached(list, i) \cup {i}) \ {None} : j \in Reached(list, j)

-----------------------------------------------------------------------------
(* cleanPackagePointerList: for each id and platform the first of the      *)
(* highest versions, in the order of the map's keys.                       *)
Replaces(list, i, j) == Higher(list[i].version, list[j].version)

CleanPackagePointerList(list, packages) ==
    LET Same(i, j) == IdentityOf(list[i]) = IdentityOf(list[j])
        Step(out, i) ==
            IF \E n \in DOMAIN out : Same(i, out[n])
            THEN [n \in DOMAIN out |->
                     IF Same(i, out[n]) /\ Replaces(list, i, out[n]) THEN i ELSE out[n]]
            ELSE Append(out, i)
        Before(i, j) == Rank[IdentityOf(list[i])] < Rank[IdentityOf(list[j])]
    IN  SortSeq(FoldLeft(Step, <<>>, packages), Before)

RecursiveDependencies(list, start) ==
    LET deps[i \in DOMAIN list] ==
            LET Step(out, d) ==
                    LET j == Resolve(list, i, d) IN <<j>> \o Reverse(deps[j]) \o out
            IN  CleanPackagePointerList(list, FoldLeft(Step, <<>>, list[i].dependencies))
    IN  deps[start]

(* PackageMatcher::matchPackages; an argument is [id, version, target]. *)
MatchPackages(list, argument, host) ==
    LET found == SelectSeq([i \in DOMAIN list |-> i],
                     LAMBDA i : Matches(list[i], argument.id, host, argument.target))
    IN  IF argument.version = NoVersion
        THEN CleanPackagePointerList(list, found)
        ELSE SelectSeq(found, LAMBDA i : list[i].version = argument.version)

-----------------------------------------------------------------------------
(* DependencyCalculator, Reverse.  A dependent is found by its exact       *)
(* version and platforms.                                                  *)
DependsExactly(list, j, i) ==
    /\ list[j].host = list[i].host
    /\ list[j].target = list[i].target
    /\ \E d \in ToSet(list[j].dependencies) :
           d = [id |-> list[i].id, request |-> [version |-> list[i].version, plus |-> FALSE]]

(* The packages that calculateDependenciesReverse comes across from i. *)
Dependents(list, i) ==
    LET reached[n \in 0..Len(list)] ==
            IF n = 0 THEN {i}
            ELSE LET before == reached[n - 1]
                 IN  before \cup
                     {j \in DOMAIN list : \E k \in before : DependsExactly(list, j, k)}
    IN  reached[Len(list)]

Endless(list, i) ==
    \E j \in Dependents(list, i) :
        \E k \in DOMAIN list \ {j} : DependsExactly(list, k, j) /\ j \in Dependents(list, k)

(* The list itself: a package is followed by all that its first dependent  *)
(* leads to, then by what its next one does, unless that is in the list.   *)
DirectDependents(list, start) ==    \* faulty: does not recurse
    <<start>> \o SelectSeq([j \in DOMAIN list |-> j],
                           LAMBDA j : j # start /\ DependsExactly(list, j, start))
Followed(list, i, reverse, out, j) ==
    IF j \notin ToSet(out) /\ DependsExactly(list, j, i) THEN out \o reverse[j] ELSE out

WithFollowers(list, i, reverse) ==
    LET out[n \in 0..Len(list)] ==
            IF n = 0 THEN <<i>> ELSE Followed(list, i, reverse, out[n - 1], n)
    IN  out[Len(list)]

CalculateDependenciesReverse(list, start) ==
    LET reverse[i \in Dependents(list, start)] == WithFollowers(list, i, reverse)
    IN  reverse[start]

(* removeDuplicatesFromList leaves the first of equal ones. *)
RemoveDuplicates(packages) ==
    Picked(packages, {n \in DOMAIN packages :
                         \A m \in DOMAIN packages : m < n => packages[m] # packages[n]})
================================================================================
