------------------------------- MODULE Commands -------------------------------
(***************************************************************************)
(* The install and remove commands as their user sees them: what they      *)
(* select from the metadata, and what InstalledPackages says afterwards.   *)
(* The jobs they start are Downloader's and PackageStore's; here a job     *)
(* gets through the first few packages of its list, or all.                *)
(***************************************************************************)
EXTENDS PackageList

CONSTANTS
    MetadataLists,  \* what the repositories may hold
    Arguments,      \* [id, version, target]: what an argument spells
    CommandLines    \* the sequences of arguments given to install

ASSUME CommandsAssumption ==
    /\ \A list \in MetadataLists : list \in Seq(Package)
    /\ Arguments \subseteq [id : Id, version : Version, target : Platform]
    /\ CommandLines \subseteq Seq(Arguments)

VARIABLES
    metadata,   \* m_entities, once loaded
    keys,       \* the keys under InstalledPackages
    installed,  \* those whose value is true
    outcome     \* how the last command ended

vars == <<metadata, keys, installed, outcome>>

Key == [id : Id, version : Version, host : Platform, target : Platform]

TypeOK ==
    /\ metadata \in MetadataLists
    /\ keys \subseteq Key
    /\ installed \subseteq keys
    /\ outcome \in {"none", "success", "failure", "crash"}

Init ==
    /\ metadata \in MetadataLists
    /\ keys = {}
    /\ installed = {}
    /\ outcome = "none"

GenerateKey(e) == [id |-> e.id, version |-> e.version, host |-> e.host, target |-> e.target]
KeyAt(i) == GenerateKey(metadata[i])
Entities == DOMAIN metadata

IsPackageInstalled(i) == KeyAt(i) \in installed

SetPackageInstalled(packages) ==
    /\ keys' = keys \cup packages
    /\ installed' = installed \cup packages

SetPackageUninstalled(packages) ==
    /\ installed' = installed \ packages
    /\ UNCHANGED keys

-----------------------------------------------------------------------------
(* stringListToPackageList: an argument that names an installed package of *)
(* no host is left out.                                                    *)
AlreadyInstalled(a) ==
    [id |-> a.id, version |-> a.version, host |-> Unset, target |-> a.target] \in installed

StringListToPackageList(arguments) ==
    FoldLeft(LAMBDA out, a : IF AlreadyInstalled(a) THEN out
                             ELSE out \o MatchPackages(metadata, a, Unset),
             <<>>, arguments)

RequestedAlone(pkgs) == pkgs    \* faulty: no dependencies
WithDependencies(pkgs) ==
    FoldLeft(LAMBDA out, i : out \o RecursiveDependencies(metadata, i), pkgs, pkgs)

ConstructPackageList(pkgs) ==
    SelectSeq(CleanPackagePointerList(metadata, WithDependencies(pkgs)),
              LAMBDA i : ~IsPackageInstalled(i))

(* The Downloader leaves out packages that have no url. *)
Downloads(list) == SelectSeq(list, LAMBDA i : metadata[i].hasUrl)

(* The keys of the first n packages of a list. *)
KeysOf(list, n) == {KeyAt(list[m]) : m \in 1..n}

InstallCrashes(arguments) ==
    /\ \E i \in ToSet(StringListToPackageList(arguments)) : Crashes(metadata, i)
    /\ outcome' = "crash"
    /\ UNCHANGED <<metadata, keys, installed>>

(* A job that has nothing to download never ends. *)
Completed(n, list, constructed) == n = Len(list) /\ (list # <<>> \/ constructed = <<>>)

(* One package after the other.  A command that is refused, or fails before *)
(* the first of them, installs none; one that does not end is killed.       *)
InstallCommand(arguments) ==
    LET pkgs == StringListToPackageList(arguments)
        constructed == ConstructPackageList(pkgs)
        list == Downloads(constructed)
    IN  /\ \A i \in ToSet(pkgs) : ~Crashes(metadata, i)
        /\ \E n \in 0..Len(list) :
               /\ SetPackageInstalled(KeysOf(list, n))
               /\ outcome' = IF Completed(n, list, constructed) THEN "success" ELSE "failure"
        /\ UNCHANGED metadata

-----------------------------------------------------------------------------
(* isNewestInstalled: of the versions with a key, whatever its value. *)
IsNewestInstalled(i) ==
    LET versions == {k \in keys : IdentityOf(k) = IdentityOf(metadata[i])}
    IN  /\ versions # {}
        /\ \A k \in versions : ~Higher(k.version, metadata[i].version)

RemoveAborts(a, noPlatform, noVersion) ==
    \/ noPlatform = "abort" /\ a.target = Unset
    \/ noVersion = "abort" /\ a.version = NoVersion

(* The target an argument names is not looked at. *)
Named(a, i, noPlatform, noVersion) ==
    /\ metadata[i].id = a.id
    /\ noPlatform = "host"
    /\ FuzzyCompare(metadata[i].target, Current)
    /\ \/ noVersion = "all"
       \/ noVersion = "clean" /\ IsNewestInstalled(i)
       \/ metadata[i].version = a.version
    /\ IsPackageInstalled(i)

NamedPackages(a, noPlatform, noVersion) ==
    Picked([i \in Entities |-> i], {i \in Entities : Named(a, i, noPlatform, noVersion)})

NamedAlone(pkgs) == pkgs    \* faulty: no dependents
WithDependents(pkgs) ==
    LET all[n \in 0..Len(pkgs)] ==
            IF n = 0 THEN <<>>
            ELSE all[n - 1] \o CalculateDependenciesReverse(metadata, pkgs[n])
        list == RemoveDuplicates(all[Len(pkgs)])
    IN  Picked(list, {n \in DOMAIN list : IsPackageInstalled(list[n])})

RemoveRefused(a, noPlatform, noVersion) ==
    /\ Entities # {}
    /\ RemoveAborts(a, noPlatform, noVersion)
    /\ outcome' = "failure"
    /\ UNCHANGED <<metadata, keys, installed>>

RemoveCrashes(a, noPlatform, noVersion) ==
    /\ ~RemoveAborts(a, noPlatform, noVersion)
    /\ \E i \in ToSet(NamedPackages(a, noPlatform, noVersion)) : Endless(metadata, i)
    /\ outcome' = "crash"
    /\ UNCHANGED <<metadata, keys, installed>>

(* One package after the other.  The command takes any number of arguments; *)
(* here it is given one.                                                    *)
RemoveCommand(a, noPlatform, noVersion) ==
    LET pkgs == NamedPackages(a, noPlatform, noVersion)
        list == WithDependents(pkgs)
    IN  /\ ~RemoveAborts(a, noPlatform, noVersion)
        /\ \A i \in ToSet(pkgs) : ~Endless(metadata, i)
        /\ \E n \in 0..Len(list) :
               /\ SetPackageUninstalled(KeysOf(list, n))
               /\ outcome' = IF n = Len(list) THEN "success" ELSE "failure"
        /\ UNCHANGED metadata

(* Between commands the repositories may come to hold something else. *)
MetadataChanges ==
    /\ metadata' \in MetadataLists \ {metadata}
    /\ outcome' = "none"
    /\ UNCHANGED <<keys, installed>>

Next ==
    \/ \E arguments \in CommandLines :
           InstallCommand(arguments) \/ InstallCrashes(arguments)
    \/ \E a \in Arguments, noPlatform \in {"host", "abort"},
          noVersion \in {"abort", "clean", "all"} :
           \/ RemoveCommand(a, noPlatform, noVersion)
           \/ RemoveRefused(a, noPlatform, noVersion)
           \/ RemoveCrashes(a, noPlatform, noVersion)
    \/ MetadataChanges

Spec == Init /\ [][Next]_vars
-----------------------------------------------------------------------------
(* PackageList::package returns a package that matches, and none that      *)
(* matches is higher unless the very version asked for is returned; the    *)
(* null pointer only when none fits.  It depends on the metadata alone, so *)
(* it is looked at before the first command.                               *)
PackageIsHighest ==
    keys = {} =>
        \A e \in ToSet(metadata) : \A d \in ToSet(e.dependencies) \cup
                [id : Id, request : {AnyVersion}] :
            LET r == d.request
                matching == {i \in Entities : Matches(metadata[i], d.id, e.host, e.target)}
                exact == {i \in matching :
                             r # AnyVersion /\ metadata[i].version = r.version}
                fit == {i \in matching :
                            \/ r = AnyVersion
                            \/ r.plus /\ Higher(metadata[i].version, r.version)}
                found == FindPackage(metadata, d.id, r, e.host, e.target)
            IN  \/ found \in exact
                \/ /\ exact = {}
                   /\ found \in fit
                   /\ \A i \in fit : ~Higher(metadata[i].version, metadata[found].version)
                \/ exact \cup fit = {} /\ found = None

(* The reverse calculation passes over packages its list has already: it   *)
(* still finds every package that depends on the first one, through        *)
(* whatever others.                                                        *)
ReverseFindsAll ==
    keys = {} =>
        \A i \in Entities :
            ~Endless(metadata, i) =>
                ToSet(CalculateDependenciesReverse(metadata, i)) = Dependents(metadata, i)

(* What a package needs is there if the package it resolves to, or one of  *)
(* the same id and platform that is not lower, is installed; one without a *)
(* url needs no installation.                                              *)
Satisfied(i, d) ==
    LET j == Resolve(metadata, i, d)
    IN  /\ j # None
        /\ metadata[j].hasUrl =>
               \E m \in Entities :
                   /\ IdentityOf(metadata[m]) = IdentityOf(metadata[j])
                   /\ ~Higher(metadata[j].version, metadata[m].version)
                   /\ KeyAt(m) \in installed

(* Whatever cleanPackagePointerList may keep instead of a package that has  *)
(* an url has one too: a higher version, or one that is neither higher nor  *)
(* lower.                                                                   *)
SupersededByUrl ==
    \A i, j \in Entities :
        /\ IdentityOf(metadata[i]) = IdentityOf(metadata[j])
        /\ ~Higher(metadata[j].version, metadata[i].version)
        /\ metadata[j].hasUrl
        => metadata[i].hasUrl

(* After an install command that succeeded every package it installed has  *)
(* what it needs, although cleanPackagePointerList drops versions from its *)
(* list; but for metadata in which a package that can be downloaded is     *)
(* superseded by one that cannot: there the list loses the former, the     *)
(* Downloader leaves out the latter, and the command succeeds.             *)
InstallCloses ==
    [][outcome' = "success" /\ SupersededByUrl =>
          \A key \in installed' \ installed :
              \E i \in Entities :
                  /\ KeyAt(i) = key
                  /\ \A d \in ToSet(metadata[i].dependencies) : Satisfied(i, d)']_vars

(* After a remove command that succeeded no package is installed that      *)
(* depends, by its version and platforms, on one that was removed.         *)
RemoveCloses ==
    [][outcome' = "success" =>
          \A i, j \in Entities :
              /\ KeyAt(i) \in installed \ installed'
              /\ DependsExactly(metadata, j, i)
              => KeyAt(j) \notin installed']_vars
===============================================================================
