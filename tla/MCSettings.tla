----------------------------- MODULE MCSettings -----------------------------
(* Two processes, two repositories that each offer a package of their own, *)
(* and the commands that read or write a key another of them writes.       *)
EXTENDS Settings, TLC

CONSTANTS p, q, r, s, x, y, home, opt, maybe

MCScalar == {"AllowBuildSystemInstall", "InstallRoot"}
MCValues == [k \in MCScalar |-> IF k = "InstallRoot" THEN {home, opt} ELSE BOOLEAN]
MCDefault == [k \in MCScalar |-> IF k = "InstallRoot" THEN home ELSE FALSE]
MCOffers == (r :> {x}) @@ (s :> {y})

Config(op, key, values) == [name |-> "config", op |-> op, key |-> key, values |-> values]
On(name, repository, packages) ==
    [name |-> name, repository |-> repository, values |-> packages]

MCArgument == {r, s, TRUE, opt, maybe}
MCCommand ==
    {Config("add", "Repositories", {r, s}), Config("add", "Repositories", {r}),
     Config("delete", "Repositories", {r}), Config("none", "Repositories", {s}),
     Config("set", "AllowBuildSystemInstall", {TRUE}),
     Config("set", "AllowBuildSystemInstall", {maybe}),
     Config("list", "Repositories", {}), Config("read", "all", {}),
     Config("set", "InstallRoot", {opt}), Config("set", "InstallRoot", {}),
     On("install", None, {x, y}), On("remove", None, {x}), On("buildsystem", s, {y})}

Symmetry == Permutations({p, q})
=============================================================================
