------------------------------ MODULE MCCommands ------------------------------
(***************************************************************************)
(* Three names, two platforms besides the unset one, and metadata in which *)
(* a version is superseded, by one that can be downloaded or not, packages *)
(* need one by several ways, a dependency is missing, two packages need    *)
(* each other, and the same package comes from two repositories.           *)
(***************************************************************************)
EXTENDS Commands

MCId == {"app", "lib", "tool"}
Linux == [os |-> "linux", arch |-> "64", compiler |-> "g++"]
Android == [os |-> "android", arch |-> "arm", compiler |-> "*"]
MCPlatform == {Unset, Linux, Android}

Place(x, seq) == CHOOSE n \in 1..3 : seq[n] = x
MCRank ==
    [i \in [id : MCId, host : MCPlatform, target : MCPlatform] |->
        9 * Place(i.id, <<"app", "lib", "tool">>)
        + 3 * Place(i.host, <<Unset, Android, Linux>>)
        + Place(i.target, <<Unset, Android, Linux>>)]

V(numbers) == [NoVersion EXCEPT !.numbers = numbers]
Exact(id, numbers) == [id |-> id, request |-> [version |-> V(numbers), plus |-> FALSE]]
AtLeast(id, numbers) == [id |-> id, request |-> [version |-> V(numbers), plus |-> TRUE]]
Pkg(id, numbers, target, dependencies) ==
    [id |-> id, version |-> V(numbers), host |-> Unset, target |-> target,
     hasUrl |-> TRUE, dependencies |-> dependencies]

(* tool and app want different versions of lib; lib is there for Android too. *)
Shared ==
    <<Pkg("tool", <<1>>, Linux, <<Exact("app", <<1>>), Exact("lib", <<1>>)>>),
      Pkg("app", <<1>>, Linux, <<Exact("lib", <<2, 1>>)>>),
      Pkg("lib", <<1>>, Linux, <<>>),
      Pkg("lib", <<2, 1>>, Linux, <<>>),
      Pkg("lib", <<2, 0>>, Android, <<>>)>>

(* The next release: app has no url and takes any lib, tool one that is not *)
(* lower; lib comes twice.                                                  *)
Released ==
    <<Pkg("lib", <<2, 1>>, Linux, <<>>),
      Pkg("lib", <<3>>, Unset, <<>>),
      Pkg("lib", <<2, 1>>, Linux, <<Exact("app", <<1>>)>>),
      Pkg("tool", <<1>>, Linux, <<AtLeast("lib", <<2, 1>>)>>),
      [Pkg("app", <<1>>, Linux, <<>>) EXCEPT !.hasUrl = FALSE,
          !.dependencies = <<[id |-> "tool", request |-> AnyVersion]>>]>>

(* lib needs itself by way of app; tool needs what is not there. *)
Defective ==
    <<Pkg("lib", <<1>>, Linux, <<Exact("app", <<1>>)>>),
      Pkg("app", <<1>>, Linux, <<Exact("lib", <<1>>)>>),
      Pkg("tool", <<1>>, Linux, <<Exact("lib", <<4>>)>>)>>

(* app 2 needs lib 1 itself, by way of tool, and by way of app 1 and tool, *)
(* whichever of the two comes first; of lib there is a version 2 that has  *)
(* no url.                                                                 *)
Diamond ==
    <<Pkg("app", <<1>>, Linux, <<Exact("lib", <<1>>)>>),
      Pkg("lib", <<1>>, Linux, <<>>),
      Pkg("tool", <<1>>, Linux, <<AtLeast("lib", <<1, 1>>), Exact("app", <<1>>)>>),
      Pkg("app", <<2>>, Linux, <<Exact("lib", <<1>>), Exact("app", <<1>>),
                                 Exact("tool", <<1>>)>>),
      [Pkg("lib", <<2>>, Linux, <<>>) EXCEPT !.hasUrl = FALSE]>>

MCMetadataLists == {Shared, Released, Diamond, Defective, <<>>}

Arg(id, numbers, target) == [id |-> id, version |-> V(numbers), target |-> target]
MCArguments ==
    {Arg("app", <<>>, Unset), Arg("tool", <<1>>, Linux), Arg("lib", <<>>, Unset),
     Arg("lib", <<1>>, Unset), Arg("lib", <<2, 0>>, Android)}
MCCommandLines ==
    {<<a>> : a \in MCArguments} \cup {<<Arg("lib", <<1>>, Unset), a>> : a \in MCArguments}
===============================================================================
