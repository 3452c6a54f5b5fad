------------------------------- MODULE MCPackager -------------------------------
(* Two modules, of which one has a file that is never copied; the builds   *)
(* of two versions, of which each has something that the other has not.    *)
EXTENDS Packager

MCModule == {"qtsvg", "qtjsbackend"}
MCVersion == {1, 2}

Svg == {<<"include", "dir">>, <<"plugins", "nested">>}
MCQt ==
    (1 :> ("qtsvg" :> Svg \cup {<<"lib", "file">>} @@ "qtjsbackend" :> {<<"lib", "file">>}))
    @@ (2 :> ("qtsvg" :> Svg @@ "qtjsbackend" :> {<<"lib", "file">>}))

(* Modules that need no others, of a build that has everything. *)
ClosedModule == {"qtsvg", "qtwidgets", "qtgui", "qtcore"}
CompleteQt == [v \in Version |-> [m \in Module |-> ItemsOf(m)]]
=============================================================================
