-------------------------------- MODULE GetFiles --------------------------------
(***************************************************************************)
(* The Packager's tables: what of a Qt build belongs to which module, by   *)
(* the directory of the build it is in.  Of a name only its kind is kept:  *)
(*   "file"      a file of that directory                                  *)
(*   "dir"       a directory, at any depth                                 *)
(*   "nested"    a file of a directory that is not itself in the table     *)
(*   "pattern"   a name with a star                                        *)
(***************************************************************************)
EXTENDS TLC, FiniteSets

standardLibraryFiles == {"file", "nested", "dir"}

standardDocFiles == {"dir", "file"}

binaryFiles ==
    [m \in {"qtcore", "qtqml", "qtquick", "qtwidgets", "qtdbus", "qtquick1",
            "qtlinguisttools", "qtxmlpatterns", "qtuitools", "qthelp"} |-> {"file"}]

docFiles ==
    [m \in {"qtcore", "qtgui", "qtmultimedia", "qtmultimediawidgets", "qtnetwork", "qtqml",
            "qtquick", "qtquickcontrols", "qtquickdialogs", "qtquicklayouts", "qtsql", "qttest",
            "qtwebkit", "qtwebkitexamples", "qtwidgets", "qtactiveqt", "qtconcurrent", "qtdbus",
            "qtgraphicaleffects", "qtimageformats", "qtopengl", "qtprintsupport", "qtscript",
            "qtscripttools", "qtsensors", "qtserialport", "qtsvg", "qtx11extras", "qtxml",
            "qtxmlpatterns", "qtdesigner", "qtuitools", "qthelp", "qtlinguisttools"}
        |-> standardDocFiles]

exampleFiles ==
    ("qtcore" :> {"file", "dir"})
    @@ [m \in {"qtgui", "qtmultimedia", "qtmultimediawidgets", "qtnetwork", "qtqml", "qtquick",
               "qtsql", "qttest", "qtwebkit", "qtwebkitwidgets", "qtwidgets", "qtactiveqt",
               "qtconcurrent", "qtdbus", "qtopengl", "qtquick1", "qtscript", "qtsensors",
               "qtserialport", "qtsvg", "qtxml", "qtxmlpatterns", "qtdesigner", "qtuitools",
               "qthelp", "qtplatformsupport"} |-> {"dir"}]

importsFiles == ("qtquick" :> {"file", "dir"}) @@ ("qtwebkit" :> {"dir"})

libExecFiles == "qtwebkit" :> {"file"}

mkSpecFiles == "qtcore" :> {"file", "dir"}

phrasebookFiles == "qtlinguisttools" :> {"file"}

qmlFiles ==
    [m \in {"qtmultimedia", "qtqml", "qtquick", "qtquickcontrols", "qtquicklayouts",
            "qtquickdialogs", "qttest", "qtwebkit", "qtgraphicaleffects", "qtsensors"} |-> {"dir"}]

translationFiles ==
    [m \in {"qtcore", "qtmultimedia", "qtqml", "qtquick", "qtquick1", "qtscript",
            "qtxmlpatterns", "qtlinguisttools", "qtdesigner", "qthelp"} |-> {"pattern"}]

includeFolders ==
    [m \in {"qtcore", "qtgui", "qtmultimedia", "qtmultimediawidgets", "qtnetwork", "qtqml",
            "qtquick", "qtquicktest", "qtsql", "qttest", "qtwebkit", "qtwebkitwidgets",
            "qtwidgets", "qtconcurrent", "qtdbus", "qtprintsupport", "qtquick1", "qtscript",
            "qtscripttools", "qtsensors", "qtserialport", "qtsvg", "qtx11extras", "qtxml",
            "qtxmlpatterns", "qtdesigner", "qtuitools", "qthelp"} |-> {"dir"}]

libFiles ==
    ("qtlinguisttools" :> {"dir"})
    @@ [m \in DOMAIN includeFolders \cup {"qtjsbackend", "qtplatformsupport"}
            |-> standardLibraryFiles]

pluginNames ==
    ("qtwebkitwidgets" :> {"nested"}) @@ ("qtsvg" :> {"nested"}) @@ ("qtquick1" :> {"nested", "dir"})
    @@ [m \in {"qtcore", "qtmultimedia", "qtnetwork", "qtqml", "qtsql", "qtwidgets",
               "qtimageformats", "qtprintsupport", "qtsensors", "qtaccessability"} |-> {"dir"}]

-----------------------------------------------------------------------------
(* main's mappings. *)
mappings ==
    [bin |-> binaryFiles, doc |-> docFiles, examples |-> exampleFiles, imports |-> importsFiles,
     include |-> includeFolders, lib |-> libFiles, libexec |-> libExecFiles,
     mkspecs |-> mkSpecFiles, phrasebooks |-> phrasebookFiles, plugins |-> pluginNames,
     qml |-> qmlFiles, translations |-> translationFiles]

Group == DOMAIN mappings

modules == UNION {DOMAIN mappings[g] : g \in Group}

(* The groups that have a list for a module. *)
GroupsOf(m) == {g \in Group : m \in DOMAIN mappings[g]}

ItemsOf(m) == UNION {{g} \X mappings[g][m] : g \in GroupsOf(m)}

-----------------------------------------------------------------------------
CoreOnly ==
    {"qtgui", "qtnetwork", "qtsql", "qttest", "qtconcurrent", "qtdbus", "qtscript", "qtsensors",
     "qtserialport", "qtxml"}

NeedsWidgets ==
    {"qtprintsupport", "qtscripttools", "qtsvg", "qtx11extras", "qtdesigner", "qtuitools",
     "qthelp", "qtimageformats", "qtopengl", "qtmultimediawidgets", "qtquicktest",
     "qtaccessability"}

Widgets == {"qtcore", "qtgui", "qtwidgets"}

NeedsQuick == {"qtgraphicaleffects", "qtquickcontrols", "qtquicklayouts", "qtquickdialogs"}

(* A module without a list needs nothing. *)
dependencies(m) ==
    CASE m \in CoreOnly -> {"qtcore"}
      [] m \in NeedsQuick -> {"qtquick"}
      [] m \in {"qtwidgets", "qtplatformsupport"} -> {"qtcore", "qtgui"}
      [] m = "qtmultimedia" -> {"qtcore", "qtgui", "qtnetwork", "qtquick"}
      [] m = "qtqml" -> {"qtnetwork", "qtcore", "qtjsbackend"}
      [] m = "qtquick" -> {"qtqml", "qtnetwork", "qtgui", "qtcore", "qtjsbackend"}
      [] m = "qtwebkit" -> {"qtcore", "qtquick", "qtqml", "qtnetwork", "qtgui", "qtsensors", "qtsql"}
      [] m = "qtwebkitwidgets" ->
             Widgets \cup {"qtopengl", "qtprintsupport", "qtwebkit", "qtnetwork", "qtsensors"}
      [] m = "qtquick1" -> Widgets \cup {"qtxmlpatterns", "qtnetwork", "qtsql", "qtscript"}
      [] m = "qtxmlpatterns" -> {"qtcore", "qtnetwork"}
      [] m = "qtlinguisttools" -> {"qtprintsupport", "qtwidgets", "qtxml", "qtgui", "qcore"}
      [] m = "qtwebkitexamples" -> {"qtwebkit"}
      [] m \in NeedsWidgets ->
             Widgets \cup
             CASE m = "qtscripttools" -> {"qtscript"}
               [] m = "qtdesigner" -> {"qtxml"}
               [] m = "qthelp" -> {"qtsql", "qtnetwork"}
               [] m = "qtimageformats" -> {"qtsvg"}
               [] m = "qtmultimediawidgets" -> {"qtmultimedia", "qtopengl"}
               [] m = "qtquicktest" -> {"qtquick", "qtqml", "qttest", "qtjsbackend"}
               [] m = "qtaccessability" -> {"qtquick", "qtqml", "qtnetwork", "qtjsbackend"}
               [] OTHER -> {}
      [] OTHER -> {}
=============================================================================
