------------------------------ MODULE AppFolder ------------------------------
(***************************************************************************)
(* App bundles and the folder they are installed in                        *)
(* (src/infra/fs/appbundle/bundle.go, src/app/recur/cli/app.go).           *)
(*                                                                         *)
(* A bundle, and the directory it is unpacked to, is a function: for every *)
(* YAML file at its root, whether a daemon can load it.  The other files   *)
(* take no part in what is modelled.                                       *)
(***************************************************************************)
EXTENDS Naturals, FiniteSets

CONSTANTS
  Apps,         \* names that apps are installed under
  Bundles,      \* bundles that can be installed
  Conventional, \* the file names of the form recurfile.*
  NoDir,        \* there is no such directory
  None

VARIABLES apps  \* the directory of every app, or NoDir

\* selectRecurfile: the only YAML file, else the only one with a conventional name.
SelectRecurfile(files) ==
  LET candidates == IF Cardinality(files) > 1 THEN files \intersect Conventional ELSE files
  IN IF Cardinality(candidates) = 1 THEN CHOOSE f \in candidates : TRUE ELSE None

\* FindRecurfile: None too if there is no directory.
FindRecurfile(dir) == IF dir = NoDir THEN None ELSE SelectRecurfile(DOMAIN dir)

\* Unpack refuses a bundle without a recurfile before it writes anything; it does not
\* look into the recurfile.
Unpack(bundle) == IF SelectRecurfile(DOMAIN bundle) = None THEN NoDir ELSE bundle

Path(a) == <<a, FindRecurfile(apps[a])>>

\* The recurfiles of the apps in the folder.
Installed == {Path(a) : a \in {b \in Apps : FindRecurfile(apps[b]) # None}}

\* recurfileyaml.Load: the file is there, whether or not its app would use it, and its
\* text is a recurfile; registerRecurfile fails for none that is.
Loads(path) ==
  /\ apps[path[1]] # NoDir
  /\ path[2] \in DOMAIN apps[path[1]] /\ apps[path[1]][path[2]]
=============================================================================
