--------------------------- MODULE MCStudioServer ---------------------------
(* An editing thread alone; one edit beside the simulation dock, with two of *)
(* the dock's requests at once; and the dock alone (MCScenes).               *)
(* RaceScenes: an explicit Save beside an edit, as the page sends them; it   *)
(* does not wait for the Save that follows a build.                          *)
EXTENDS StudioServer

CONSTANTS e, c1, c2

AnyEdit == {"edit", "insert", "declare", "remove", "import", "build", "save", "undo", "redo", "open"}
AnyOfDock == {"start", "step", "stop", "c_on", "c_off"}

Scene(edits, dock, other) == (e :> edits) @@ (c1 :> dock) @@ (c2 :> other)
Times(n, ops) == [k \in 1 .. n |-> ops]

MCScenes ==
  { Scene(Times(4, AnyEdit), << >>, << >>),
    Scene(<<AnyEdit>>, Times(2, AnyOfDock), << >>),
    Scene(<<{"edit", "declare", "open"}>>, <<{"start"}, AnyOfDock>>, <<{"start"}>>),
    Scene(<< >>, Times(2, AnyOfDock), <<{"start"}>>),
    Scene(<< >>, Times(5, AnyOfDock), << >>) }

RaceScenes == { [r \in Editors |-> <<AnyEdit>>] }
=============================================================================
