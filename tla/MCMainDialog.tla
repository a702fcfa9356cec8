---------------------------- MODULE MCMainDialog ----------------------------
(* MainDialog with a value for Files: no line, one, or two and one that is no good. *)
EXTENDS MainDialog

SavedFiles == {<<>>, <<Line(1, "a")>>, <<Line(1, "a"), Line(10, "b"), Line(0, "bad")>>}
=============================================================================
