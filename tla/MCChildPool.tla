---------------------------- MODULE MCChildPool ----------------------------
(* Small instances of ChildPool. *)
EXTENDS ChildPool, TLC

CONSTANTS c1, c2, c3, c4, f1, f2, image1

Contained(name) ==
  [runtime |-> name, containerized |-> TRUE, built |-> FALSE,
   image |-> None, reuseKey |-> None]
OwnImage == [Contained("nodejs") EXCEPT !.built = TRUE, !.image = image1]
OnHost(name) == [Contained(name) EXCEPT !.containerized = FALSE]

Invoke(f, definition, payload) ==
  [identifier |-> f, definition |-> definition, check |-> FALSE, payload |-> payload]
Check(f, definition) ==
  [Invoke(f, definition, "line") EXCEPT !.check = TRUE]

\* Three calls share the pool of a runtime, and one of them has an image of
\* its own.  A fourth is the check of a function that may not run here.
Neighbours ==
  [c \in Calls |->
     CASE c = c1 -> Invoke(f1, Contained("node"), "line")
       [] c = c2 -> Invoke(f2, Contained("javascript"), "line")
       [] c = c3 -> Invoke(f2, OwnImage, "line")
       [] c = c4 -> Check(f1, OnHost("golang"))]
\* The first payload is a request body of two lines.
FirstHasTwoLines ==
  [c \in Calls |->
     IF c = c1 THEN Invoke(f1, Contained("node"), "two lines")
     ELSE Invoke(f2, Contained("javascript"), "line")]
===========================================================================
