--------------------------- MODULE MCEventStream ---------------------------
(* One page in the process of the worker: a page of another process is a  *)
(* page whose channel happens to stay empty.                              *)
EXTENDS EventStream

CONSTANTS a1, a2, w, here

MCAgents == {a1, a2}
MCPages == {here}
=============================================================================
