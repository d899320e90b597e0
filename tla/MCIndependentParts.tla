--------------------------- MODULE MCIndependentParts ---------------------------
(* Constants for IndependentParts: wheels at rest, over the limit in reverse, on  *)
(* the right, far over it and not finite.                                         *)
EXTENDS IndependentParts

CONSTANT NotFinite

MCFrames == {<<0, 0>>, <<-2, 0>>, <<1, 2>>, <<3, 2>>, <<0, NotFinite>>}
=============================================================================
