--------------------------- MODULE MCTokenFraming ---------------------------
(* Bounds for TLC: a byte has two values, so the four of a header count to *)
(* seven and the byte of the end of the stream also occurs inside tokens.  *)
EXTENDS TokenFraming

Tokens == {<<>>, <<1>>, <<1, 0>>, <<0, 1, 1>>}
=============================================================================
