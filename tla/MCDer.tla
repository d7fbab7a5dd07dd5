------------------------------- MODULE MCDer -------------------------------
(* Bounds for TLC.  Tokens: short, with one and two length bytes, longer   *)
(* than 255 bytes, and three that are no GSS-API token: of one byte, of     *)
(* several, and with a 0x60 inside.  The identifiers that are in use have   *)
(* arcs of one, two and three digits.                                      *)
EXTENDS Der, TLC

Tokens == {<<96, 2, 6, 96>>, <<96, 129, 1, 96>>, <<96, 130, 1, 0>> \o [i \in 1 .. 256 |-> 96],
           <<5>>, <<161, 7>>, <<161, 96, 5>>}

Kerberos == <<1, 2, 840, 113554, 1, 2, 2>>
Values == {Kerberos, <<1, 3, 5, 1, 5, 2>>}

\* Two identifiers whose strings OidString2DER encodes alike.
Clashing == {<<1, 2, 16384>>, <<1, 2, 128, 0>>}

Symmetry == Permutations(Obj)
=============================================================================
