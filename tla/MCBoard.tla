------------------------------- MODULE MCBoard -------------------------------
(* The texts that are shown on the LCD, and the readings of the thermistor: *)
(* pairs of neighbours over its whole range, and all around freezing point. *)
EXTENDS Board

MCTexts == {<<>>, <<"a">>, <<"a", "b">>, <<"b", "a", "b">>, <<"a", "b", "a", "b">>}
MCReadings == {a \in 0 .. 1023 : a % 9 \in {0, 1} \/ a \in 795 .. 825}
=============================================================================
