---------------------------- MODULE MCCallOverlay ----------------------------
(* CallOverlay with two answers that share a sentence.                      *)
EXTENDS CallOverlay, TLC
CONSTANTS a1, a2, x, y

MCAnswer == {a1, a2}
MCSentence == {x, y}
MCSays == a1 :> <<x, y>> @@ a2 :> <<y>>
=============================================================================
