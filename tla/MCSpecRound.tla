---------------------------- MODULE MCSpecRound ----------------------------
(***************************************************************************)
(* Small instances of SpecRound.  Two word tokens alternate by position in *)
(* what the model can say, so that a token drawn for the wrong position is *)
(* visible, and the end token can be drawn anywhere.                       *)
(***************************************************************************)
EXTENDS SpecRound

MCDist(c) == IF Len(c) % 2 = 0 THEN {"a", "end"} ELSE {"b", "end"}

MCToken == {"a", "b", "end"}

MCEog == {"end"}
=============================================================================
