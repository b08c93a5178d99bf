-------------------------------- MODULE MCLcd --------------------------------
(***************************************************************************)
(* Two columns: a text shorter than a line, and one that is cut.           *)
(***************************************************************************)
EXTENDS Lcd

CONSTANTS a, b

MCTexts == {<<a>>, <<b, a, b>>}
=============================================================================
