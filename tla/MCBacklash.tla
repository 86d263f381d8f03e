------------------------------ MODULE MCBacklash ------------------------------
(***************************************************************************)
(* Backlash with a pulse that may be adjusted, and one that is its own     *)
(* floor and ceiling and so fixed, as the dialog sets it with an AO.       *)
(***************************************************************************)
EXTENDS Backlash

MCOffsets == {-2, 2}
MCSettings == {<<6, 4, 8>>, <<5, 5, 5>>}
===============================================================================
