------------------------------ MODULE MCFrame -------------------------------
(***************************************************************************)
(* Frame for TLC: bits for bytes and headers of two bits, so that a size   *)
(* needs both.  The payloads reach both limits and pass them by one.       *)
(***************************************************************************)
EXTENDS Frame

MCPayloads == {<<>>, <<1>>, <<0, 1>>, <<1, 0>>, <<1, 0, 1>>, <<0, 1, 1, 0>>}
=============================================================================
