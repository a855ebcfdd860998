----------------------------- MODULE MCFirmware -----------------------------
(* A datagram that begins like an answer and fits, and one that is too long. *)
EXTENDS Firmware

MCPayloads == {<<"O", ".">>, <<"O", ".", ".">>}
=============================================================================
