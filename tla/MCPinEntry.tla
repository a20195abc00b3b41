----------------------------- MODULE MCPinEntry -----------------------------
(* PinEntry with two keys, PINs of two digits and a lockout of three ticks. *)
EXTENDS PinEntry
MCDigits == {1, 2}
=============================================================================
