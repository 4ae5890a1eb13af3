-------------------------------- MODULE MCUart --------------------------------
(* A small console for TLC. *)
EXTENDS Uart

\* A text that ends a line and one that does not.
MCTexts == {<<"x", "nl">>, <<"y">>}
=============================================================================
