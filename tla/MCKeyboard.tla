----------------------------- MODULE MCKeyboard -----------------------------
(* A letter, a grey key and Print Screen; four bytes, what Print Screen sends, *)
(* so that an extended key can follow two others or another extended one.     *)
EXTENDS Keyboard
=============================================================================
