-------------------------------- MODULE MCApp --------------------------------
(* Two users: one may be signed in while an account is made for the other. *)
(* Their names and the empty text are what may be typed into the form, and *)
(* what may be written into the composer.                                  *)
EXTENDS App

CONSTANTS ana, bob

MCUsers == {ana, bob}
=============================================================================
