------------------------------- MODULE MCTraps -------------------------------
(***************************************************************************)
(* Interrupts and exceptions at every clock edge, with the history of the  *)
(* trap that a handler works on.                                           *)
(***************************************************************************)
EXTENDS CoreTraps, Programs

SomeIrqs == {{}, {MTI}, {MTI, MEI}}
=============================================================================
