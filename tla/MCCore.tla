------------------------------- MODULE MCCore -------------------------------
(***************************************************************************)
(* The instances of the core the configurations check: the programs of     *)
(* Programs.tla with the interrupt lines quiet, or up at any clock edge.   *)
(***************************************************************************)
EXTENDS CoreProps, Programs

NoIrq    == {{}}
SomeIrqs == {{}, {MTI}, {MTI, MEI}}
=============================================================================
