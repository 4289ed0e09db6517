------------------------------ MODULE MCRefines ------------------------------
(***************************************************************************)
(* The instances that compare the core with the simulator step by step;    *)
(* with no interrupt line up, or with two of them coming and going.        *)
(***************************************************************************)
EXTENDS CoreRefines, Programs

NoIrq    == {{}}
SomeIrqs == {{}, {MTI}, {MTI, MEI}}
=============================================================================
