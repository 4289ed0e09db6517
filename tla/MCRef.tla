-------------------------------- MODULE MCRef --------------------------------
(***************************************************************************)
(* Instances of the reference simulator on its own.                        *)
(***************************************************************************)
EXTENDS RefCore, Programs

NoIrq == {{}}

(* note.md, lab 5: jalr adds rs1 and the immediate, whose lowest bits need *)
(* not be zero, and clears bit 0 of the sum.  An aligned target is jumped  *)
(* to, whichever of the two addends was odd.                               *)
JalrSum == ((Add(GPR[I.rs], I.imm)) \div 2) * 2
JalrTargetOfSum ==
  [][pc % 4 = 0 /\ Mapped(pc) /\ I.op = "jalr" /\ JalrSum % 4 = 0
     => pc' = JalrSum]_vars
=============================================================================
