------------------------------- MODULE MCTest -------------------------------
(***************************************************************************)
(* Instances of the difference test: tests that end by reporting a result, *)
(* and programs on which the two machines part.                            *)
(***************************************************************************)
EXTENDS DiffTest, Programs

NoIrq == {{}}
AllImages == TestImages \cup PartingImages

(* The tests compare the machines on programs where they have to agree: no *)
(* timing of the pipeline leads one of them to a clock edge where they     *)
(* part.                                                                   *)
TestsAgree == ~PartingImage(rmem) => ~parted
=============================================================================
