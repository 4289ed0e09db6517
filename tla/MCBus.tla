------------------------------- MODULE MCBus -------------------------------
(***************************************************************************)
(* The arithmetic of the two machines, and the system bus as a program of  *)
(* the simulator uses it.  A behaviour steps the operands of the units, or *)
(* it registers devices, in any order, and once the memory is the only one *)
(* runs two harts against it: the bus takes its atomic arithmetic from the *)
(* same operators.  Every range of two to eight of 13 addresses is asked   *)
(* for, aligned or not; the memory has 12 one-bit bytes.                   *)
(***************************************************************************)
EXTENDS Systembus, BusMap, Units

TheMemory   == [start |-> 0, length |-> 12]
AllRequests ==
  {q \in [start : 0 .. 12, length : 2 .. 8] : q.start + q.length < 13}
    \cup {TheMemory}
Zeroed      == {[pa \in ByteAddr |-> 0]}

At(pa, size) == [pa |-> pa, size |-> size]

(* A location used with both sizes, one used with one size, and two, one  *)
(* of them misaligned, where no device answers.                            *)
SharedAccesses == {At(0, 8), At(0, 4), At(8, 4), At(12, 4), At(18, 4)}
SomeOps        == {"swap", "max"}
SomeValues     == {0, 9}

busVars == <<vars, devices>>
allVars == <<busVars, aluVars>>
BusInit == Init /\ MapInit /\ AluInit
Reset   == last = <<"reset">> /\ devices = {}
Operate == Reset /\ AluNext /\ UNCHANGED busVars
OnBus   == a = 0 /\ b = 0 /\ UNCHANGED aluVars
Setup   == OnBus /\ last = <<"reset">> /\ MapNext /\ UNCHANGED vars
Run     == OnBus /\ devices = {RangeOf(TheMemory)} /\ Next /\ UNCHANGED devices
BusNext == Operate \/ Setup \/ Run
BusSpec == BusInit /\ [][BusNext]_allVars
=============================================================================
