------------------------------ MODULE VaAccess ------------------------------
(***************************************************************************)
(* What rv_priv makes of an access to a virtual address: va_if, va_read,   *)
(* va_write, va_lr, va_sc and va_amo, each with the checks written out in  *)
(* it, in their order.  The translation itself is in Sv39.                 *)
(*                                                                         *)
(* who is [priv, mprv, mpp, sum, mxr, sv39]: the mode, the fields of       *)
(* mstatus, and whether satp turns translation on.  acc is [crosses,       *)
(* flags, answers, reserved]: the access goes over the end of its page;    *)
(* the flags of the entry that translates it, or Absent; the bus has a     *)
(* device there; the bus holds the reservation an sc needs.                *)
(***************************************************************************)
EXTENDS Naturals

Mode  == {"U", "S", "M"}
Kind  == {"fetch", "load", "store", "lr", "sc", "amo"}
Flag  == {"R", "W", "X", "U", "G", "A", "D"}
Absent == {"absent"}     \* no entry: the walk failed

(* The two conditions va_read and the four after it repeat: mprv moves an  *)
(* access of machine mode to the mode of mpp; machine mode is not          *)
(* translated.                                                             *)
Moved(who) == IF who.mprv /\ who.priv = "M" THEN who.mpp ELSE who.priv
Bare(who)  ==
  \/ who.priv = "M" /\ (~who.mprv \/ who.mpp = "M")
  \/ ~who.sv39

VaIf(who, acc) ==
  LET bus == IF acc.answers THEN "ok" ELSE "instr_acc_fault" IN
  IF who.priv = "M" \/ ~who.sv39 THEN bus
  ELSE IF acc.crosses THEN "instr_misalign"
  ELSE IF ~({"A", "X"} \subseteq acc.flags) THEN "instr_pgfault"
  ELSE IF \/ who.priv = "U" /\ "U" \notin acc.flags
          \/ who.priv = "S" /\ "U" \in acc.flags THEN "instr_pgfault"
  ELSE bus

(* A fetch of a word that starts at an odd half is two fetches of halves,  *)
(* the second, on the next page perhaps, only if the first succeeds.       *)
Fetch(who, first, second) ==
  IF VaIf(who, first) # "ok" THEN VaIf(who, first) ELSE VaIf(who, second)

(* Where mxr is set, it does not add the executable pages but the pages    *)
(* that are not executable.                                                *)
VaRead(who, acc) ==
  LET bus == IF acc.answers THEN "ok" ELSE "load_acc_fault" IN
  IF Bare(who) THEN bus
  ELSE IF acc.crosses THEN "load_misalign"
  ELSE IF \/ "A" \notin acc.flags
          \/ "R" \notin acc.flags /\ ~(who.mxr /\ "X" \notin acc.flags)
       THEN "load_pgfault"
  ELSE IF Moved(who) = "U" /\ "U" \notin acc.flags THEN "load_pgfault"
  ELSE IF ~who.sum /\ Moved(who) = "S" /\ "U" \in acc.flags THEN "load_acc_fault"
  ELSE bus

(* An unanswered write is an access fault only where it is not translated. *)
(* The exit of a test by a write to tohost is left out.                    *)
VaWrite(who, acc) ==
  IF Bare(who) THEN IF acc.answers THEN "ok" ELSE "store_acc_fault"
  ELSE IF acc.crosses THEN "store_misalign"
  ELSE IF ~({"A", "D", "W"} \subseteq acc.flags) THEN "store_pgfault"
  ELSE IF Moved(who) = "U" /\ "U" \notin acc.flags THEN "store_pgfault"
  ELSE IF ~who.sum /\ Moved(who) = "S" /\ "U" \in acc.flags THEN "store_pgfault"
  ELSE IF acc.answers THEN "ok" ELSE "store_pgfault"

(* The faults of an lr are those of a store, its permissions of a load.    *)
VaLr(who, acc) ==
  LET bus == IF acc.answers THEN "ok" ELSE "store_acc_fault" IN
  IF Bare(who) THEN bus
  ELSE IF acc.crosses THEN "store_misalign"
  ELSE IF \/ "A" \notin acc.flags
          \/ "R" \notin acc.flags /\ ~(who.mxr /\ "X" \notin acc.flags)
       THEN "store_pgfault"
  ELSE IF Moved(who) = "U" /\ "U" \notin acc.flags THEN "store_pgfault"
  ELSE IF ~who.sum /\ Moved(who) = "S" /\ "U" \in acc.flags THEN "store_acc_fault"
  ELSE bus

(* pa_sc returns true without the reservation, sc_fail set, and looks for  *)
(* a device only with it.                                                  *)
PaSc(acc) == acc.reserved => acc.answers
VaSc(who, acc) ==
  IF Bare(who) THEN IF PaSc(acc) THEN "ok" ELSE "store_acc_fault"
  ELSE IF acc.crosses THEN "store_misalign"
  ELSE IF ~({"A", "D", "W"} \subseteq acc.flags) THEN "store_pgfault"
  ELSE IF Moved(who) = "U" /\ "U" \notin acc.flags THEN "store_pgfault"
  ELSE IF ~who.sum /\ Moved(who) = "S" /\ "U" \in acc.flags THEN "store_pgfault"
  ELSE IF PaSc(acc) THEN "ok" ELSE "store_pgfault"

VaAmoClean(who, acc) ==      \* fault: the checks of va_lr, a page never written
  IF Bare(who) THEN IF acc.answers THEN "ok" ELSE "store_acc_fault"
  ELSE IF acc.crosses THEN "store_misalign"
  ELSE IF ~({"A", "R"} \subseteq acc.flags) THEN "store_pgfault"
  ELSE IF Moved(who) = "U" /\ "U" \notin acc.flags THEN "store_pgfault"
  ELSE IF ~who.sum /\ Moved(who) = "S" /\ "U" \in acc.flags THEN "store_pgfault"
  ELSE IF acc.answers THEN "ok" ELSE "store_pgfault"
VaAmo(who, acc) ==
  IF Bare(who) THEN IF acc.answers THEN "ok" ELSE "store_acc_fault"
  ELSE IF acc.crosses THEN "store_misalign"
  ELSE IF ~({"A", "D", "W"} \subseteq acc.flags) THEN "store_pgfault"
  ELSE IF Moved(who) = "U" /\ "U" \notin acc.flags THEN "store_pgfault"
  ELSE IF ~who.sum /\ Moved(who) = "S" /\ "U" \in acc.flags THEN "store_pgfault"
  ELSE IF acc.answers THEN "ok" ELSE "store_pgfault"

Va(kind, who, acc) ==
  CASE kind = "fetch" -> VaIf(who, acc)
    [] kind = "load"  -> VaRead(who, acc)
    [] kind = "store" -> VaWrite(who, acc)
    [] kind = "lr"    -> VaLr(who, acc)
    [] kind = "sc"    -> VaSc(who, acc)
    [] kind = "amo"   -> VaAmo(who, acc)
=============================================================================
