----------------------------- MODULE Systembus -----------------------------
(***************************************************************************)
(* rv_systembus as several rv_cores use it: plain loads and stores, LR,    *)
(* SC and AMO, in machine mode without translation.  One step is one       *)
(* instruction of one hart (OPCODE_LOAD, OPCODE_STORE and OPCODE_AMO of    *)
(* rv_core::exec, down to the bus).  The bus has a single reservation      *)
(* register for all harts.                                                 *)
(***************************************************************************)
EXTENDS ByteMem

(* Two accesses that share a byte start at the same address.  Breaks below *)
(* recognises no other write to a reservation, so without this assumption  *)
(* (an sw to the upper half of a location that lr.d reserves) the          *)
(* reservation survives.                                                   *)
ASSUME SameStart ==
  \A a, b \in Accesses : BytesOf(a) \cap BytesOf(b) # {} => a.pa = b.pa

VARIABLES
  data,     \* the memory device
  lr,       \* lr_valid, lr_pa, lr_size and lr_hart
  last      \* the hart that executed last, what, and the rd it wrote or the trap

vars == <<data, lr, last>>

Init ==
  /\ data \in Images
  /\ lr = [valid |-> FALSE, pa |-> 0, size |-> 0, hart |-> CHOOSE h \in Hart : TRUE]
  /\ last = <<"reset">>

Misaligned(acc) == acc.pa % acc.size # 0
Raise(h, op)    == last' = <<h, op, Fault>>

(* pa_write: the reservation goes first, whether or not a device answers.  *)
BreaksNone(acc) == FALSE       \* fault: a store leaves the reservation
Breaks(acc) == acc.pa <= lr.pa /\ lr.pa + acc.size <= acc.pa + acc.size
WrittenLr(acc) == IF Breaks(acc) THEN [lr EXCEPT !.valid = FALSE] ELSE lr

(* mem_read and mem_write check the alignment, the path of OPCODE_AMO does *)
(* not.                                                                    *)
Load(h, acc) ==
  /\ IF Misaligned(acc) \/ ~Inside(acc) THEN Raise(h, "load")
     ELSE last' = <<h, "load", Loaded(data, acc)>>
  /\ UNCHANGED <<data, lr>>
Store(h, acc, v) ==
  \/ Misaligned(acc) /\ Raise(h, "store") /\ UNCHANGED <<data, lr>>
  \/ /\ ~Misaligned(acc) /\ ~Inside(acc)
     /\ Raise(h, "store") /\ lr' = WrittenLr(acc) /\ UNCHANGED data
  \/ /\ ~Misaligned(acc) /\ Inside(acc)
     /\ last' = <<h, "store">>
     /\ data' = WriteBytes(data, acc, v) /\ lr' = WrittenLr(acc)

(* pa_lr: the reservation is taken even when the read then fails. *)
Lr(h, acc) ==
  /\ lr' = [valid |-> TRUE, pa |-> acc.pa, size |-> acc.size, hart |-> h]
  /\ IF Inside(acc) THEN last' = <<h, "lr", Loaded(data, acc)>> ELSE Raise(h, "lr")
  /\ UNCHANGED data

(* pa_sc *)
Holds(h, acc) == lr.valid /\ lr.pa = acc.pa /\ lr.size = acc.size /\ lr.hart = h
Sc(h, acc, v) ==
  \/ /\ ~Holds(h, acc)
     /\ last' = <<h, "sc", 1>>
     /\ lr' = IF lr.hart = h THEN [lr EXCEPT !.valid = FALSE] ELSE lr
     /\ UNCHANGED data
  \/ /\ Holds(h, acc)
     /\ lr' = [lr EXCEPT !.valid = FALSE]
     /\ IF Inside(acc) THEN /\ last' = <<h, "sc", 0>>
                            /\ data' = WriteBytes(data, acc, v)
        ELSE Raise(h, "sc") /\ UNCHANGED data

(* pa_amo_op: read, operate, write. *)
Amo(h, acc, op, v) ==
  IF ~Inside(acc) THEN Raise(h, "amo") /\ UNCHANGED <<data, lr>>
  ELSE LET res == Loaded(data, acc) IN
       /\ last' = <<h, "amo", res>>
       /\ data' = WriteBytes(data, acc, AmoResult(op, v, res))
       /\ lr' = WrittenLr(acc)

Next ==
  \E h \in Hart, acc \in Accesses :
    \/ Load(h, acc)
    \/ Lr(h, acc)
    \/ \E v \in Src : \/ Store(h, acc, v) \/ Sc(h, acc, v)
                      \/ \E op \in AmoOps : Amo(h, acc, op, v)

Spec == Init /\ [][Next]_vars

-----------------------------------------------------------------------------
(* The bus keeps the promise of AtomicMem: the hart of the reservation     *)
(* register holds a reservation, the others have lost theirs.              *)
Reserved(h) == IF lr.valid /\ lr.hart = h THEN [pa |-> lr.pa, size |-> lr.size]
                                          ELSE [pa |-> 0, size |-> 0]
Atomic == INSTANCE AtomicMem WITH resv <- [h \in Hart |-> Reserved(h)]

AtomicSpec == Atomic!AtomicSpec
=============================================================================
