------------------------------- MODULE Memory -------------------------------
(***************************************************************************)
(* The memory both machines run against: aligned words of 8 bytes (a byte  *)
(* has ByteBits bits), one of which holds two instruction words.  The SRAM *)
(* side is nscscc_sram_slave, nscscc_sram_xbar and mmio_mem; the strobes   *)
(* and the store data are those of Lsu.scala, the load data of             *)
(* MemoryUnit.scala.                                                       *)
(***************************************************************************)
EXTENDS Isa

CONSTANT MemWords     \* words of memory at PC_INIT

MemIndex == 0 .. (MemWords - 1)
Memories == [MemIndex -> Word]

ASSUME MemoryAssumption ==
  /\ MemWords \in Nat \ {0}
  /\ PC_INIT + 8 * MemWords <= W

Mapped(a)  == a >= PC_INIT /\ a < PC_INIT + 8 * MemWords
IndexOf(a) == (a - PC_INIT) \div 8
HalfAt(d, a) == IF a % 8 >= 4 THEN d \div H ELSE d % H

(* The instruction word at a mapped address. *)
InstAt(mem, a) == HalfAt(mem[IndexOf(a)], a)

(* inst_channel: below every device the poison word is read; above the     *)
(* memory the read fails and rdata keeps its last value.                   *)
ReadInst(mem, a, old) ==
  IF a < PC_INIT THEN Poison ELSE IF Mapped(a) THEN InstAt(mem, a) ELSE old

(* data_channel: a read returns the whole aligned word.  The poison only   *)
(* fills the low half of rdata.                                            *)
ReadData(mem, a, old) ==
  IF a < PC_INIT THEN (old \div H) * H + Poison
  ELSE IF Mapped(a) THEN mem[IndexOf(a)] ELSE old

(* Strobed bytes replace those of the word; unmapped writes are dropped.   *)
StrobeBits(strb) == {i \in BitPos : i \div ByteBits \in strb}
Merge(old, new, strb) ==
  LET m == StrobeBits(strb)
  IN FromBits((Bits(new) \cap m) \cup (Bits(old) \ m))
WriteData(mem, a, strb, wdata) ==
  IF Mapped(a) /\ strb # {}
  THEN [mem EXCEPT ![IndexOf(a)] = Merge(@, wdata, strb)]
  ELSE mem

(* Lsu.scala: store strobes and replicated store data. *)
Misaligned(op, a) == a % AccessSize(op) # 0
Strobes(op, a)    == {b \in 0..7 : b >= a % 8 /\ b < (a % 8) + AccessSize(op)}
StoreDataLow(op, w) == w    \* fault: not replicated over the lanes
StoreData(op, w) ==
  LET n == AccessSize(op) * ByteBits   b == Bits(w)
  IN FromBits({i \in BitPos : i % n \in b})

(* MemoryUnit.scala: shift the loaded word down and extend it. *)
LoadResult(op, a, rdata) ==
  Extend(Shr(rdata, (a % 8) * ByteBits), AccessSize(op) * ByteBits, LoadSigned(op))
=============================================================================
