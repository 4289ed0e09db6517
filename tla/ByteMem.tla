------------------------------ MODULE ByteMem ------------------------------
(***************************************************************************)
(* The memory behind the system bus, byte by byte (mmio_mem).  An access   *)
(* is the address and the size of what pa_read, pa_write, pa_lr, pa_sc or  *)
(* pa_amo_op is asked for; a byte has ByteBits bits, so 8 bytes make a     *)
(* register.                                                               *)
(***************************************************************************)
EXTENDS RefAlu

CONSTANTS
  Hart,          \* the harts that share the bus
  Base, Length,  \* the range of the memory device
  Images,        \* its contents at the start
  Accesses,      \* the accesses the programs make
  Src,           \* the register values they store
  AmoOps         \* the operations they use

Byte     == 0 .. (2^ByteBits - 1)
ByteAddr == Base .. (Base + Length - 1)
Data     == [ByteAddr -> Byte]

ASSUME ByteMemAssumption ==
  /\ Base \in Nat /\ Length \in Nat \ {0}
  /\ Images \subseteq Data
  /\ Accesses \subseteq [pa : Nat, size : Nat \ {0}]
  /\ Src \subseteq Word /\ AmoOps \subseteq AmoFunct

Fault == -1      \* in the place of a result: the instruction trapped

(* The device answers when it holds every byte. *)
Inside(acc)  == Base <= acc.pa /\ acc.pa + acc.size <= Base + Length
BytesOf(acc) == acc.pa .. (acc.pa + acc.size - 1)

(* memcpy from and to the device. *)
ReadBytes(data, acc) ==
  FromBits({i \in BitPos : /\ i < acc.size * ByteBits
                           /\ (data[acc.pa + i \div ByteBits] \div 2^(i % ByteBits)) % 2 = 1})
WriteBytes(data, acc, v) ==
  [b \in ByteAddr |-> IF b \in BytesOf(acc)
                      THEN (v \div 2^((b - acc.pa) * ByteBits)) % 2^ByteBits
                      ELSE data[b]]

(* What a load of 4 bytes, lr.w and amo*.w put in the register: int32_t.   *)
Loaded(data, acc) ==
  LET v == ReadBytes(data, acc)
  IN IF acc.size < 8 THEN Extend(v, acc.size * ByteBits, TRUE) ELSE v
=============================================================================
