------------------------------- MODULE Clint -------------------------------
(***************************************************************************)
(* The timer and the software interrupts of the simulation, rv_clint.  Its *)
(* registers are 4-byte words in the address space of the device; an       *)
(* access covers one word or two, and nothing makes a two-word access stay *)
(* within one register.                                                    *)
(***************************************************************************)
EXTENDS Naturals

CONSTANTS
  NrHart,            \* nr_hart
  H,                 \* the values of a word; mtime counts modulo H * H
  CmpBase, TimeBase, \* the words at 0x4000 and at 0xbff8
  MaxWrites          \* bound: writes of a behaviour

ASSUME ClintAssumption ==
  /\ NrHart \in Nat \ {0} /\ H \in Nat \ {0, 1} /\ MaxWrites \in Nat
  /\ CmpBase \in Nat /\ TimeBase \in Nat
  /\ NrHart <= CmpBase /\ CmpBase + 2 * NrHart <= TimeBase

VARIABLES mtime, mtimecmp, msip,
          writes      \* the writes made so far

clintVars == <<mtime, mtimecmp, msip, writes>>

Hart == 0 .. (NrHart - 1)
Half == 0 .. (H - 1)
Time == 0 .. (H * H - 1)
Never == H * H - 1

ClintInit ==
  /\ mtime = 0
  /\ mtimecmp = [h \in Hart |-> 0]
  /\ msip = [h \in Hart |-> 0]
  /\ writes = 0

m_s_irq(h) == msip[h] % 2 = 1

m_t_irqLate(h) == mtime > mtimecmp[h] + 1           \* fault: off by one
m_t_irqOnce(h) == mtime = mtimecmp[h] + 1          \* fault: an edge, no level
m_t_irq(h) == mtime > mtimecmp[h]

(* The register a range of words belongs to: what do_read and do_write     *)
(* answer; the others are refused and become access faults.                *)
InMsip(a, size) == a < CmpBase /\ a + size <= NrHart
InCmp(a, size)  == a >= CmpBase /\ a + size <= CmpBase + 2 * NrHart
InTime(a, size) == a >= TimeBase /\ a + size <= TimeBase + 2

(* memcpy from the register words (a read changes nothing), and into them: *)
(* val gives the words of an access their values.                          *)
WordAt(w) ==
  IF w < NrHart THEN msip[w]
  ELSE LET reg == IF w < TimeBase THEN mtimecmp[(w - CmpBase) \div 2] ELSE mtime
           low == IF w < TimeBase THEN (w - CmpBase) % 2 = 0 ELSE w = TimeBase
       IN IF low THEN reg % H ELSE reg \div H
Stored(val, w, old) == IF w \in DOMAIN val THEN val[w] ELSE old
PairOther(val, w, old) ==       \* fault: the other half of the register is cleared
  Stored(val, w, 0) + H * Stored(val, w + 1, 0)
Pair(val, w, old) ==
  Stored(val, w, old % H) + H * Stored(val, w + 1, old \div H)

(* do_write *)
WriteMsip(val) ==
  /\ msip' = [h \in Hart |-> Stored(val, h, msip[h]) % 2]
  /\ UNCHANGED <<mtime, mtimecmp>>
WriteCmp(val) ==
  /\ mtimecmp' = [h \in Hart |-> Pair(val, CmpBase + 2 * h, mtimecmp[h])]
  /\ UNCHANGED <<mtime, msip>>
WriteTime(val) ==
  /\ mtime' = Pair(val, TimeBase, mtime)
  /\ UNCHANGED <<mtimecmp, msip>>
Write(a, size, val) ==
  /\ writes < MaxWrites /\ writes' = writes + 1
  /\ \/ InTime(a, size) /\ WriteTime(val)
     \/ InCmp(a, size) /\ WriteCmp(val)
     \/ InMsip(a, size) /\ WriteMsip(val)

(* tick and synchronize, which the caller of the device makes. *)
Tick == mtime' = (mtime + 1) % (H * H) /\ UNCHANGED <<mtimecmp, msip, writes>>
Synchronize(t) ==
  /\ writes < MaxWrites /\ writes' = writes + 1
  /\ mtime' = t /\ UNCHANGED <<mtimecmp, msip>>

ClintNext ==
  \/ Tick
  \/ \E t \in Time : Synchronize(t)
  \/ \E a \in 0 .. (TimeBase + 2), size \in {1, 2} :
       \E val \in [a .. (a + size - 1) -> Half] : Write(a, size, val)

ClintSpec == ClintInit /\ [][ClintNext]_clintVars

-----------------------------------------------------------------------------
(* The two interrupt lines of every hart. *)
Lines == [h \in Hart |-> <<m_s_irq(h), m_t_irq(h)>>]

(* An access reaches the lines of the harts whose words it covers and of   *)
(* no other: two harts that program their timers, or interrupt each other, *)
(* with whatever interleaving, never disturb a third.  (A write of mtime    *)
(* is for all of them.)                                                     *)
Isolated ==
  [][writes' # writes /\ Lines' # Lines =>
     \A a \in 0 .. (TimeBase - 1), size \in {1, 2} :
       \A val \in [a .. (a + size - 1) -> Half] :
         Write(a, size, val) /\ ~InTime(a, size) =>
           \A h \in Hart :
             h \notin DOMAIN val
               /\ {CmpBase + 2 * h, CmpBase + 2 * h + 1} \cap DOMAIN val = {}
             => Lines'[h] = Lines[h]]_clintVars

(* The timer line is a level: as time passes it only falls when the        *)
(* counter wraps, so a hart that had the interrupt masked still finds it.  *)
TimerSticky ==
  [][Tick /\ mtime # Never => \A h \in Hart : m_t_irq(h) => m_t_irq(h)']_clintVars

(* Software that has to write the compare register in halves can move an   *)
(* alarm that is still to come without a spurious interrupt: while the     *)
(* upper half is all ones, put there first, the line stays low whatever    *)
(* the lower half is (until the counter itself is about to wrap).          *)
LowCmp(h)  == CmpBase + 2 * h
HighCmp(h) == CmpBase + 2 * h + 1
NoSpurious ==
  [][writes' # writes =>
     \A h \in Hart, v \in Half :
       /\ ~m_t_irq(h) /\ mtime \div H < H - 1
       /\ \/ Write(HighCmp(h), 1, [w \in {HighCmp(h)} |-> H - 1])
          \/ WordAt(HighCmp(h)) = H - 1 /\ Write(LowCmp(h), 1, [w \in {LowCmp(h)} |-> v])
       => ~m_t_irq(h)']_clintVars

(* An alarm goes off, again and again, whatever was written before: every  *)
(* compare value but the last is passed.                                   *)
AlarmRings == \A h \in Hart : []<>(m_t_irq(h) \/ mtimecmp[h] = Never)
=============================================================================
