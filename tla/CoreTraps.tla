------------------------------ MODULE CoreTraps ------------------------------
(***************************************************************************)
(* What a trap handler may rely on.  A trap opens a frame: the pc, the     *)
(* privilege mode and the interrupt enable that the trap found, and the    *)
(* cause and value it reports.  The frame is open until mret, or until the *)
(* handler writes one of the CSRs that hold it.  An exception the handler  *)
(* raises itself opens a new one, an interrupt does not: the handler could *)
(* not know.  Two history variables keep the frame, and how long execute   *)
(* has been without an instruction.                                        *)
(***************************************************************************)
EXTENDS CoreProps

VARIABLES
  frame,      \* the last trap, and whether the CSRs still hold it
  idle        \* clock edges since execute last held a valid instruction

TrapCsrs == {"mstatus", "mepc", "mcause", "mtval"}

trapVars == <<vars, frame, idle>>

TrapInit ==
  /\ Init
  /\ frame = [open |-> FALSE, pc |-> 0, cause |-> 0, tval |-> 0,
              mode |-> ModeM, mie |-> FALSE]
  /\ idle = 0

FrameStep(lines) ==
  frame' = IF Mret \/ (CsrWrites /\ E.csr \in TrapCsrs /\ ~Trap(lines))
           THEN [frame EXCEPT !.open = FALSE]
           ELSE IF Trap(lines) /\ ~(frame.open /\ IsInt(lines))
           THEN [open |-> TRUE, pc |-> es.pc, cause |-> csrs'["mcause"],
                 tval |-> csrs'["mtval"], mode |-> mode,
                 mie |-> MIE \in Bits(csrs["mstatus"])]
           ELSE frame

IdleStep == idle' = IF es.valid THEN 0 ELSE idle + 1

TrapNext ==
  /\ \E lines \in IrqLines : Clock(lines) /\ FrameStep(lines)
  /\ IdleStep

TrapSpec == TrapInit /\ [][TrapNext]_trapVars

(***************************************************************************)
(* Properties                                                              *)
(***************************************************************************)

(* Until the handler has saved what it found, nothing overwrites it: it    *)
(* runs in machine mode with interrupts masked whatever lines are up, and  *)
(* mstatus, mepc, mcause and mtval describe the trap that started it.      *)
FrameKept ==
  frame.open =>
    LET status == Bits(csrs["mstatus"]) IN
    /\ mode = ModeM /\ MIE \notin status
    /\ MppOf(status) = frame.mode
    /\ MPIE \in status <=> frame.mie
    /\ csrs["mepc"] = frame.pc
    /\ csrs["mcause"] = frame.cause /\ csrs["mtval"] = frame.tval

(* The mret that closes a frame leads back to where the trap was taken:    *)
(* the same next instruction, privilege mode and interrupt enable.         *)
TrapReturns ==
  [][frame.open /\ Mret =>
       /\ ArchPc' = frame.pc /\ mode' = frame.mode
       /\ MIE \in Bits(csrs'["mstatus"]) <=> frame.mie]_trapVars

(* An interrupt taken on a valid instruction leaves that instruction to be *)
(* executed again: mepc is its pc, no register has changed, the memory at  *)
(* most in the word it stores to, where storing again changes nothing, and *)
(* the CSRs, but for those of the trap, at most in the one it writes.      *)
InterruptReplays ==
  [][\A lines \in IrqLines :
       Clock(lines) /\ IsInt(lines) /\ es.valid /\ ~Mret =>
         /\ csrs'["mepc"] = ArchPc
         /\ \A r \in Reg : ArchReg(r)' = ArchReg(r)
         /\ \A k \in MemIndex :
              mem'[k] # mem[k] => Stores /\ k = IndexOf(DataAddr)
         /\ Stores => StoreTo(mem') = mem'
         /\ \A n \in CsrName \ (TrapCsrs \cup {"mip"}) :
              csrs'[n] # csrs[n] => CsrWrites /\ n = E.csr]_trapVars

(* Execute is never without an instruction for more than four clock edges, *)
(* whatever interrupts come; what it holds commits two clocks later, so    *)
(* that is how long the watchdog of the simulation can be kept waiting.    *)
ExecutesInTime == idle <= 4
=============================================================================
