------------------------------ MODULE DiffTest ------------------------------
(***************************************************************************)
(* The difference test, riscv_test_run of sim_mycpu.cpp: the core and the  *)
(* simulator run the same program, each against a memory of its own; when  *)
(* the core commits an instruction the simulator is stepped once and the   *)
(* two debug records are compared.  One step is one rising and one falling *)
(* edge of the clock, that is two ticks of the loop.  The core's interrupt *)
(* lines are not connected and the simulator is stepped with all lines     *)
(* low.  The core is neither dual-issue nor does it have delay slots       *)
(* (dual_issue, has_delayslot).                                            *)
(***************************************************************************)
EXTENDS CoreRefines

CONSTANTS
  RunRiscvTest, OnlyModeM, InitGprs,   \* the options of RefCore
  CommitTimeout,        \* commit_timeout, in ticks
  ShouldDelay,          \* should_delay, the option -delay
  DumpHistory,          \* dump_pc_history, the option -pc
  Delay, DumpAt         \* mismatches before stopping, and left when dumping

RstTicks == 10       \* ticks of reset before the first clock of the core

ASSUME DiffTestAssumption ==
  /\ IrqLines = {{}} /\ {A0, A7} \subseteq Reg
  /\ {RunRiscvTest, OnlyModeM, InitGprs} \subseteq BOOLEAN
  /\ CommitTimeout \in Nat /\ CommitTimeout > RstTicks + 10
  /\ Delay \in Nat /\ DumpAt \in Nat \ {0}

VARIABLES
  rpc, rGPR, rcsr, rpriv, rmem,   \* cemu_rvcore and cemu_mem
  debug, exit,                    \* its debug record, and how it ended
  running,                        \* the flag that keeps the loop going
  delay,                          \* mismatches left
  sinceCommit,                    \* ticks - last_commit
  parted                          \* history: have the two machines parted?

simVars == <<rpc, rGPR, rcsr, rpriv, rmem, debug, exit>>
testVars == <<allVars, simVars, running, delay, sinceCommit, parted>>

Sim == INSTANCE RefCore WITH
         TestExits <- RunRiscvTest,
         pc <- rpc, GPR <- rGPR, csr <- rcsr, priv <- rpriv, mem <- rmem

(* The options that make the simulator start where the core does.          *)
SameReset == RunRiscvTest /\ ~OnlyModeM /\ ~InitGprs

TestInit ==
  /\ AllInit
  /\ Sim!Reset /\ rmem = mem
  /\ running = TRUE
  /\ delay = Delay
  /\ sinceCommit = RstTicks
  /\ parted = ~SameReset

(* Where the effects differ (CoreRefines), and a read of cycle, which each *)
(* machine counts in its own way.                                          *)
TestParts == Parts({}) \/ (CsrRen /\ E.csr = "cycle")

(* The comparison reads the debug port after the clock edge. *)
Differ ==
  \/ ws'.pc # debug'.pc
  \/ /\ debug'.num # 0
     /\ (B'.rd # debug'.num \/ ws'.wdata # debug'.wdata)

(* fault: the dump does not count *)
MismatchDumpFree ==
  IF ~ShouldDelay THEN running' = FALSE /\ UNCHANGED delay
  ELSE IF DumpHistory /\ delay = DumpAt THEN UNCHANGED <<delay, running>>
  ELSE LET left == IF DumpHistory THEN delay - 1 ELSE delay
       IN delay' = left - 1 /\ running' = (left # 0)
(* What a mismatch does to the loop.  Evaluating "delay-- == 10" counts as *)
(* a mismatch even where the condition fails.                              *)
Mismatch ==
  IF ~ShouldDelay THEN running' = FALSE /\ UNCHANGED delay
  ELSE IF DumpHistory /\ delay = DumpAt THEN delay' = delay - 1 /\ UNCHANGED running
  ELSE LET left == IF DumpHistory THEN delay - 1 ELSE delay
       IN delay' = left - 1 /\ running' = (left # 0)

(* An instruction retires: step(0, 0, 0, 0) and the comparison, which a    *)
(* simulator that has left by exit() never reaches.                        *)
Commit ==
  /\ Clock({}) /\ ws'.valid
  /\ Sim!Step({})
  /\ IF exit' = "none" /\ Differ THEN Mismatch ELSE UNCHANGED <<running, delay>>
  /\ sinceCommit' = 2

(* A clock without a commit, and the watchdog. *)
Wait ==
  /\ Clock({}) /\ ~ws'.valid
  /\ UNCHANGED simVars /\ UNCHANGED delay
  /\ sinceCommit' = sinceCommit + 2
  /\ running' = (sinceCommit + 2 < CommitTimeout)

Loop == /\ running /\ exit = "none"
        /\ Commit \/ Wait
        /\ HistoryNext
        /\ parted' = (parted \/ TestParts)

TestSpec == TestInit /\ [][Loop]_testVars /\ WF_testVars(Loop)

-----------------------------------------------------------------------------
(* The two machines, at the point of the program the simulator has         *)
(* reached: the results still in write back count as written.              *)
CommittedReg(r) == IF BWrites(r) THEN ws.wdata ELSE regs[r]

(* The test gives no false alarm, and the watchdog none either: on the     *)
(* programs the two machines agree about no mismatch is counted, and the   *)
(* loop only ends by the exit of the simulator, which reports the result   *)
(* of the test or gives it up.                                             *)
NoAlarm == ~parted => running /\ delay = Delay

(* What the comparison cannot see: it looks at the register the simulator  *)
(* wrote, never at one the core wrote beside it or failed to write.  The   *)
(* two register files are nevertheless equal at every commit (but for the  *)
(* commit at which the simulator gives a test up, before it executes).     *)
RegistersAgree ==
  ~parted /\ exit # "timeout" => \A r \in Reg : rGPR[r] = CommittedReg(r)

(* Nor does it look at the memory.  The core's is ahead of the             *)
(* simulator's by the store that has not committed yet, and by no other    *)
(* byte.                                                                   *)
MemoryAgrees ==
  exit = "none" /\ ~parted =>
    mem = IF ms.valid /\ IsStore(M)
          THEN LET a == Add(ms.src1, M.imm)
               IN IF Misaligned(M.op, a) THEN rmem
                  ELSE WriteData(rmem, a, Strobes(M.op, a),
                                 Shl(rGPR[M.rt], (a % 8) * ByteBits))
          ELSE rmem

(* A test that is reported as passed was passed by the core: the call the  *)
(* simulator leaves by is the instruction the core commits, with the       *)
(* core's own registers holding the result.                                *)
PassEarned ==
  exit = "pass" /\ ~parted =>
    /\ ws.valid /\ ws.pc = debug.pc
    /\ \/ B.op = "ecall" /\ CommittedReg(A7) = ExitCall /\ CommittedReg(A0) = 0
       \/ B.op = "ebreak" /\ CommittedReg(A0) = 0
       \/ IsStore(B) /\ CommittedReg(B.rt) = 1

(* The watchdog never bites, on whatever program and after the machines    *)
(* have parted: no stall lasts and no redirection starves the pipeline.    *)
CommitsInTime == sinceCommit < CommitTimeout

(* The test comes to an end: the simulator reports a result, the watchdog   *)
(* bites, or, where the machines part for good, the mismatches run out     *)
(* although the loop tests their count for equality with 0.                *)
Ends == <>(exit # "none" \/ ~running)
=============================================================================
