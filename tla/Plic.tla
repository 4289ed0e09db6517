-------------------------------- MODULE Plic --------------------------------
(***************************************************************************)
(* The interrupt controller of the simulation, rv_plic, between devices    *)
(* that raise their lines and the contexts of the harts, whose handlers    *)
(* claim a source, serve it and complete it.  The bit words pending,       *)
(* enable and claimed are sets of bit numbers; bit 0 of claimed, which     *)
(* nothing looks at, is left out.                                          *)
(*                                                                         *)
(* Nothing orders the calls: a device sets its line, a hart asks for its   *)
(* external interrupt (which computes the claim register of its context)   *)
(* and programs access the registers, in any interleaving.                 *)
(***************************************************************************)
EXTENDS Naturals

CONSTANTS
  NrSource,     \* nr_source, below 32: one word per bit array
  NrContext,    \* nr_context
  PriorityWrites, EnableWrites, ThresholdWrites   \* what programs write, by index

Source  == 1 .. NrSource
Context == 0 .. (NrContext - 1)

ASSUME PlicAssumption ==
  /\ NrSource \in 1..31 /\ NrContext \in Nat \ {0}
  /\ PriorityWrites \subseteq Source \X Nat
  /\ EnableWrites \subseteq Context \X SUBSET (0 .. 31)
  /\ ThresholdWrites \subseteq Context \X Nat

VARIABLES
  priority, pending, enable, threshold, claim, claimed,   \* rv_plic
  asked        \* history: the contexts asked since a claim register was read

plicVars == <<priority, pending, enable, threshold, claim, claimed, asked>>
config == <<priority, enable, threshold>>

PlicInit ==
  /\ priority = [s \in Source |-> 0]
  /\ pending = {} /\ claimed = {}
  /\ enable = [c \in Context |-> {}]
  /\ threshold = [c \in Context |-> 0]
  /\ claim = [c \in Context |-> 0]
  /\ asked = {}

(* word >> i, as a condition: true for every bit at or above i. *)
Shifted(word, i) == \E j \in word : j >= i

CandidatesClaimed(c, lines) ==       \* fault: claimed sources are offered again
  {s \in Source : /\ priority[s] > 0 /\ priority[s] >= threshold[c]
                  /\ Shifted(lines, s) /\ Shifted(enable[c], s)}
CandidatesAbove(c, lines) ==         \* fault: the threshold itself is held back
  {s \in Source : /\ priority[s] > threshold[c]
                  /\ Shifted(lines, s) /\ Shifted(enable[c], s)
                  /\ ~Shifted(claimed, s)}
(* get_int: the first source of the highest priority above 0. *)
Candidates(c, lines) ==
  {s \in Source : /\ priority[s] > 0 /\ priority[s] >= threshold[c]
                  /\ Shifted(lines, s) /\ Shifted(enable[c], s)
                  /\ ~Shifted(claimed, s)}
BestFirst(S) ==      \* fault: the highest priority so far is not kept
  IF S = {} THEN 0 ELSE CHOOSE s \in S : \A r \in S : s <= r
Best(S) ==
  IF S = {} THEN 0
  ELSE CHOOSE s \in S : \A r \in S : \/ priority[s] > priority[r]
                                     \/ priority[s] = priority[r] /\ s <= r

(* update_ext and get_int, which returns whether claim[c] is not 0.        *)
UpdateExt(s, fired) ==
  /\ pending' = IF fired THEN pending \cup {s} ELSE pending \ {s}
  /\ UNCHANGED <<config, claim, claimed, asked>>
GetInt(c) ==
  /\ claim' = [claim EXCEPT ![c] = Best(Candidates(c, pending))]
  /\ asked' = asked \cup {c}
  /\ UNCHANGED <<config, pending, claimed>>

(* do_read and do_write, by register.  The priority of source 0, the       *)
(* pending bits and whatever lies beyond a table are not written.          *)
WritePriority(s, p) ==
  /\ priority' = [priority EXCEPT ![s] = p]
  /\ UNCHANGED <<enable, threshold, pending, claim, claimed, asked>>
WriteEnable(c, bits) ==
  /\ enable' = [enable EXCEPT ![c] = bits]
  /\ UNCHANGED <<priority, threshold, pending, claim, claimed, asked>>
WriteThreshold(c, p) ==
  /\ threshold' = [threshold EXCEPT ![c] = p]
  /\ UNCHANGED <<priority, enable, pending, claim, claimed, asked>>
ReadClaim(c) ==
  /\ claimed' = claimed \cup ({claim[c]} \ {0})
  /\ asked' = {}
  /\ UNCHANGED <<config, pending, claim>>
Complete(s) ==
  /\ claimed' = claimed \ {s}
  /\ UNCHANGED <<config, pending, claim, asked>>

Configure ==
  \/ \E w \in PriorityWrites  : WritePriority(w[1], w[2])
  \/ \E w \in EnableWrites    : WriteEnable(w[1], w[2])
  \/ \E w \in ThresholdWrites : WriteThreshold(w[1], w[2])

PlicNext ==
  \/ Configure
  \/ \E s \in Source : Complete(s) \/ \E fired \in BOOLEAN : UpdateExt(s, fired)
  \/ \E c \in Context : GetInt(c) \/ ReadClaim(c)

PlicSpec == PlicInit /\ [][PlicNext]_plicVars

-----------------------------------------------------------------------------
(* A source is handed to one handler at a time: a claim register that was  *)
(* computed since the last read of a claim register, by whatever context,  *)
(* never returns a source that was claimed and has not been completed,     *)
(* whatever lines, settings and completions came in between.  A register   *)
(* that was computed before another context claimed may: the read neither  *)
(* looks at claimed nor computes the register again.                       *)
ClaimExclusive ==
  [][\A c \in Context :
       ReadClaim(c) /\ c \in asked /\ claim[c] # 0 => claim[c] \notin claimed]_plicVars

(* What get_int offers is let through by the threshold, has an asserted    *)
(* and an enabled source at or above it, and a source that is asserted,    *)
(* enabled, let through and of a higher priority is passed over only       *)
(* behind a claimed one: the shifts that are not masked let a bit answer   *)
(* for every source numbered below it.                                     *)
OfferedHighest ==
  [][\A c \in Context : GetInt(c) =>
       LET k == claim'[c]
           p == IF k = 0 THEN 0 ELSE priority[k]
       IN /\ k # 0 => /\ p >= threshold[c]
                      /\ \E i \in pending : i >= k
                      /\ \E i \in enable[c] : i >= k
          /\ \A s \in pending \cap enable[c] :
               priority[s] >= threshold[c] /\ priority[s] > p
                 => \E j \in claimed : j >= s]_plicVars

(* No interrupt is lost: a source that stays asserted, of a higher         *)
(* priority than the others, and enabled in a context whose threshold it   *)
(* passes, is claimed again and again, whatever else happens there and in  *)
(* the other contexts and however often a claimed source hides it.  That   *)
(* takes a caller that asks for every context before a claim register is   *)
(* read, as one does that computes the arguments of rv_core::step() for    *)
(* each instruction, and a handler that does not for ever let the offer    *)
(* pass.                                                                   *)
UpToDate == \A c \in Context : claim[c] = Best(Candidates(c, pending))
Served ==
  \A s \in Source, c \in Context :
    /\ <>[](/\ s \in pending /\ s \in enable[c]
            /\ priority[s] > 0 /\ priority[s] >= threshold[c]
            /\ \A r \in Source \ {s} : priority[r] < priority[s])
    /\ <>[][\A d \in Context : ReadClaim(d) => UpToDate]_plicVars
    /\ SF_plicVars(claim[c] = s /\ ReadClaim(c))
    => []<>(s \in claimed)
=============================================================================
