---------------------------- MODULE DeviceProofs -----------------------------
(***************************************************************************)
(* The devices of the simulation, its TLB and its check of accesses, for   *)
(* every number of harts, sources, contexts and address spaces, every word *)
(* size, and any number of writes.                                         *)
(***************************************************************************)
EXTENDS MCDevices, NatLemmas, FiniteSetTheorems

(***************************************************************************)
(* The timer (Clint)                                                       *)
(***************************************************************************)
ClintTypeOK ==
  /\ mtime \in Time
  /\ mtimecmp \in [Hart -> Time]
  /\ msip \in [Hart -> {0, 1}]

LEMMA WordSize == H \in Nat \ {0} /\ H >= 2
  BY ClintAssumption

(* Storing words into a register of two words leaves it one.               *)
LEMMA PairType ==
  ASSUME NEW D, NEW val \in [D -> Half], NEW w, NEW old \in Time
  PROVE  Pair(val, w, old) \in Time
<1>1. old % H \in Half /\ old \div H \in Half
  BY WordSize, TwoDigits DEF Time, Half
<1>2. Stored(val, w, old % H) \in Half /\ Stored(val, w + 1, old \div H) \in Half
  BY <1>1 DEF Stored
<1> QED  BY <1>2, WordSize, TwoDigits DEF Pair, Time, Half

LEMMA NextTime ==
  ASSUME NEW t \in Time
  PROVE  /\ (t + 1) % (H * H) \in Time
         /\ t # Never => (t + 1) % (H * H) = t + 1
<1> DEFINE N == H * H
<1>1. N \in Nat \ {0}
  <2>1. H * H >= H  BY WordSize, TimesAtLeast
  <2> QED  BY <2>1, WordSize
<1> HIDE DEF N
<1>2. ASSUME NEW u \in 0 .. (N - 1) PROVE (u + 1) % N \in 0 .. (N - 1)
                                       /\ (u # N - 1 => (u + 1) % N = u + 1)
  BY <1>1
<1> QED  BY <1>2 DEF N, Time, Never

LEMMA ClintInitType == ClintInit => ClintTypeOK
<1>1. 0 \in Time
  <2>1. H * H >= H  BY WordSize, TimesAtLeast
  <2> QED  BY <2>1, WordSize DEF Time
<1> QED  BY <1>1 DEF ClintInit, ClintTypeOK

LEMMA ClintNextType == ClintTypeOK /\ [ClintNext]_clintVars => ClintTypeOK'
<1> SUFFICES ASSUME ClintTypeOK, [ClintNext]_clintVars PROVE ClintTypeOK'
  OBVIOUS
<1>1. CASE Tick  BY <1>1, NextTime DEF Tick, ClintTypeOK
<1>2. ASSUME NEW t \in Time, Synchronize(t) PROVE ClintTypeOK'
  BY <1>2 DEF Synchronize, ClintTypeOK
<1>3. ASSUME NEW a, NEW size, NEW val \in [a .. (a + size - 1) -> Half],
             Write(a, size, val)
      PROVE  ClintTypeOK'
  <2>1. CASE WriteTime(val)  BY <2>1, PairType DEF WriteTime, ClintTypeOK
  <2>2. CASE WriteCmp(val)   BY <2>2, PairType DEF WriteCmp, ClintTypeOK
  <2>3. CASE WriteMsip(val)
    <3>1. \A h \in Hart : Stored(val, h, msip[h]) \in Nat
      BY WordSize DEF Stored, Half, ClintTypeOK
    <3>2. \A x \in Nat : x % 2 \in {0, 1}  OBVIOUS
    <3> QED  BY <2>3, <3>1, <3>2 DEF WriteMsip, ClintTypeOK
  <2> QED  BY <1>3, <2>1, <2>2, <2>3 DEF Write
<1>4. CASE UNCHANGED clintVars  BY <1>4 DEF clintVars, ClintTypeOK
<1> QED  BY <1>1, <1>2, <1>3, <1>4 DEF ClintNext

LEMMA ClintTypeInvariant == ClintSpec => []ClintTypeOK
  BY ClintInitType, ClintNextType, PTL DEF ClintSpec

(* The line, once up, stays up as time passes.                             *)
THEOREM TimerStays == ClintSpec => TimerSticky
<1>1. ClintTypeOK => (Tick /\ mtime # Never => \A h \in Hart : m_t_irq(h) => m_t_irq(h)')
  <2> SUFFICES ASSUME ClintTypeOK, Tick, mtime # Never, NEW h \in Hart, m_t_irq(h)
               PROVE  m_t_irq(h)'
    OBVIOUS
  <2>1. mtime' = mtime + 1 /\ mtimecmp' = mtimecmp
    BY NextTime DEF Tick, ClintTypeOK
  <2>2. mtime \in Int /\ mtimecmp[h] \in Int  BY DEF ClintTypeOK, Time
  <2> QED  BY <2>1, <2>2 DEF m_t_irq
<1> QED  BY <1>1, ClintTypeInvariant, PTL DEF TimerSticky

-----------------------------------------------------------------------------
(* The words of a compare register belong to no other region.              *)
LEMMA CmpWords ==
  ASSUME NEW h \in Hart, NEW w \in {LowCmp(h), HighCmp(h)}
  PROVE  /\ w \in Nat /\ w >= NrHart /\ w >= CmpBase /\ w < TimeBase
         /\ (w - CmpBase) \div 2 = h
         /\ (w - CmpBase) % 2 = 0 <=> w = LowCmp(h)
  BY ClintAssumption DEF Hart, LowCmp, HighCmp

LEMMA CmpWritten ==
  ASSUME ClintTypeOK, NEW h \in Hart, NEW w \in {LowCmp(h), HighCmp(h)}, NEW x \in Half,
         Write(w, 1, [u \in {w} |-> x])
  PROVE  /\ mtime' = mtime
         /\ mtimecmp'[h] = IF w = LowCmp(h)
                           THEN x + H * (mtimecmp[h] \div H)
                           ELSE (mtimecmp[h] % H) + H * x
<1> DEFINE val == [u \in {w} |-> x]
<1>1. WriteCmp(val)
  <2>0. w \in Nat /\ w >= CmpBase /\ w < TimeBase  BY CmpWords
  <2>1. ~InTime(w, 1) /\ ~InMsip(w, 1)
    BY <2>0, ClintAssumption DEF InTime, InMsip
  <2> QED  BY <2>1 DEF Write
<1>2. mtimecmp'[h] = Pair(val, CmpBase + 2 * h, mtimecmp[h])
  BY <1>1 DEF WriteCmp, ClintTypeOK
<1>3. DOMAIN val = {w} /\ val[w] = x  OBVIOUS
<1>4. LowCmp(h) # HighCmp(h) /\ CmpBase + 2 * h = LowCmp(h)
                            /\ CmpBase + 2 * h + 1 = HighCmp(h)
  BY ClintAssumption DEF LowCmp, HighCmp, Hart
<1> HIDE DEF val
<1>5. Stored(val, LowCmp(h), mtimecmp[h] % H)
        = IF w = LowCmp(h) THEN x ELSE mtimecmp[h] % H
  BY <1>3, <1>4 DEF Stored
<1>6. Stored(val, HighCmp(h), mtimecmp[h] \div H)
        = IF w = LowCmp(h) THEN mtimecmp[h] \div H ELSE x
  BY <1>3, <1>4 DEF Stored
<1>7. mtime' = mtime  BY <1>1 DEF WriteCmp
<1> QED  BY <1>2, <1>4, <1>5, <1>6, <1>7 DEF Pair

(* Below all ones in the upper half.                                       *)
LEMMA UpperOnes ==
  ASSUME NEW t \in Time, NEW x \in Half, t \div H < H - 1
  PROVE  t <= x + H * (H - 1)
<1>1. /\ t = H * (t \div H) + (t % H)
      /\ t \div H \in Half /\ t % H \in Half
  BY WordSize, TwoDigits DEF Time, Half
<1> DEFINE q == t \div H
<1> HIDE DEF q
<1>2. q \in Nat /\ q <= H - 2 /\ H - 2 \in Nat  BY <1>1, WordSize DEF q, Half
<1>3. H * q <= H * (H - 2)  BY <1>2, WordSize, TimesMonotone
<1>4. H * (H - 1) = H * (H - 2) + H  BY WordSize
<1>5. t <= H * q + H - 1  BY <1>1, WordSize DEF q, Half
<1> QED  BY <1>1, <1>2, <1>3, <1>4, <1>5, WordSize DEF q, Half

(* Moving an alarm in the order upper half first is silent.                *)
THEOREM MovesQuietly == ClintSpec => NoSpurious
<1>1. ClintTypeOK => \A h \in Hart, v \in Half :
        /\ ~m_t_irq(h) /\ mtime \div H < H - 1
        /\ \/ Write(HighCmp(h), 1, [w \in {HighCmp(h)} |-> H - 1])
           \/ WordAt(HighCmp(h)) = H - 1 /\ Write(LowCmp(h), 1, [w \in {LowCmp(h)} |-> v])
        => ~m_t_irq(h)'
  <2> SUFFICES ASSUME ClintTypeOK, NEW h \in Hart, NEW v \in Half, mtime \div H < H - 1,
                      \/ Write(HighCmp(h), 1, [w \in {HighCmp(h)} |-> H - 1])
                      \/ /\ WordAt(HighCmp(h)) = H - 1
                         /\ Write(LowCmp(h), 1, [w \in {LowCmp(h)} |-> v])
               PROVE  ~m_t_irq(h)'
    OBVIOUS
  <2>1. /\ mtime \in Time /\ mtimecmp[h] \in Time /\ H - 1 \in Half
        /\ mtimecmp[h] % H \in Half
    BY WordSize, TwoDigits DEF ClintTypeOK, Time, Half
  <2>2. LowCmp(h) # HighCmp(h)
    BY ClintAssumption DEF LowCmp, HighCmp, Hart
  <2>3. CASE Write(HighCmp(h), 1, [w \in {HighCmp(h)} |-> H - 1])
    <3>1. mtime' = mtime /\ mtimecmp'[h] = (mtimecmp[h] % H) + H * (H - 1)
      BY <2>1, <2>2, <2>3, CmpWritten
    <3>2. mtime <= (mtimecmp[h] % H) + H * (H - 1)  BY <2>1, UpperOnes
    <3> QED  BY <3>1, <3>2, <2>1, WordSize DEF m_t_irq, Time, Half
  <2>4. CASE /\ WordAt(HighCmp(h)) = H - 1
             /\ Write(LowCmp(h), 1, [w \in {LowCmp(h)} |-> v])
    <3>1. mtimecmp[h] \div H = H - 1
      BY <2>2, <2>4, CmpWords, ClintAssumption DEF WordAt
    <3>2. mtime' = mtime /\ mtimecmp'[h] = v + H * (H - 1)
      BY <2>4, <3>1, CmpWritten
    <3>3. mtime <= v + H * (H - 1)  BY <2>1, UpperOnes
    <3> QED  BY <3>2, <3>3, <2>1, WordSize DEF m_t_irq, Time, Half
  <2> QED  BY <2>3, <2>4
<1>2. ClintTypeOK => (writes' # writes =>
        \A h \in Hart, v \in Half :
        /\ ~m_t_irq(h) /\ mtime \div H < H - 1
        /\ \/ Write(HighCmp(h), 1, [w \in {HighCmp(h)} |-> H - 1])
           \/ WordAt(HighCmp(h)) = H - 1 /\ Write(LowCmp(h), 1, [w \in {LowCmp(h)} |-> v])
        => ~m_t_irq(h)')
  BY <1>1
<1> QED  BY <1>2, ClintTypeInvariant, PTL DEF NoSpurious

(* A register none of whose words is written keeps its value.              *)
LEMMA PairKept ==
  ASSUME NEW val, NEW w, NEW old \in Time, {w, w + 1} \cap DOMAIN val = {}
  PROVE  Pair(val, w, old) = old
<1>1. Pair(val, w, old) = (old % H) + H * (old \div H)
  BY DEF Pair, Stored
<1>2. old = H * (old \div H) + (old % H) /\ old \div H \in Int /\ old % H \in Int
  BY WordSize DEF Time
<1> QED  BY <1>1, <1>2, WordSize

(* A write reaches the lines of the harts whose words it covers and of no  *)
(* other hart.                                                             *)
LEMMA OthersKeepLines ==
  ASSUME ClintTypeOK, NEW a, NEW size, NEW val, Write(a, size, val), ~InTime(a, size),
         NEW h \in Hart, h \notin DOMAIN val,
         {CmpBase + 2 * h, CmpBase + 2 * h + 1} \cap DOMAIN val = {}
  PROVE  Lines'[h] = Lines[h]
<1>1. mtime' = mtime  BY DEF Write, WriteCmp, WriteMsip
<1>2. mtimecmp'[h] = mtimecmp[h]
  <2>1. CASE WriteCmp(val)
    <3>1. mtimecmp'[h] = Pair(val, CmpBase + 2 * h, mtimecmp[h])
      BY <2>1 DEF WriteCmp
    <3> QED  BY <3>1, PairKept DEF ClintTypeOK
  <2>2. CASE WriteMsip(val)  BY <2>2 DEF WriteMsip
  <2> QED  BY <2>1, <2>2 DEF Write
<1>3. msip'[h] = msip[h]
  <2>1. CASE WriteMsip(val)
    <3>1. msip'[h] = Stored(val, h, msip[h]) % 2  BY <2>1 DEF WriteMsip
    <3>2. msip[h] \in {0, 1}  BY DEF ClintTypeOK
    <3> QED  BY <3>1, <3>2 DEF Stored
  <2>2. CASE WriteCmp(val)  BY <2>2 DEF WriteCmp
  <2> QED  BY <2>1, <2>2 DEF Write
<1> QED  BY <1>1, <1>2, <1>3 DEF Lines, m_s_irq, m_t_irq

(* Two harts that program their timers, or interrupt each other, never     *)
(* disturb a third, whatever words their writes cover.                     *)
THEOREM WritesIsolated == ClintSpec => Isolated
<1> DEFINE Apart ==
      \A a \in 0 .. (TimeBase - 1), size \in {1, 2} :
        \A val \in [a .. (a + size - 1) -> Half] :
          Write(a, size, val) /\ ~InTime(a, size) =>
            \A h \in Hart :
              h \notin DOMAIN val
                /\ {CmpBase + 2 * h, CmpBase + 2 * h + 1} \cap DOMAIN val = {}
              => Lines'[h] = Lines[h]
<1>1. ClintTypeOK => Apart  BY OthersKeepLines
<1>2. ClintTypeOK => (writes' # writes /\ Lines' # Lines => Apart)  BY <1>1
<1> QED  BY <1>2, ClintTypeInvariant, PTL DEF Isolated

(***************************************************************************)
(* The interrupt controller (Plic)                                         *)
(***************************************************************************)
PlicTypeOK ==
  /\ priority \in [Source -> Nat]
  /\ pending \subseteq Source
  /\ enable \in [Context -> SUBSET (0 .. 31)]
  /\ threshold \in [Context -> Nat]
  /\ claimed \subseteq Source
  /\ claim \in [Context -> 0 .. NrSource]
  /\ asked \subseteq Context

(* Completions only shrink claimed, and a read of a claim register, which  *)
(* may put another context's offer into it, empties asked: an offer made   *)
(* since the last read is of a source nobody has claimed.                  *)
OfferUnclaimed == \A c \in asked : claim[c] # 0 => claim[c] \notin claimed

PlicIInv == PlicTypeOK /\ OfferUnclaimed

-----------------------------------------------------------------------------
LEMMA SourceNat ==
  NrSource \in Nat /\ \A s \in Source : s \in Nat /\ s # 0 /\ s \in 0 .. NrSource
  BY PlicAssumption DEF Source

(* The sources are finitely many: some number bounds their priorities.  The *)
(* least number of a source up to which none did would have a predecessor.  *)
LEMMA PriorityBound ==
  ASSUME PlicTypeOK PROVE \E m \in Nat : \A s \in Source : priority[s] <= m
<1> DEFINE Bounded(k) == \E m \in Nat : \A s \in Source : s <= k => priority[s] <= m
           T == {k \in Nat : ~Bounded(k)}
<1>0. \A s \in Source : s \in Nat /\ s # 0 /\ s <= NrSource /\ priority[s] \in Nat
  BY SourceNat DEF PlicTypeOK
<1>1. T = {}
  <2> SUFFICES ASSUME T # {} PROVE FALSE
    OBVIOUS
  <2>1. PICK k \in T : \A n \in T : k <= n
    <3>1. T \subseteq Nat  OBVIOUS
    <3> HIDE DEF T
    <3> QED  BY <3>1, LeastNat
  <2>2. k \in Nat /\ ~Bounded(k)  BY <2>1
  <2>3. Bounded(0)
    <3>1. \A s \in Source : ~(s <= 0)  BY <1>0
    <3> QED  BY <3>1
  <2>4. k - 1 \in Nat /\ k - 1 \notin T
    <3>1. k # 0  BY <2>2, <2>3
    <3>2. k - 1 \in Nat /\ ~(k <= k - 1)  BY <2>2, <3>1
    <3> QED  BY <2>1, <3>2
  <2>5. PICK m \in Nat : \A s \in Source : s <= k - 1 => priority[s] <= m
    BY <2>4
  <2>6. CASE k \in Source
    <3>1. priority[k] \in Nat  BY <1>0, <2>6
    <3>2. \A s \in Source : s <= k => priority[s] <= m + priority[k]
      BY <1>0, <2>2, <2>5, <3>1
    <3> QED  BY <2>2, <3>1, <3>2
  <2>7. CASE k \notin Source
    <3>1. \A s \in Source : s <= k => priority[s] <= m
      BY <1>0, <2>2, <2>5, <2>7
    <3> QED  BY <2>2, <3>1
  <2> QED  BY <2>6, <2>7
<1>2. Bounded(NrSource)  BY <1>1, SourceNat
<1> QED  BY <1>0, <1>2

(* There is a best source: the least distance from a bound of the          *)
(* priorities, and of the sources at that distance the least number.       *)
LEMMA BestIsBest ==
  ASSUME PlicTypeOK, NEW S \in SUBSET Source, S # {}
  PROVE  /\ Best(S) \in S
         /\ \A r \in S : priority[r] <= priority[Best(S)]
<1>1. PICK m \in Nat : \A s \in Source : priority[s] <= m  BY PriorityBound
<1>2. \A s \in S : priority[s] \in Nat /\ priority[s] <= m /\ s \in Nat
  BY <1>1, SourceNat DEF PlicTypeOK
<1> DEFINE T == {m - priority[s] : s \in S}
<1>3. T \subseteq Nat /\ T # {}
  <2>1. \A s \in S : m - priority[s] \in Nat  BY <1>2
  <2> QED  BY <2>1
<1>4. PICK d \in T : \A n \in T : d <= n
  <2> HIDE DEF T
  <2> QED  BY <1>3, LeastNat
<1>5. \A r \in S : d <= m - priority[r]  BY <1>4
<1> DEFINE U == {s \in S : d = m - priority[s]}
<1>6. U \subseteq Nat /\ U # {}  BY <1>2, <1>4
<1>7. PICK b \in U : \A n \in U : b <= n
  <2> HIDE DEF U
  <2> QED  BY <1>6, LeastNat
<1>8. b \in S /\ d = m - priority[b]  BY <1>7
<1>9. \A r \in S : \/ priority[b] > priority[r]
                   \/ priority[b] = priority[r] /\ b <= r
  <2> SUFFICES ASSUME NEW r \in S
               PROVE  \/ priority[b] > priority[r]
                      \/ priority[b] = priority[r] /\ b <= r
    OBVIOUS
  <2>1. CASE r \in U  BY <1>2, <1>7, <1>8, <2>1
  <2>2. CASE r \notin U
    <3>1. d # m - priority[r]  BY <2>2
    <3> HIDE DEF U, T
    <3> QED  BY <1>2, <1>5, <1>8, <3>1
  <2> QED  BY <2>1, <2>2
<1>10. /\ Best(S) \in S
       /\ \A r \in S : \/ priority[Best(S)] > priority[r]
                       \/ priority[Best(S)] = priority[r] /\ Best(S) <= r
  <2> HIDE DEF U, T
  <2> QED  BY <1>8, <1>9, Zenon DEF Best
<1> HIDE DEF U, T
<1> QED  BY <1>2, <1>10

LEMMA CandidatesType == \A c, lines : Candidates(c, lines) \in SUBSET Source
  BY DEF Candidates

LEMMA BestType ==
  ASSUME PlicTypeOK, NEW S \in SUBSET Source PROVE Best(S) \in 0 .. NrSource
<1>1. CASE S = {}  BY <1>1, SourceNat DEF Best
<1>2. CASE S # {}
  <2>1. Best(S) \in S  BY <1>2, BestIsBest
  <2> QED  BY <2>1, SourceNat
<1> QED  BY <1>1, <1>2

(* What get_int offers is a candidate, and no candidate is better.         *)
LEMMA OfferedCandidate ==
  ASSUME PlicTypeOK, NEW c \in Context, GetInt(c)
  PROVE  IF claim'[c] = 0 THEN Candidates(c, pending) = {}
         ELSE /\ claim'[c] \in Candidates(c, pending)
              /\ \A r \in Candidates(c, pending) : priority[r] <= priority[claim'[c]]
<1>1. claim'[c] = Best(Candidates(c, pending))  BY DEF GetInt, PlicTypeOK
<1>2. CASE Candidates(c, pending) = {}  BY <1>1, <1>2 DEF Best
<1>3. CASE Candidates(c, pending) # {}
  <2>1. /\ claim'[c] \in Candidates(c, pending)
        /\ \A r \in Candidates(c, pending) : priority[r] <= priority[claim'[c]]
    BY <1>1, <1>3, BestIsBest, CandidatesType
  <2>2. claim'[c] # 0  BY <2>1, SourceNat DEF Candidates
  <2> QED  BY <2>1, <2>2
<1> QED  BY <1>2, <1>3

-----------------------------------------------------------------------------
LEMMA PlicInitIInv == PlicInit => PlicIInv
  BY SourceNat DEF PlicInit, PlicIInv, PlicTypeOK, OfferUnclaimed

LEMMA ConfigureIInv == PlicIInv /\ Configure => PlicIInv'
<1> SUFFICES ASSUME PlicIInv, Configure PROVE PlicIInv'
  OBVIOUS
<1>1. UNCHANGED <<pending, claim, claimed, asked>>
  BY DEF Configure, WritePriority, WriteEnable, WriteThreshold
<1>2. (priority \in [Source -> Nat])'
  <2>1. ASSUME NEW w \in PriorityWrites, WritePriority(w[1], w[2]) PROVE priority' \in [Source -> Nat]
    <3>1. w[1] \in Source /\ w[2] \in Nat  BY PlicAssumption
    <3> QED  BY <2>1, <3>1 DEF WritePriority, PlicIInv, PlicTypeOK
  <2> QED  BY <2>1 DEF Configure, WriteEnable, WriteThreshold, PlicIInv, PlicTypeOK
<1>3. (enable \in [Context -> SUBSET (0 .. 31)])'
  <2>1. ASSUME NEW w \in EnableWrites, WriteEnable(w[1], w[2])
        PROVE  enable' \in [Context -> SUBSET (0 .. 31)]
    <3>1. w[1] \in Context /\ w[2] \in SUBSET (0 .. 31)  BY PlicAssumption
    <3> QED  BY <2>1, <3>1 DEF WriteEnable, PlicIInv, PlicTypeOK
  <2> QED  BY <2>1 DEF Configure, WritePriority, WriteThreshold, PlicIInv, PlicTypeOK
<1>4. (threshold \in [Context -> Nat])'
  <2>1. ASSUME NEW w \in ThresholdWrites, WriteThreshold(w[1], w[2])
        PROVE  threshold' \in [Context -> Nat]
    <3>1. w[1] \in Context /\ w[2] \in Nat  BY PlicAssumption
    <3> QED  BY <2>1, <3>1 DEF WriteThreshold, PlicIInv, PlicTypeOK
  <2> QED  BY <2>1 DEF Configure, WritePriority, WriteEnable, PlicIInv, PlicTypeOK
<1> QED  BY <1>1, <1>2, <1>3, <1>4 DEF PlicIInv, PlicTypeOK, OfferUnclaimed

LEMMA PlicNextIInv == PlicIInv /\ [PlicNext]_plicVars => PlicIInv'
<1> SUFFICES ASSUME PlicIInv, [PlicNext]_plicVars PROVE PlicIInv'
  OBVIOUS
<1>0. PlicTypeOK  BY DEF PlicIInv
<1>1. CASE Configure  BY <1>1, ConfigureIInv
<1>2. ASSUME NEW s \in Source, Complete(s) PROVE PlicIInv'
  BY <1>2 DEF Complete, config, PlicIInv, PlicTypeOK, OfferUnclaimed
<1>3. ASSUME NEW s \in Source, NEW fired \in BOOLEAN, UpdateExt(s, fired) PROVE PlicIInv'
  BY <1>3 DEF UpdateExt, config, PlicIInv, PlicTypeOK, OfferUnclaimed
<1>4. ASSUME NEW c \in Context, GetInt(c) PROVE PlicIInv'
  <2>1. Best(Candidates(c, pending)) \in 0 .. NrSource
    BY <1>0, BestType, CandidatesType
  <2>2. PlicTypeOK'  BY <1>0, <1>4, <2>1 DEF GetInt, config, PlicTypeOK
  <2>3. claim'[c] # 0 => claim'[c] \notin claimed
    <3>1. ASSUME claim'[c] # 0 PROVE claim'[c] \notin claimed
      <4>1. claim'[c] \in Candidates(c, pending)
        BY <1>0, <1>4, <3>1, OfferedCandidate
      <4>2. claim'[c] \in Source /\ ~Shifted(claimed, claim'[c])
        BY <4>1 DEF Candidates
      <4>3. claim'[c] \in Nat  BY <4>2, SourceNat
      <4> QED  BY <4>2, <4>3 DEF Shifted
    <3> QED  BY <3>1
  <2>4. \A d \in asked \cup {c} : claim'[d] # 0 => claim'[d] \notin claimed
    BY <1>4, <2>3 DEF GetInt, PlicIInv, PlicTypeOK, OfferUnclaimed
  <2> QED  BY <1>4, <2>2, <2>4 DEF GetInt, PlicIInv, OfferUnclaimed
<1>5. ASSUME NEW c \in Context, ReadClaim(c) PROVE PlicIInv'
  <2>1. {claim[c]} \ {0} \subseteq Source
    BY <1>0, SourceNat DEF PlicTypeOK, Source
  <2> QED  BY <1>5, <2>1 DEF ReadClaim, config, PlicIInv, PlicTypeOK, OfferUnclaimed
<1>6. CASE UNCHANGED plicVars
  BY <1>6 DEF plicVars, PlicIInv, PlicTypeOK, OfferUnclaimed
<1> QED  BY <1>1, <1>2, <1>3, <1>4, <1>5, <1>6 DEF PlicNext

LEMMA PlicIInvInvariant == PlicSpec => []PlicIInv
  BY PlicInitIInv, PlicNextIInv, PTL DEF PlicSpec

-----------------------------------------------------------------------------
(* No read of a claim register that was computed since the last one        *)
(* returns a source that is being served, for any number of sources and    *)
(* contexts and any settings.                                              *)
THEOREM ClaimsExclusive == PlicSpec => ClaimExclusive
<1>1. PlicIInv => \A c \in Context :
        ReadClaim(c) /\ c \in asked /\ claim[c] # 0 => claim[c] \notin claimed
  BY DEF PlicIInv, OfferUnclaimed
<1> QED  BY <1>1, PlicIInvInvariant, PTL DEF ClaimExclusive

(* What get_int offers is let through, and what is better is hidden by a   *)
(* claimed source at or above it.                                          *)
THEOREM OfferedIsHighest == PlicSpec => OfferedHighest
<1> DEFINE Offer(c) ==
      GetInt(c) =>
        LET k == claim'[c]
            p == IF k = 0 THEN 0 ELSE priority[k]
        IN /\ k # 0 => /\ p >= threshold[c]
                       /\ \E i \in pending : i >= k
                       /\ \E i \in enable[c] : i >= k
           /\ \A s \in pending \cap enable[c] :
                priority[s] >= threshold[c] /\ priority[s] > p
                  => \E j \in claimed : j >= s
<1>1. ASSUME PlicTypeOK, NEW c \in Context, GetInt(c) PROVE Offer(c)
  <2> DEFINE k == claim'[c]
             p == IF k = 0 THEN 0 ELSE priority[k]
  <2>1. k # 0 => /\ p >= threshold[c]
                 /\ \E i \in pending : i >= k
                 /\ \E i \in enable[c] : i >= k
    <3>1. ASSUME k # 0 PROVE k \in Candidates(c, pending)
      BY <1>1, <3>1, OfferedCandidate
    <3> QED  BY <3>1 DEF Candidates, Shifted
  <2>2. ASSUME NEW s \in pending \cap enable[c],
               priority[s] >= threshold[c], priority[s] > p
        PROVE  \E j \in claimed : j >= s
    <3>1. s \in Source /\ s \in Nat /\ priority[s] \in Nat
      BY <1>1, SourceNat DEF PlicTypeOK
    <3>2. s \notin Candidates(c, pending) /\ priority[s] > 0
      <4>1. CASE k = 0
        BY <1>1, <2>2, <4>1, OfferedCandidate
      <4>2. CASE k # 0
        <5>1. /\ k \in Candidates(c, pending)
              /\ \A r \in Candidates(c, pending) : priority[r] <= priority[k]
          BY <1>1, <4>2, OfferedCandidate
        <5>2. priority[k] \in Nat  BY <1>1, <5>1 DEF Candidates, PlicTypeOK
        <5>3. priority[s] > priority[k]  BY <2>2, <4>2
        <5>4. s \notin Candidates(c, pending)
          <6> HIDE DEF k
          <6> QED  BY <3>1, <5>1, <5>2, <5>3
        <5>5. priority[s] > 0
          <6> HIDE DEF k
          <6> QED  BY <3>1, <5>2, <5>3
        <5> QED  BY <5>4, <5>5
      <4> QED  BY <4>1, <4>2
    <3>3. Shifted(pending, s) /\ Shifted(enable[c], s)
      BY <2>2, <3>1 DEF Shifted
    <3>4. Shifted(claimed, s)  BY <2>2, <3>1, <3>2, <3>3 DEF Candidates
    <3> QED  BY <3>4 DEF Shifted
  <2> QED  BY <2>1, <2>2
<1>2. PlicIInv => \A c \in Context : Offer(c)
  BY <1>1 DEF PlicIInv
<1> QED  BY <1>2, PlicIInvInvariant, PTL DEF OfferedHighest

(***************************************************************************)
(* The TLB (Sv39)                                                          *)
(*                                                                         *)
(* Quotients and bases of pages: two pages under one entry of a size are   *)
(* under one entry of every larger size.                                   *)
(***************************************************************************)
LEMMA CoverNat == Fan \in Nat \ {0} /\ \A s : Cover(s) \in Nat \ {0}
<1>1. Fan \in Nat \ {0}  BY Sv39Assumption
<1>2. Fan * Fan \in Nat /\ Fan * Fan >= Fan  BY <1>1, TimesAtLeast
<1>3. Fan * Fan \in Nat \ {0}  BY <1>1, <1>2
<1> QED  BY <1>1, <1>3 DEF Cover

LEMMA PageNat == Page \subseteq Nat
  BY CoverNat DEF Page

LEMMA BaseFacts ==
  ASSUME NEW v \in Nat, NEW w \in Nat, NEW s
  PROVE  /\ Base(v, s) \in Nat
         /\ Base(Base(v, s), s) = Base(v, s)
         /\ Base(v, s) = Base(w, s) => v \div Cover(s) = w \div Cover(s)
<1> DEFINE c == Cover(s)
<1>1. c \in Nat \ {0}  BY CoverNat
<1> HIDE DEF c
<1>2. ASSUME NEW x \in Nat
      PROVE  x - (x % c) = c * (x \div c) /\ x \div c \in Nat
  BY <1>1, <1>2
<1>3. ASSUME NEW q \in Nat PROVE (c * q + 0) \div c = q /\ (c * q + 0) % c = 0 /\ c * q \in Nat
  BY <1>1, <1>3, Digits
<1>4. ASSUME NEW q \in Nat PROVE (c * q) \div c = q /\ (c * q) % c = 0 /\ c * q \in Nat
  BY <1>1, <1>3, <1>4
<1>5. Base(v, s) = c * (v \div c) /\ Base(w, s) = c * (w \div c)
  BY <1>2 DEF Base, c
<1>6. Base(Base(v, s), s) = Base(v, s) - (Base(v, s) % c)
  BY DEF Base, c
<1>7. (c * (v \div c)) % c = 0 /\ (c * (v \div c)) \div c = v \div c
      /\ (c * (w \div c)) \div c = w \div c /\ c * (v \div c) \in Nat
  BY <1>2, <1>4
<1>8. Base(Base(v, s), s) = Base(v, s)  BY <1>5, <1>6, <1>7
<1> QED  BY <1>5, <1>7, <1>8 DEF c

LEMMA LargerSize ==
  ASSUME NEW v \in Nat, NEW w \in Nat, Base(v, 2) = Base(w, 2)
  PROVE  v \div Cover(3) = w \div Cover(3)
<1>1. v \div Fan = w \div Fan  BY BaseFacts DEF Cover
<1>2. v \in Int /\ w \in Int /\ Fan \in Nat \ {0}  BY CoverNat
<1>3. v \div (Fan * Fan) = (v \div Fan) \div Fan /\ w \div (Fan * Fan) = (w \div Fan) \div Fan
  BY ONLY <1>2, DivTwice
<1> QED  BY <1>1, <1>3 DEF Cover

(* What a visit of one table finds: no leaf, a leaf of its size or what is *)
(* found below; of the page it depends on the quotient alone.              *)
LeafLike(leaf, s) ==
  leaf = [pagesize |-> s, ppa |-> leaf.ppa, flags |-> leaf.flags]
LEMMA VisitFinds ==
  ASSUME NEW tables, NEW t, NEW v, NEW s, NEW below
  PROVE  LET r == Visit(tables, t, v, s, below)
         IN r = NoLeaf \/ r = below \/ LeafLike(r, s)
  BY DEF Visit, LeafLike
LEMMA VisitSame ==
  ASSUME NEW tables, NEW t, NEW v, NEW w, NEW s, NEW below,
         v \div Cover(s) = w \div Cover(s)
  PROVE  /\ Pte(tables, t, w, s) = Pte(tables, t, v, s)
         /\ Visit(tables, t, w, s, below) = Visit(tables, t, v, s, below)
  BY DEF Visit, Pte
LEMMA VisitLeaf ==
  ASSUME NEW tables, NEW t, NEW v, NEW s, NEW below, NEW other,
         Visit(tables, t, v, s, below) # NoLeaf, Visit(tables, t, v, s, below) # below
  PROVE  Visit(tables, t, v, s, other) = Visit(tables, t, v, s, below)
  BY DEF Visit

(* A leaf has one of the three sizes, and every page under it walks to it. *)
LEMMA SmallSize ==
  ASSUME NEW tables, NEW t, NEW v
  PROVE  Small(tables, t, v) = NoLeaf \/ LeafLike(Small(tables, t, v), 1)
  BY VisitFinds DEF Small
LEMMA LargeSize ==
  ASSUME NEW tables, NEW t, NEW v
  PROVE  LET r == Large(tables, t, v)
         IN r = NoLeaf \/ LeafLike(r, 1) \/ LeafLike(r, 2)
<1> DEFINE below == Small(tables, Pte(tables, t, v, 2).ppn, v)
<1>1. below = NoLeaf \/ LeafLike(below, 1)  BY SmallSize
<1> HIDE DEF below
<1>2. Large(tables, t, v) = Visit(tables, t, v, 2, below)  BY DEF Large, below
<1> QED  BY <1>1, <1>2, VisitFinds
LEMMA WalkSize ==
  ASSUME NEW tables, NEW a, NEW v
  PROVE  LET r == Walk(tables, a, v)
         IN r = NoLeaf \/ \E s \in 1 .. 3 : LeafLike(r, s)
<1> DEFINE below == Large(tables, Pte(tables, Root[a], v, 3).ppn, v)
<1>1. below = NoLeaf \/ LeafLike(below, 1) \/ LeafLike(below, 2)  BY LargeSize
<1> HIDE DEF below
<1>2. Walk(tables, a, v) = Visit(tables, Root[a], v, 3, below)  BY DEF Walk, Huge, below
<1> QED  BY <1>1, <1>2, VisitFinds

LEMMA SizeOf ==
  ASSUME NEW r, NEW s, LeafLike(r, s)
  PROVE  r.pagesize = s
<1> DEFINE u == [pagesize |-> s, ppa |-> r.ppa, flags |-> r.flags]
<1>1. u.pagesize = s  OBVIOUS
<1> QED  BY <1>1 DEF LeafLike

LEMMA WalkBase ==
  ASSUME NEW tables, NEW a, NEW v \in Nat, NEW w \in Nat,
         Walk(tables, a, v) # NoLeaf,
         Base(w, Walk(tables, a, v).pagesize) = Base(v, Walk(tables, a, v).pagesize)
  PROVE  Walk(tables, a, w) = Walk(tables, a, v)
<1> DEFINE L == Walk(tables, a, v)
           t == Root[a]
           u == Pte(tables, t, v, 3).ppn
           x == Large(tables, u, v)
           y == Small(tables, Pte(tables, u, v, 2).ppn, v)
<1>1. L = Visit(tables, t, v, 3, x) /\ x = Visit(tables, u, v, 2, y)
  BY DEF Walk, Huge, Large
<1>2. y = NoLeaf \/ LeafLike(y, 1)  BY SmallSize
<1>3. x = NoLeaf \/ LeafLike(x, 1) \/ LeafLike(x, 2)  BY LargeSize
<1>4. PICK s \in 1 .. 3 : LeafLike(L, s)  BY WalkSize
<1>5. L.pagesize = s /\ Base(w, s) = Base(v, s)  BY <1>4, SizeOf
<1>6. w \div Cover(s) = v \div Cover(s)  BY <1>5, BaseFacts
<1>7. CASE s = 1
  <2>1. Base(v, 1) = v /\ Base(w, 1) = w  BY DEF Base, Cover
  <2> QED  BY <1>5, <1>7, <2>1
<1>8. CASE s = 2
  <2>1. w \div Cover(3) = v \div Cover(3)  BY <1>5, <1>8, LargerSize
  <2>2. Pte(tables, t, w, 3).ppn = u  BY <2>1, VisitSame
  <2>3. L # NoLeaf /\ ~LeafLike(L, 3) /\ ~LeafLike(L, 1)
    BY <1>5, <1>8, SizeOf
  <2>4. L = x  BY <1>1, <2>3, VisitFinds
  <2>5. x # NoLeaf /\ x # y  BY <1>2, <2>3, <2>4
  <2>6. Pte(tables, u, w, 2) = Pte(tables, u, v, 2)
    BY <1>6, <1>8, VisitSame
  <2>7. Large(tables, u, w) = x
    <3> DEFINE z == Small(tables, Pte(tables, u, w, 2).ppn, w)
    <3>1. Large(tables, u, w) = Visit(tables, u, w, 2, z)  BY DEF Large
    <3>2. Visit(tables, u, w, 2, z) = Visit(tables, u, v, 2, z)  BY <1>6, <1>8, VisitSame
    <3> HIDE DEF x, y, z
    <3>3. Visit(tables, u, v, 2, z) = x  BY <1>1, <2>5, VisitLeaf
    <3> QED  BY <3>1, <3>2, <3>3
  <2>8. Walk(tables, a, w) = Visit(tables, t, w, 3, x)
    BY <2>2, <2>7 DEF Walk, Huge
  <2> QED  BY <1>1, <2>1, <2>8, VisitSame
<1>9. CASE s = 3
  <2> DEFINE z == Large(tables, Pte(tables, t, w, 3).ppn, w)
  <2>1. Walk(tables, a, w) = Visit(tables, t, w, 3, z)  BY DEF Walk, Huge
  <2>2. L # NoLeaf /\ ~LeafLike(L, 1) /\ ~LeafLike(L, 2)
    BY <1>5, <1>9, SizeOf
  <2>3. L # x  BY <1>3, <2>2
  <2>4. Visit(tables, t, w, 3, z) = Visit(tables, t, v, 3, z)  BY <1>6, <1>9, VisitSame
  <2> HIDE DEF L, x, z
  <2>5. Visit(tables, t, v, 3, z) = L  BY <1>1, <2>2, <2>3, VisitLeaf
  <2> QED  BY <2>1, <2>4, <2>5 DEF L
<1> QED  BY <1>7, <1>8, <1>9

(* The program still owes a fence that removes entry i for page w of       *)
(* address space b: for a global entry one of all address spaces.          *)
Owed(i, b, w) ==
  <<0, w>> \in owed \/ ("G" \notin tlb[i].flags /\ <<b, w>> \in owed)
LeafOf(e) == [pagesize |-> e.pagesize, ppa |-> e.ppa, flags |-> e.flags]

(* The inductive invariant.  An entry that answers is the leaf of the walk *)
(* now, unless it is owed a fence; of two that answer, one is owed one.    *)
EntriesCurrent ==
  \A a \in Asid, v \in Page : \A i \in Hits(a, v) :
    ~Owed(i, a, v) => LeafOf(tlb[i]) = Walk(pt, a, v)
OneAnswers ==
  \A a \in Asid, v \in Page : \A i, j \in Hits(a, v) :
    i # j => Owed(i, a, v) \/ Owed(j, a, v)
TlbIInv ==
  /\ random \in Entry /\ DOMAIN tlb = Entry
  /\ EntriesCurrent /\ OneAnswers
  /\ GlobalsShared(pt)

LEMMA TlbInit == Sv39Init => TlbIInv
<1> SUFFICES ASSUME Sv39Init PROVE TlbIInv
  OBVIOUS
<1>1. \A a, v : Hits(a, v) = {}  BY DEF Sv39Init, Hits, Invalidated
<1>2. EntriesCurrent /\ OneAnswers  BY <1>1 DEF EntriesCurrent, OneAnswers
<1>3. random \in Entry /\ DOMAIN tlb = Entry
  BY Sv39Assumption DEF Sv39Init, Entry
<1> QED  BY <1>2, <1>3, TablesAssumption DEF TlbIInv, Sv39Init

(* A miss that walks to a leaf: the new entry is that leaf for every page  *)
(* under it, and an entry that answers there without a fence owed would    *)
(* have answered the page that missed.                                     *)
LEMMA FillKeeps ==
  ASSUME TlbIInv, NEW a \in Asid, NEW v \in Page, Hits(a, v) = {},
         Walk(pt, a, v) # NoLeaf, Fill(a, v, Walk(pt, a, v)), UNCHANGED <<pt, owed>>
  PROVE  TlbIInv'
<1> DEFINE L == Walk(pt, a, v)
           k == random
           new == [ppa |-> L.ppa, vpa |-> Base(v, L.pagesize), asid |-> a,
                   pagesize |-> L.pagesize, flags |-> L.flags]
<1>1. /\ DOMAIN tlb = Entry /\ k \in Entry /\ DOMAIN tlb' = Entry
      /\ tlb'[k] = new
      /\ \A i \in Entry : i # k => tlb'[i] = tlb[i]
  BY DEF TlbIInv, Fill
<1>2. random' \in Entry
  BY Sv39Assumption DEF TlbIInv, Fill, Entry
<1>3. ASSUME NEW b \in Asid, NEW w \in Page, NEW i \in Hits(b, w)', i # k
      PROVE  i \in Hits(b, w) /\ (Owed(i, b, w)' <=> Owed(i, b, w))
  BY <1>1, <1>3 DEF Hits, Owed
<1>4. /\ new.pagesize = L.pagesize /\ new.ppa = L.ppa /\ new.flags = L.flags
      /\ new.vpa = Base(v, L.pagesize) /\ new.asid = a
  OBVIOUS
<1>5. LeafOf(new) = L
  <2>1. PICK s \in 1 .. 3 : LeafLike(L, s)  BY WalkSize
  <2>2. L.pagesize = s  BY <2>1, SizeOf
  <2> QED  BY <1>4, <2>1, <2>2 DEF LeafOf, LeafLike
<1> HIDE DEF new, k
<1>6. ASSUME NEW b \in Asid, NEW w \in Page, k \in Hits(b, w)'
      PROVE  /\ Walk(pt, b, w) = L /\ Base(w, L.pagesize) = Base(v, L.pagesize)
             /\ b = a \/ "G" \in L.flags
  <2>1. (b = a \/ "G" \in L.flags) /\ Base(w, L.pagesize) = Base(v, L.pagesize)
    BY <1>1, <1>4, <1>6 DEF Hits
  <2>2. Walk(pt, a, w) = L  BY <2>1, PageNat, WalkBase
  <2>3. GlobalsShared(pt)  BY DEF TlbIInv
  <2>4. Walk(pt, b, w) = L
    <3>1. CASE b = a  BY <2>2, <3>1
    <3>2. CASE "G" \in L.flags
      BY <2>2, <2>3, <3>2 DEF GlobalsShared
    <3> QED  BY <2>1, <3>1, <3>2
  <2> QED  BY <2>1, <2>4
<1>7. EntriesCurrent'
  <2> SUFFICES ASSUME NEW b \in Asid, NEW w \in Page, NEW i \in Hits(b, w)',
                      ~Owed(i, b, w)'
               PROVE  LeafOf(tlb'[i]) = Walk(pt', b, w)
    BY DEF EntriesCurrent, LeafOf
  <2>1. CASE i = k  BY <1>1, <1>5, <1>6, <2>1
  <2>2. CASE i # k
    <3>1. i \in Entry  BY DEF Hits
    <3> QED  BY <1>1, <1>3, <2>2, <3>1 DEF TlbIInv, EntriesCurrent
  <2> QED  BY <2>1, <2>2
<1>8. ASSUME NEW b \in Asid, NEW w \in Page, NEW j \in Hits(b, w)', j # k, k \in Hits(b, w)'
      PROVE  Owed(j, b, w)'
  <2>1. j \in Hits(b, w) /\ j \in Entry  BY <1>3, <1>8 DEF Hits
  <2> SUFFICES ASSUME ~Owed(j, b, w) PROVE FALSE
    BY <1>3, <1>8
  <2>2. LeafOf(tlb[j]) = L
    BY <1>6, <1>8, <2>1 DEF TlbIInv, EntriesCurrent
  <2>3. tlb[j].pagesize = L.pagesize /\ tlb[j].flags = L.flags
    <3> DEFINE e == tlb[j]
    <3>1. LeafOf(e).pagesize = e.pagesize /\ LeafOf(e).flags = e.flags
      BY DEF LeafOf
    <3> QED  BY <2>2, <3>1
  <2>4. /\ tlb[j].pagesize # 0 /\ tlb[j].vpa = Base(w, tlb[j].pagesize)
        /\ tlb[j].asid = b \/ "G" \in tlb[j].flags
    BY <2>1 DEF Hits
  <2>5. tlb[j].vpa = Base(v, tlb[j].pagesize) /\ (tlb[j].asid = a \/ "G" \in tlb[j].flags)
    BY <1>6, <1>8, <2>3, <2>4
  <2>6. j \in Hits(a, v)  BY <2>1, <2>4, <2>5 DEF Hits
  <2> QED  BY <2>6
<1>9. OneAnswers'
  <2> SUFFICES ASSUME NEW b \in Asid, NEW w \in Page, NEW i \in Hits(b, w)',
                      NEW j \in Hits(b, w)', i # j
               PROVE  Owed(i, b, w)' \/ Owed(j, b, w)'
    BY DEF OneAnswers
  <2>1. CASE i = k \/ j = k  BY <1>8, <2>1
  <2>2. CASE i # k /\ j # k
    BY <1>3, <2>2 DEF TlbIInv, OneAnswers
  <2> QED  BY <2>1, <2>2
<1>10. GlobalsShared(pt')  BY DEF TlbIInv
<1> QED  BY <1>1, <1>2, <1>7, <1>9, <1>10 DEF TlbIInv

(* A fence removes no obligation of an entry that it leaves.               *)
LEMMA FenceKeeps ==
  ASSUME TlbIInv, NEW a \in Asid \cup {0}, NEW v \in Page \cup {AllPages}, sfence_vma(v, a)
  PROVE  TlbIInv'
<1>1. DOMAIN tlb = Entry /\ DOMAIN tlb' = Entry
  BY DEF TlbIInv, sfence_vma
<1>2. ASSUME NEW b \in Asid, NEW w \in Page, NEW i \in Hits(b, w)'
      PROVE  /\ i \in Entry /\ i \in Hits(b, w) /\ tlb'[i] = tlb[i]
             /\ Owed(i, b, w) => Owed(i, b, w)'
  <2>1. i \in Entry /\ tlb'[i].pagesize # 0  BY <1>2 DEF Hits
  <2>2. tlb'[i] = IF Flushed(tlb[i], v, a) THEN Invalidated ELSE tlb[i]
    BY <2>1 DEF sfence_vma
  <2>3. Invalidated.pagesize = 0  BY DEF Invalidated
  <2>4. ~Flushed(tlb[i], v, a) /\ tlb'[i] = tlb[i]  BY <2>1, <2>2, <2>3
  <2>5. i \in Hits(b, w)  BY <1>2, <2>4 DEF Hits
  <2>6. /\ tlb[i].pagesize # 0 /\ tlb[i].vpa = Base(w, tlb[i].pagesize)
        /\ tlb[i].asid = b \/ "G" \in tlb[i].flags
    BY <2>5 DEF Hits
  <2>7. Base(tlb[i].vpa, tlb[i].pagesize) = Base(w, tlb[i].pagesize)
    BY <2>6, PageNat, BaseFacts
  <2>8. ~((tlb[i].asid = a \/ a = 0) /\ (v = AllPages \/ w = v))
    BY <2>4, <2>6, <2>7 DEF Flushed
  <2>9. owed' = {f \in owed : ~(f[1] = a \/ a = 0) \/ ~(v = AllPages \/ f[2] = v)}
    BY DEF sfence_vma
  <2>10. ASSUME <<0, w>> \in owed PROVE <<0, w>> \in owed'
    <3>1. ~((0 = a \/ a = 0) /\ (v = AllPages \/ w = v))  BY <2>8
    <3> QED  BY <2>9, <2>10, <3>1
  <2>11. ASSUME "G" \notin tlb[i].flags, <<b, w>> \in owed PROVE <<b, w>> \in owed'
    <3>1. ~((b = a \/ a = 0) /\ (v = AllPages \/ w = v))  BY <2>6, <2>8, <2>11
    <3> QED  BY <2>9, <2>11, <3>1
  <2> QED  BY <2>1, <2>4, <2>5, <2>10, <2>11 DEF Owed
<1>3. pt' = pt /\ random' = random  BY DEF sfence_vma
<1>4. EntriesCurrent'
  <2> SUFFICES ASSUME NEW b \in Asid, NEW w \in Page, NEW i \in Hits(b, w)',
                      ~Owed(i, b, w)'
               PROVE  LeafOf(tlb'[i]) = Walk(pt', b, w)
    BY DEF EntriesCurrent, LeafOf
  <2> QED  BY <1>2, <1>3 DEF TlbIInv, EntriesCurrent
<1>5. OneAnswers'
  <2> SUFFICES ASSUME NEW b \in Asid, NEW w \in Page, NEW i \in Hits(b, w)',
                      NEW j \in Hits(b, w)', i # j
               PROVE  Owed(i, b, w)' \/ Owed(j, b, w)'
    BY DEF OneAnswers
  <2> QED  BY <1>2 DEF TlbIInv, OneAnswers
<1> QED  BY <1>1, <1>3, <1>4, <1>5 DEF TlbIInv

(* A write of a table: an entry whose walk it changes is owed a fence from *)
(* then on.                                                                *)
LEMMA PteKeeps ==
  ASSUME TlbIInv, NEW x \in PteWrites, SetPte(x)
  PROVE  TlbIInv'
<1>1. /\ GlobalsShared(pt') /\ tlb' = tlb /\ random' = random
      /\ owed' = owed \cup Owes(pt, pt') \cup OwesAll(pt, pt')
  BY DEF SetPte
<1>2. ASSUME NEW b \in Asid, NEW w \in Page
      PROVE  /\ Hits(b, w)' = Hits(b, w)
             /\ \A i : Owed(i, b, w) => Owed(i, b, w)'
  BY <1>1 DEF Hits, Owed
<1>3. EntriesCurrent'
  <2> SUFFICES ASSUME NEW b \in Asid, NEW w \in Page, NEW i \in Hits(b, w)',
                      ~Owed(i, b, w)'
               PROVE  LeafOf(tlb'[i]) = Walk(pt', b, w)
    BY DEF EntriesCurrent, LeafOf
  <2>1. LeafOf(tlb[i]) = Walk(pt, b, w) /\ i \in Hits(b, w)
    BY <1>2 DEF TlbIInv, EntriesCurrent
  <2>2. LeafOf(tlb[i]).flags = tlb[i].flags /\ LeafOf(tlb[i]) # NoLeaf
    <3> DEFINE e == tlb[i]
    <3>1. e.pagesize # 0  BY <2>1 DEF Hits
    <3>2. LeafOf(e).pagesize = e.pagesize /\ LeafOf(e).flags = e.flags /\ NoLeaf.pagesize = 0
      BY DEF LeafOf, NoLeaf
    <3> QED  BY <3>1, <3>2
  <2> SUFFICES ASSUME Walk(pt, b, w) # Walk(pt', b, w) PROVE FALSE
    BY <1>1, <2>1
  <2>3. <<b, w>> \in owed'  BY <1>1 DEF Owes
  <2>4. CASE "G" \in tlb[i].flags
    <3>1. <<0, w>> \in OwesAll(pt, pt')  BY <2>1, <2>2, <2>4 DEF OwesAll
    <3> QED  BY <1>1, <3>1 DEF Owed
  <2>5. CASE "G" \notin tlb[i].flags  BY <1>1, <2>3, <2>5 DEF Owed
  <2> QED  BY <2>4, <2>5
<1>4. OneAnswers'
  BY <1>2 DEF TlbIInv, OneAnswers
<1> QED  BY <1>1, <1>3, <1>4 DEF TlbIInv

LEMMA TlbNext == TlbIInv /\ [Sv39Next]_sv39Vars => TlbIInv'
<1> SUFFICES ASSUME TlbIInv, [Sv39Next]_sv39Vars PROVE TlbIInv'
  OBVIOUS
<1>1. ASSUME NEW a \in Asid, NEW v \in Page, Translate(a, v) PROVE TlbIInv'
  <2>1. CASE Hits(a, v) = {} /\ Walk(pt, a, v) # NoLeaf
    BY <1>1, <2>1, FillKeeps DEF Translate
  <2>2. CASE ~(Hits(a, v) = {} /\ Walk(pt, a, v) # NoLeaf)
    <3>1. UNCHANGED sv39Vars  BY <1>1, <2>2 DEF Translate, sv39Vars
    <3> QED  BY <3>1 DEF sv39Vars, TlbIInv, EntriesCurrent, OneAnswers, Hits, Owed, LeafOf
  <2> QED  BY <2>1, <2>2
<1>2. ASSUME NEW a \in Asid \cup {0}, NEW v \in Page \cup {AllPages}, sfence_vma(v, a)
      PROVE  TlbIInv'
  BY <1>2, FenceKeeps
<1>3. ASSUME NEW x \in PteWrites, SetPte(x) PROVE TlbIInv'
  BY <1>3, PteKeeps
<1>4. CASE UNCHANGED sv39Vars
  BY <1>4 DEF sv39Vars, TlbIInv, EntriesCurrent, OneAnswers, Hits, Owed, LeafOf
<1> QED  BY <1>1, <1>2, <1>3, <1>4 DEF Sv39Next

(* For every size of a table and of the TLB, any address spaces, tables    *)
(* and writes to them: the TLB agrees with the tables wherever the program *)
(* owes no fence, and the assertion of local_tlb_get holds there.          *)
THEOREM TlbIsCurrent == Sv39Spec => []TlbCurrent
<1>1. TlbIInv => TlbCurrent
  <2> SUFFICES ASSUME TlbIInv, NEW a \in Asid, NEW v \in Page, ~Stale(a, v)
               PROVE  /\ Cardinality(Hits(a, v)) <= 1
                      /\ \A i \in Hits(a, v) : LeafOf(tlb[i]) = Walk(pt, a, v)
    BY DEF TlbCurrent, LeafOf
  <2>1. \A i : ~Owed(i, a, v)  BY DEF Stale, Owed
  <2>2. \A i, j \in Hits(a, v) : i = j
    BY <2>1 DEF TlbIInv, OneAnswers
  <2>3. CASE Hits(a, v) = {}  BY <2>3, FS_EmptySet
  <2>4. CASE Hits(a, v) # {}
    <3>1. PICK i : Hits(a, v) = {i}  BY <2>2, <2>4
    <3>2. Cardinality({i}) = 1  BY FS_Singleton
    <3> QED  BY <2>1, <3>1, <3>2 DEF TlbIInv, EntriesCurrent
  <2> QED  BY <2>1, <2>3, <2>4 DEF TlbIInv, EntriesCurrent
<1> QED  BY <1>1, TlbInit, TlbNext, PTL DEF Sv39Spec

(***************************************************************************)
(* The check of an access (VaAccess)                                       *)
(***************************************************************************)
LEMMA WhoInvariant == DevSpec => [](who \in Who)
<1>1. DevInit => who \in Who
  BY DEF DevInit, Start, Who, Mode
<1>2. who \in Who /\ [DevNext]_devVars => (who \in Who)'
  BY DEF DevNext, devVars, rest
<1> QED
  BY <1>1, <1>2, PTL DEF DevSpec

(* The six copies of the check in rv_priv agree with the table of rules,   *)
(* for every access in every mode; an sc without the reservation is the    *)
(* one that needs no device.                                               *)
THEOREM AccessCorrect == DevSpec => []AccessChecked
<1>1. ASSUME who \in Who, NEW page \in Acc
      PROVE  /\ ~who.mxr => \A kind \in Kind :
                 (Va(kind, who, page) = "ok") <=> (Allowed(kind, page) /\ Answered(kind, page))
             /\ (VaLr(who, page) = "ok") <=> (VaRead(who, page) = "ok")
             /\ VaAmo(who, page) = VaWrite(who, page)
             /\ VaSc(who, page)
                  = VaWrite(who, [page EXCEPT !.answers = @ \/ ~page.reserved])
             /\ VaSc(who, page) = "ok" /\ page.reserved => VaLr(who, page) = "ok"
  <2> DEFINE other == [page EXCEPT !.answers = @ \/ ~page.reserved]
  <2>1. /\ who.priv \in Mode /\ who.mpp \in Mode
        /\ who.mprv \in BOOLEAN /\ who.sum \in BOOLEAN
        /\ who.mxr \in BOOLEAN /\ who.sv39 \in BOOLEAN
    BY <1>1 DEF Who
  <2>2. /\ page.crosses \in BOOLEAN /\ page.answers \in BOOLEAN
        /\ page.reserved \in BOOLEAN
        /\ "W" \in page.flags => "R" \in page.flags
    BY DEF Acc, Absent
  <2>3. /\ other.crosses = page.crosses /\ other.flags = page.flags
        /\ other.answers = (page.answers \/ ~page.reserved)
    BY DEF Acc
  <2> HIDE DEF other
  <2>4. (VaIf(who, page) = "ok") <=> (Allowed("fetch", page) /\ page.answers)
    BY <2>1, <2>2 DEF VaIf, Allowed, ModeOf, OwnPage, Needs, Mode
  <2>5. ~who.mxr => ((VaRead(who, page) = "ok") <=> (Allowed("load", page) /\ page.answers))
    BY <2>1, <2>2 DEF VaRead, Bare, Moved, Allowed, ModeOf, OwnPage, Needs, Mode
  <2>6. (VaWrite(who, page) = "ok") <=> (Allowed("store", page) /\ page.answers)
    BY <2>1, <2>2 DEF VaWrite, Bare, Moved, Allowed, ModeOf, OwnPage, Needs, Mode
  <2>7. (VaLr(who, page) = "ok") <=> (VaRead(who, page) = "ok")
    BY <2>1, <2>2 DEF VaLr, VaRead
  <2>8. VaAmo(who, page) = VaWrite(who, page)
    BY DEF VaAmo, VaWrite
  <2>9. VaSc(who, page) = VaWrite(who, other)
    BY <2>2, <2>3 DEF VaSc, VaWrite, PaSc, Bare
  <2>10. (VaWrite(who, other) = "ok")
           <=> (Allowed("store", page) /\ (page.answers \/ ~page.reserved))
    BY <2>1, <2>2, <2>3 DEF VaWrite, Bare, Moved, Allowed, ModeOf, OwnPage, Needs, Mode
  <2>11. /\ Allowed("lr", page) <=> Allowed("load", page)
         /\ Allowed("sc", page) <=> Allowed("store", page)
         /\ Allowed("amo", page) <=> Allowed("store", page)
    BY DEF Allowed, ModeOf, OwnPage, Needs
  <2>12. ~who.mxr => \A kind \in Kind :
           (Va(kind, who, page) = "ok") <=> (Allowed(kind, page) /\ Answered(kind, page))
    BY <2>4, <2>5, <2>6, <2>7, <2>8, <2>9, <2>10, <2>11 DEF Va, Kind, Answered
  <2>13. VaSc(who, page) = "ok" /\ page.reserved => VaLr(who, page) = "ok"
    BY <2>1, <2>2 DEF VaSc, VaLr, PaSc
  <2> QED
    BY <2>7, <2>8, <2>9, <2>12, <2>13 DEF other
<1>2. ASSUME NEW page, NEW other
      PROVE (Fetch(who, page, other) = "ok")
              <=> ({VaIf(who, page), VaIf(who, other)} = {"ok"})
  BY DEF Fetch
<1>3. who \in Who => AccessChecked
  BY <1>1, <1>2 DEF AccessChecked
<1> QED
  BY <1>3, WhoInvariant, PTL
=============================================================================
