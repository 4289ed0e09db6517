------------------------------ MODULE BusProofs ------------------------------
(***************************************************************************)
(* The system bus for every address space, number of devices and of harts: *)
(* the map of devices stays disjoint and its lookup finds the device, and  *)
(* the single reservation register keeps the promise of AtomicMem.         *)
(***************************************************************************)
EXTENDS Systembus, BusMap, NatLemmas

(***************************************************************************)
(* The map of devices (BusMap)                                             *)
(***************************************************************************)
RangeT == {d \in [start : Nat, end : Nat] : d.start < d.end /\ d.end < AddrSpace}
MapTypeOK == devices \subseteq RangeT
MapIInv   == MapTypeOK /\ Disjoint

(* Every range is aligned to its size, which add_dev asks for.             *)
Aligned == \A d \in devices : d.start % (d.end - d.start) = 0

LEMMA RangeType == \A q \in Requests : RangeOf(q) \in RangeT
  BY BusMapAssumption DEF RangeOf, RangeT

(* Disjoint ranges are told apart by their starts. *)
LEMMA StartsDiffer ==
  ASSUME MapIInv, NEW d \in devices, NEW e \in devices, d # e
  PROVE  d.start < e.start \/ e.start < d.start
  BY DEF MapIInv, MapTypeOK, RangeT, Disjoint

(* Of the devices that start at or below an address one is the last, ...   *)
LEMMA LastExists ==
  ASSUME MapIInv, NEW S \in SUBSET devices, NEW b \in Nat,
         S # {}, \A d \in S : d.start <= b
  PROVE  \E p \in S : \A d \in S : d.start <= p.start
<1> DEFINE D == {b - d.start : d \in S}
<1>1. \A d \in S : d.start \in Nat  BY DEF MapIInv, MapTypeOK, RangeT
<1>2. D \subseteq Nat /\ D # {}  BY <1>1
<1>3. PICK m \in D : \A n \in D : m <= n
  <2> HIDE DEF D
  <2> QED  BY <1>2, LeastNat
<1>4. PICK p \in S : m = b - p.start  BY <1>3
<1>5. ASSUME NEW d \in S PROVE d.start <= p.start
  <2>1. b - p.start <= b - d.start  BY <1>3, <1>4
  <2> QED  BY <2>1, <1>1
<1> QED  BY <1>5

(* ... and of any devices one is the first. *)
LEMMA FirstExists ==
  ASSUME MapIInv, NEW S \in SUBSET devices, S # {}
  PROVE  \E p \in S : \A d \in S : p.start <= d.start
<1> DEFINE D == {d.start : d \in S}
<1>1. D \subseteq Nat /\ D # {}  BY DEF MapIInv, MapTypeOK, RangeT
<1>2. PICK m \in D : \A n \in D : m <= n
  <2> HIDE DEF D
  <2> QED  BY <1>1, LeastNat
<1> QED  BY <1>2

(* The neighbours of a range: the last device at or before it, ...         *)
LEMMA PrevIsLast ==
  ASSUME MapIInv, NEW r, r.start \in Nat, r.end \in Nat,
         NEW d \in devices, ~Before(r, d)
  PROVE  \E p \in Prev(r) : \A e \in devices : ~Before(r, e) => e.start <= p.start
<1> DEFINE S == {e \in devices : ~Before(r, e)}
<1>1. \A e \in devices : e.start \in Nat /\ e.end \in Nat
  BY DEF MapIInv, MapTypeOK, RangeT
<1>2. \A e \in S : e.start <= r.start  BY <1>1 DEF Before
<1>3. PICK p \in S : \A e \in S : e.start <= p.start
  <2>1. S \in SUBSET devices /\ S # {}  OBVIOUS
  <2> HIDE DEF S
  <2> QED  BY <1>2, <2>1, LastExists
<1>4. \A e \in S : ~Before(p, e)
  BY <1>1, <1>3, StartsDiffer DEF Before
<1>5. p \in Prev(r)  BY <1>4 DEF Prev
<1> QED  BY <1>3, <1>5

(* ... and the first one after it. *)
LEMMA UpperBoundIsFirst ==
  ASSUME MapIInv, NEW r, r.start \in Nat, r.end \in Nat,
         NEW d \in devices, Before(r, d)
  PROVE  \E u \in UpperBound(r) : \A e \in devices : Before(r, e) => u.start <= e.start
<1> DEFINE S == {e \in devices : Before(r, e)}
<1>1. \A e \in devices : e.start \in Nat /\ e.end \in Nat
  BY DEF MapIInv, MapTypeOK, RangeT
<1>2. PICK u \in S : \A e \in S : u.start <= e.start
  <2>1. S \in SUBSET devices /\ S # {}  OBVIOUS
  <2> HIDE DEF S
  <2> QED  BY <2>1, FirstExists
<1>3. \A e \in S : ~Before(e, u)
  BY <1>1, <1>2, StartsDiffer DEF Before
<1>4. u \in UpperBound(r)  BY <1>3 DEF UpperBound
<1> QED  BY <1>2, <1>4

(* A range that overlaps neither neighbour overlaps no device.             *)
LEMMA NeighboursSuffice ==
  ASSUME MapIInv, NEW r \in RangeT, NEW d \in devices,
         \A n \in UpperBound(r) \cup Prev(r) : ~Overlaps(n, r)
  PROVE  d.end <= r.start \/ r.end <= d.start
<1>1. \A e \in devices : /\ e.start \in Nat /\ e.end \in Nat /\ e.start < e.end
  BY DEF MapIInv, MapTypeOK, RangeT
<1>2. r.start \in Nat /\ r.end \in Nat /\ r.start < r.end  BY DEF RangeT
<1>3. CASE ~Before(r, d)
  <2>1. PICK p \in Prev(r) : d.start <= p.start
    BY <1>2, <1>3, PrevIsLast
  <2>2. p \in devices /\ p.start <= r.start
    BY <2>1, <1>1, <1>2 DEF Prev, Before
  <2>3. p.end <= r.start
    BY <2>1, <2>2, <1>1, <1>2 DEF Overlaps
  <2>4. CASE d = p  BY <2>3, <2>4
  <2>5. CASE d # p
    <3>1. d.end <= p.start
      BY <2>1, <2>2, <2>5, <1>1 DEF MapIInv, Disjoint
    <3> QED  BY <3>1, <2>2, <1>1, <1>2
  <2> QED  BY <2>4, <2>5
<1>4. CASE Before(r, d)
  <2>1. PICK u \in UpperBound(r) : u.start <= d.start
    BY <1>2, <1>4, UpperBoundIsFirst
  <2>2. u \in devices /\ r.start <= u.start
    BY <2>1, <1>1, <1>2 DEF UpperBound, Before
  <2>3. r.end <= u.start
    BY <2>1, <2>2, <1>1, <1>2 DEF Overlaps
  <2> QED  BY <2>1, <2>2, <2>3, <1>1, <1>2
<1> QED  BY <1>3, <1>4

LEMMA MapInitIInv == MapInit => MapIInv
  BY DEF MapInit, MapIInv, MapTypeOK, Disjoint

LEMMA MapNextIInv == MapIInv /\ [MapNext]_devices => MapIInv'
<1> SUFFICES ASSUME MapIInv, [MapNext]_devices PROVE MapIInv'
  OBVIOUS
<1>1. ASSUME NEW q \in Requests, AddDev(q) PROVE MapIInv'
  <2>1. RangeOf(q) \in RangeT  BY RangeType
  <2>2. MapTypeOK'  BY <1>1, <2>1 DEF AddDev, MapIInv, MapTypeOK
  <2>3. \A d \in devices : d.end <= RangeOf(q).start \/ RangeOf(q).end <= d.start
    BY <1>1, <2>1, NeighboursSuffice DEF AddDev
  <2>4. Disjoint'
    BY <1>1, <2>3 DEF AddDev, MapIInv, Disjoint
  <2> QED  BY <2>2, <2>4 DEF MapIInv
<1>2. CASE UNCHANGED devices
  BY <1>2 DEF MapIInv, MapTypeOK, Disjoint
<1> QED  BY <1>1, <1>2 DEF MapNext, Refused

(* No address ever belongs to two devices.                                 *)
THEOREM DevicesDisjoint == MapSpec => []Disjoint
<1>1. MapIInv => Disjoint  BY DEF MapIInv
<1> QED  BY <1>1, MapInitIInv, MapNextIInv, PTL DEF MapSpec

LEMMA AlignedInvariant == MapSpec => []Aligned
<1>1. MapInit => Aligned  BY DEF MapInit, Aligned
<1>2. MapIInv /\ Aligned /\ [MapNext]_devices => Aligned'
  <2> SUFFICES ASSUME MapIInv, Aligned, [MapNext]_devices PROVE Aligned'
    OBVIOUS
  <2>1. ASSUME NEW q \in Requests, AddDev(q) PROVE Aligned'
    <3>1. q.start \in Nat /\ q.length \in Nat  BY BusMapAssumption
    <3>2. RangeOf(q).end - RangeOf(q).start = q.length  BY <3>1 DEF RangeOf
    <3>3. RangeOf(q).start % q.length = 0  BY <2>1 DEF AddDev, RangeOf
    <3> QED  BY <2>1, <3>2, <3>3 DEF AddDev, Aligned
  <2>2. CASE UNCHANGED devices  BY <2>2 DEF Aligned
  <2> QED  BY <2>1, <2>2 DEF MapNext, Refused
<1>3. MapSpec => []MapIInv  BY MapInitIInv, MapNextIInv, PTL DEF MapSpec
<1> QED  BY <1>1, <1>2, <1>3, PTL DEF MapSpec

(* The remainder of an address in an aligned range is its distance from    *)
(* the start.                                                              *)
LEMMA RemainderOfOffset ==
  ASSUME NEW n \in Nat \ {0}, NEW s \in Nat, s % n = 0, NEW k \in 0 .. (n - 1)
  PROVE  (s + k) % n = k
<1> DEFINE q == s \div n
<1>1. s = n * q /\ q \in Nat  OBVIOUS
<1> HIDE DEF q
<1>2. (n * q + k) % n = k  BY <1>1, Digits
<1> QED  BY <1>1, <1>2

(* Every access that lies in a device reaches it, at the right offset.     *)
LEMMA LookupCorrect ==
  ASSUME MapIInv, Aligned PROVE LookupFinds
<1> SUFFICES ASSUME NEW addr \in 0 .. (AddrSpace - 1), NEW size \in {1, 4, 8}
             PROVE /\ Answering(addr, size)
                        = {d \in devices : d.start <= addr /\ addr + size <= d.end}
                   /\ \A d \in Answering(addr, size) : Offset(d, addr) = addr - d.start
  BY DEF LookupFinds
<1> DEFINE r == [start |-> addr, end |-> AddrSpace]
<1>1. \A e \in devices : /\ e.start \in Nat /\ e.end \in Nat
                         /\ e.start < e.end /\ e.end < AddrSpace
  BY DEF MapIInv, MapTypeOK, RangeT
<1>2. r.start \in Nat /\ r.end \in Nat  BY BusMapAssumption
<1>3. ASSUME NEW d \in devices, d.start <= addr, addr + size <= d.end
      PROVE d \in Prev(r)
  <2>1. ~Before(r, d)  BY <1>1, <1>3, BusMapAssumption DEF Before
  <2>2. PICK p \in Prev(r) : d.start <= p.start  BY <1>2, <2>1, PrevIsLast
  <2>3. p \in devices /\ p.start <= addr
    BY <2>2, <1>1, BusMapAssumption DEF Prev, Before
  <2>4. CASE d # p
    <3>1. d.end <= p.start  BY <2>2, <2>3, <2>4, <1>1 DEF MapIInv, Disjoint
    <3> QED  BY <3>1, <2>3, <1>1, <1>3
  <2> QED  BY <2>2, <2>4
<1>4. Answering(addr, size)
        = {d \in devices : d.start <= addr /\ addr + size <= d.end}
  BY <1>3 DEF Answering, Prev
<1>5. ASSUME NEW d \in Answering(addr, size) PROVE Offset(d, addr) = addr - d.start
  <2>1. d \in devices /\ d.start <= addr /\ addr + size <= d.end  BY <1>4
  <2> DEFINE n == d.end - d.start   k == addr - d.start
  <2>2. n \in Nat \ {0} /\ k \in 0 .. (n - 1) /\ d.start + k = addr  BY <2>1, <1>1
  <2>3. d.start % n = 0  BY <2>1 DEF Aligned
  <2>4. d.start \in Nat  BY <2>1, <1>1
  <2> HIDE DEF n, k
  <2>5. (d.start + k) % n = k  BY <2>2, <2>3, <2>4, RemainderOfOffset
  <2> QED  BY <2>2, <2>5 DEF Offset, n, k
<1> QED  BY <1>4, <1>5

THEOREM LookupsRight == MapSpec => []LookupFinds
<1>1. MapSpec => []MapIInv  BY MapInitIInv, MapNextIInv, PTL DEF MapSpec
<1> QED  BY <1>1, AlignedInvariant, LookupCorrect, PTL

(***************************************************************************)
(* The reservation (Systembus): any number of harts, over any memory and   *)
(* any accesses of which two that meet start at the same address           *)
(***************************************************************************)
(* The register holds an access the program makes; it is what makes        *)
(* SameStart applicable to it.                                             *)
LrOK == lr.valid => [pa |-> lr.pa, size |-> lr.size] \in Accesses

LrType == lr \in [valid : BOOLEAN, pa : Nat, size : Nat, hart : Hart \cup {CHOOSE h \in Hart : TRUE}]

LrIInv == LrType /\ LrOK

LEMMA AccessType ==
  \A acc \in Accesses : /\ acc.pa \in Nat /\ acc.size \in Nat \ {0}
                        /\ acc = [pa |-> acc.pa, size |-> acc.size]
  BY ByteMemAssumption

LEMMA LrInit == Init => LrIInv
  BY DEF Init, LrIInv, LrType, LrOK

LEMMA LrNext == LrIInv /\ [Next]_vars => LrIInv'
<1> SUFFICES ASSUME LrIInv, [Next]_vars PROVE LrIInv'
  OBVIOUS
<1>1. ASSUME NEW acc, lr' = WrittenLr(acc) PROVE LrIInv'
  BY <1>1 DEF LrIInv, LrType, LrOK, WrittenLr
<1>2. CASE UNCHANGED lr
  BY <1>2 DEF LrIInv, LrType, LrOK
<1>3. ASSUME NEW h \in Hart, NEW acc \in Accesses, Lr(h, acc) PROVE LrIInv'
  BY <1>3, AccessType DEF Lr, LrIInv, LrType, LrOK
<1>4. ASSUME NEW h \in Hart, NEW acc \in Accesses, NEW v \in Src, Sc(h, acc, v)
      PROVE LrIInv'
  BY <1>4 DEF Sc, LrIInv, LrType, LrOK
<1>5. ASSUME NEW h \in Hart, NEW acc \in Accesses, Load(h, acc) PROVE LrIInv'
  BY <1>5, <1>2 DEF Load
<1>6. ASSUME NEW h \in Hart, NEW acc \in Accesses, NEW v \in Src, Store(h, acc, v)
      PROVE LrIInv'
  BY <1>6, <1>1, <1>2 DEF Store
<1>7. ASSUME NEW h \in Hart, NEW acc \in Accesses, NEW v \in Src, NEW op \in AmoOps,
             Amo(h, acc, op, v)
      PROVE LrIInv'
  BY <1>7, <1>1, <1>2 DEF Amo
<1> QED  BY <1>2, <1>3, <1>4, <1>5, <1>6, <1>7 DEF Next, vars

-----------------------------------------------------------------------------
(* The reservations the harts hold, and those a step may leave.            *)
LEMMA ReservedType ==
  ASSUME LrIInv, NEW h \in Hart
  PROVE  /\ Reserved(h) \in Accesses \cup {Atomic!NoAccess}
         /\ Reserved(h) # Atomic!NoAccess => lr.valid /\ lr.hart = h
  BY AccessType DEF Reserved, LrIInv, LrOK, Atomic!NoAccess

(* A write that meets the reserved bytes finds the reservation.            *)
LEMMA BreaksMet ==
  ASSUME LrIInv, lr.valid, NEW acc \in Accesses,
         Atomic!Overlap([pa |-> lr.pa, size |-> lr.size], acc)
  PROVE  Breaks(acc)
<1>1. [pa |-> lr.pa, size |-> lr.size] \in Accesses  BY DEF LrIInv, LrOK
<1>2. lr.pa = acc.pa  BY <1>1, SameStart DEF Atomic!Overlap
<1> QED  BY <1>2, AccessType DEF Breaks

LEMMA WrittenAtMost ==
  ASSUME LrIInv, NEW acc \in Accesses, lr' = WrittenLr(acc)
  PROVE  Atomic!AtMost(Atomic!Unbroken(acc))
<1> SUFFICES ASSUME NEW h \in Hart
             PROVE  Reserved(h)' \in {Atomic!Unbroken(acc)[h], Atomic!NoAccess}
  BY DEF Atomic!AtMost
<1>1. CASE lr.valid /\ lr.hart = h /\ ~Breaks(acc)
  <2>1. Reserved(h)' = Reserved(h)  BY <1>1 DEF Reserved, WrittenLr
  <2>2. Reserved(h) = [pa |-> lr.pa, size |-> lr.size]  BY <1>1 DEF Reserved
  <2>3. ~Atomic!Overlap(Reserved(h), acc)  BY <1>1, <2>2, BreaksMet
  <2>4. Atomic!Unbroken(acc)[h] = Reserved(h)  BY <2>3 DEF Atomic!Unbroken
  <2> QED  BY <2>1, <2>4
<1>2. CASE ~(lr.valid /\ lr.hart = h /\ ~Breaks(acc))
  BY <1>2 DEF Reserved, WrittenLr, Atomic!NoAccess, LrIInv, LrType
<1> QED  BY <1>1, <1>2

LEMMA SameAtMost ==
  ASSUME UNCHANGED lr
  PROVE  Atomic!AtMost([h \in Hart |-> Reserved(h)])
  BY DEF Atomic!AtMost, Reserved

-----------------------------------------------------------------------------
(* Every step of the bus is a step of the shared memory.                   *)
LEMMA FaultStep ==
  ASSUME LrIInv, NEW h \in Hart, NEW op \in {"load", "store", "lr", "sc", "amo"},
         Raise(h, op), UNCHANGED data,
         NEW r \in [Hart -> Accesses \cup {Atomic!NoAccess}],
         Atomic!AtMost(r), \A g \in Hart : g # h => r[g] = Reserved(g)
  PROVE  Atomic!AtomicNext
<1>1. Atomic!AFault(h, op)
  BY DEF Atomic!AFault, Raise
<1> QED  BY <1>1 DEF Atomic!AtomicNext

(* A fault that leaves the reservations, or fewer of them.                 *)
LEMMA FaultFewer ==
  ASSUME LrIInv, NEW h \in Hart, NEW op \in {"load", "store", "lr", "sc", "amo"},
         Raise(h, op), UNCHANGED data,
         \A g \in Hart : Reserved(g)' \in {Reserved(g), Atomic!NoAccess}
  PROVE  Atomic!AtomicNext
<1> DEFINE r == [g \in Hart |-> Reserved(g)]
<1>1. r \in [Hart -> Accesses \cup {Atomic!NoAccess}]  BY ReservedType
<1>2. Atomic!AtMost(r)  BY DEF Atomic!AtMost
<1> QED  BY <1>1, <1>2, FaultStep

LEMMA WrittenFewer ==
  ASSUME LrIInv, NEW acc \in Accesses, lr' = WrittenLr(acc), NEW g \in Hart
  PROVE  Reserved(g)' \in {Reserved(g), Atomic!NoAccess}
<1>1. CASE Breaks(acc) /\ lr.valid
  BY <1>1 DEF WrittenLr, Reserved, Atomic!NoAccess, LrIInv, LrType
<1>2. CASE ~Breaks(acc)
  BY <1>2 DEF WrittenLr, Reserved
<1>3. CASE Breaks(acc) /\ ~lr.valid
  BY <1>3 DEF WrittenLr, Reserved, Atomic!NoAccess, LrIInv, LrType
<1> QED  BY <1>1, <1>2, <1>3

LEMMA LoadStep ==
  ASSUME LrIInv, NEW h \in Hart, NEW acc \in Accesses, Load(h, acc)
  PROVE  Atomic!AtomicNext
<1>1. CASE Misaligned(acc) \/ ~Inside(acc)
  BY <1>1, FaultFewer DEF Load, Reserved
<1>2. CASE ~Misaligned(acc) /\ Inside(acc)
  <2>1. Atomic!ALoad(h, acc)
    BY <1>2, SameAtMost DEF Load, Atomic!ALoad
  <2> QED  BY <2>1, <1>2 DEF Atomic!AtomicNext
<1> QED  BY <1>1, <1>2

LEMMA StoreStep ==
  ASSUME LrIInv, NEW h \in Hart, NEW acc \in Accesses, NEW v \in Src, Store(h, acc, v)
  PROVE  Atomic!AtomicNext
<1>1. CASE Misaligned(acc) /\ Raise(h, "store") /\ UNCHANGED <<data, lr>>
  BY <1>1, FaultFewer DEF Reserved
<1>2. CASE /\ ~Misaligned(acc) /\ ~Inside(acc)
           /\ Raise(h, "store") /\ lr' = WrittenLr(acc) /\ UNCHANGED data
  BY <1>2, FaultFewer, WrittenFewer
<1>3. CASE /\ ~Misaligned(acc) /\ Inside(acc)
           /\ last' = <<h, "store">>
           /\ data' = WriteBytes(data, acc, v) /\ lr' = WrittenLr(acc)
  <2>1. Atomic!AStore(h, acc, v)
    BY <1>3, WrittenAtMost DEF Atomic!AStore
  <2> QED  BY <2>1, <1>3 DEF Atomic!AtomicNext
<1> QED  BY <1>1, <1>2, <1>3 DEF Store

LEMMA LrStep ==
  ASSUME LrIInv, NEW h \in Hart, NEW acc \in Accesses, Lr(h, acc)
  PROVE  Atomic!AtomicNext
<1> DEFINE r == [[g \in Hart |-> Reserved(g)] EXCEPT ![h] = acc]
<1>1. \A g \in Hart : Reserved(g)' = IF g = h THEN acc ELSE Atomic!NoAccess
  BY AccessType DEF Lr, Reserved, Atomic!NoAccess
<1>2. Atomic!AtMost(r)  BY <1>1 DEF Atomic!AtMost
<1>3. CASE Inside(acc)
  <2>1. Atomic!ALr(h, acc)
    BY <1>2, <1>3 DEF Lr, Atomic!ALr
  <2> QED  BY <2>1, <1>3 DEF Atomic!AtomicNext
<1>4. CASE ~Inside(acc)
  <2>1. r \in [Hart -> Accesses \cup {Atomic!NoAccess}]  BY ReservedType
  <2>2. \A g \in Hart : g # h => r[g] = Reserved(g)  OBVIOUS
  <2>3. Raise(h, "lr") /\ UNCHANGED data  BY <1>4 DEF Lr
  <2> HIDE DEF r
  <2> QED  BY <2>1, <2>2, <2>3, <1>2, FaultStep
<1> QED  BY <1>3, <1>4

LEMMA ScStep ==
  ASSUME LrIInv, NEW h \in Hart, NEW acc \in Accesses, NEW v \in Src, Sc(h, acc, v)
  PROVE  Atomic!AtomicNext
<1>1. CASE ~Holds(h, acc)
  <2>1. last' = <<h, "sc", 1>> /\ UNCHANGED data  BY <1>1 DEF Sc
  <2>2. lr' = IF lr.hart = h THEN [lr EXCEPT !.valid = FALSE] ELSE lr
    BY <1>1 DEF Sc
  <2>3. Atomic!AtMost(Atomic!Without(h))
    <3> SUFFICES ASSUME NEW g \in Hart
                 PROVE  Reserved(g)' \in {Atomic!Without(h)[g], Atomic!NoAccess}
      BY DEF Atomic!AtMost
    <3>1. CASE lr.hart = h
      BY <2>2, <3>1 DEF Reserved, Atomic!NoAccess, LrIInv, LrType
    <3>2. CASE lr.hart # h
      BY <2>2, <3>2 DEF Reserved, Atomic!NoAccess, Atomic!Without
    <3> QED  BY <3>1, <3>2
  <2>4. Atomic!AScFail(h)  BY <2>1, <2>3 DEF Atomic!AScFail
  <2> QED  BY <2>4 DEF Atomic!AtomicNext
<1>2. CASE Holds(h, acc)
  <2>1. lr' = [lr EXCEPT !.valid = FALSE]  BY <1>2 DEF Sc
  <2>2. \A g \in Hart : Reserved(g)' = Atomic!NoAccess
    BY <2>1 DEF Reserved, Atomic!NoAccess, LrIInv, LrType
  <2>3. CASE Inside(acc)
    <3>1. Reserved(h) = acc  BY <1>2, AccessType DEF Holds, Reserved
    <3>2. last' = <<h, "sc", 0>> /\ data' = WriteBytes(data, acc, v)
      BY <1>2, <2>3 DEF Sc
    <3>3. Atomic!AtMost([Atomic!Unbroken(acc) EXCEPT ![h] = Atomic!NoAccess])
      BY <2>2 DEF Atomic!AtMost
    <3>4. Atomic!AScOk(h, acc, v)
      BY <3>1, <3>2, <3>3 DEF Atomic!AScOk
    <3> QED  BY <3>4, <2>3 DEF Atomic!AtomicNext
  <2>4. CASE ~Inside(acc)
    <3>1. Raise(h, "sc") /\ UNCHANGED data  BY <1>2, <2>4 DEF Sc
    <3> QED  BY <3>1, <2>2, FaultFewer
  <2> QED  BY <2>3, <2>4
<1> QED  BY <1>1, <1>2

LEMMA AmoStep ==
  ASSUME LrIInv, NEW h \in Hart, NEW acc \in Accesses, NEW v \in Src, NEW op \in AmoOps,
         Amo(h, acc, op, v)
  PROVE  Atomic!AtomicNext
<1>1. CASE ~Inside(acc)
  BY <1>1, FaultFewer DEF Amo, Reserved
<1>2. CASE Inside(acc)
  <2> DEFINE old == Loaded(data, acc)
  <2>1. /\ last' = <<h, "amo", old>>
        /\ data' = WriteBytes(data, acc, AmoResult(op, v, old))
        /\ lr' = WrittenLr(acc)
    BY <1>2 DEF Amo
  <2>2. Atomic!AAmo(h, acc, op, v)
    BY <2>1, WrittenAtMost DEF Atomic!AAmo
  <2> QED  BY <2>2, <1>2 DEF Atomic!AtomicNext
<1> QED  BY <1>1, <1>2

-----------------------------------------------------------------------------
(* The bus implements the shared memory.                                   *)
THEOREM BusIsAtomic == Spec => AtomicSpec
<1>1. Init => Atomic!AtomicInit
  BY DEF Init, Atomic!AtomicInit, Reserved, Atomic!NoAccess
<1>2. LrIInv /\ [Next]_vars => [Atomic!AtomicNext]_(Atomic!aVars)
  <2> SUFFICES ASSUME LrIInv, [Next]_vars
               PROVE  Atomic!AtomicNext \/ UNCHANGED Atomic!aVars
    OBVIOUS
  <2>1. CASE Next
    BY <2>1, LoadStep, StoreStep, LrStep, ScStep, AmoStep DEF Next
  <2>2. CASE UNCHANGED vars
    BY <2>2 DEF vars, Atomic!aVars, Reserved
  <2> QED  BY <2>1, <2>2
<1>3. Spec => []LrIInv  BY LrInit, LrNext, PTL DEF Spec
<1> QED  BY <1>1, <1>2, <1>3, PTL DEF Spec, AtomicSpec, Atomic!AtomicSpec
=============================================================================
