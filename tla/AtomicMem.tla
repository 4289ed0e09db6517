----------------------------- MODULE AtomicMem -----------------------------
(***************************************************************************)
(* What load-reserved and store-conditional promise to the harts that      *)
(* share a memory: every hart may hold one reservation; a write by anybody *)
(* to a reserved byte ends the reservation; a store-conditional succeeds   *)
(* only for the hart that still reserves exactly what it stores.  A        *)
(* reservation may also be lost for no reason, and an access outside the   *)
(* memory faults.                                                          *)
(***************************************************************************)
CONSTANTS
  Hart, Images, Accesses, Src, AmoOps,     \* as in ByteMem
  Fault,                 \* the result of an access that trapped
  BytesOf(_), Inside(_), \* the bytes of an access, and whether it has a device
  Loaded(_, _), WriteBytes(_, _, _),       \* the memory read and written
  AmoResult(_, _, _)     \* what an atomic operation stores

VARIABLES
  data,     \* the memory
  resv,     \* the reservation of each hart, or NoAccess
  last      \* who did what last: the value returned, or that it faulted

aVars == <<data, resv, last>>

NoAccess == [pa |-> 0, size |-> 0]
Overlap(a, b) == BytesOf(a) \cap BytesOf(b) # {}

AtomicInit ==
  /\ data \in Images
  /\ resv = [h \in Hart |-> NoAccess]
  /\ last = <<"reset">>

(* Reservations that are left: those of r, or fewer. *)
AtMost(r) ==
  /\ DOMAIN resv' = Hart
  /\ \A h \in Hart : resv'[h] \in {r[h], NoAccess}
Unbroken(acc) ==
  [h \in Hart |-> IF resv[h] # NoAccess /\ Overlap(resv[h], acc)
                  THEN NoAccess ELSE resv[h]]
Without(h) == [resv EXCEPT ![h] = NoAccess]

AFault(h, op) ==
  /\ last' = <<h, op, Fault>> /\ UNCHANGED data
  /\ \E r \in [Hart -> Accesses \cup {NoAccess}] :
       AtMost(r) /\ \A g \in Hart : g # h => r[g] = resv[g]
ALoad(h, acc) ==
  /\ last' = <<h, "load", Loaded(data, acc)>>
  /\ UNCHANGED data /\ AtMost(resv)
AStore(h, acc, v) ==
  /\ last' = <<h, "store">>
  /\ data' = WriteBytes(data, acc, v) /\ AtMost(Unbroken(acc))
ALr(h, acc) ==
  /\ last' = <<h, "lr", Loaded(data, acc)>>
  /\ UNCHANGED data /\ AtMost([resv EXCEPT ![h] = acc])
AScOk(h, acc, v) ==
  /\ resv[h] = acc
  /\ last' = <<h, "sc", 0>>
  /\ data' = WriteBytes(data, acc, v)
  /\ AtMost([Unbroken(acc) EXCEPT ![h] = NoAccess])
AScFail(h) ==
  /\ last' = <<h, "sc", 1>>
  /\ UNCHANGED data /\ AtMost(Without(h))
AAmo(h, acc, op, v) ==
  LET old == Loaded(data, acc) IN
  /\ last' = <<h, "amo", old>>
  /\ data' = WriteBytes(data, acc, AmoResult(op, v, old)) /\ AtMost(Unbroken(acc))

AtomicNext ==
  \E h \in Hart :
    \/ \E op \in {"load", "store", "lr", "sc", "amo"} : AFault(h, op)
    \/ AScFail(h)
    \/ \E acc \in Accesses :
         /\ Inside(acc)
         /\ \/ ALoad(h, acc) \/ ALr(h, acc)
            \/ \E v \in Src : \/ AStore(h, acc, v) \/ AScOk(h, acc, v)
                              \/ \E op \in AmoOps : AAmo(h, acc, op, v)

AtomicSpec == AtomicInit /\ [][AtomicNext]_aVars
=============================================================================
