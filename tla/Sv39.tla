-------------------------------- MODULE Sv39 --------------------------------
(***************************************************************************)
(* The address translation of the simulation, rv_sv39: a small TLB in      *)
(* front of the three-level page tables, which the program that runs on    *)
(* the simulator changes by ordinary stores, and the fences it owes the    *)
(* TLB afterwards.  Addresses are counted in pages; a table has Fan        *)
(* entries instead of 512.                                                 *)
(***************************************************************************)
EXTENDS Naturals, FiniteSets

CONSTANTS
  Fan,          \* the entries of a table
  NrEntry,      \* nr_tlb_entry
  Asid,         \* the address spaces; 0 is no asid
  Root,         \* satp.ppn of each of them
  Tables,       \* the physical pages that hold tables, at the start
  PteWrites,    \* the entries the program writes: [table, index, pte]
  MaxOwed       \* bound: fences owed when a table is written

ASSUME Sv39Assumption ==
  /\ Fan \in Nat \ {0, 1} /\ NrEntry \in Nat \ {0} /\ MaxOwed \in Nat
  /\ Asid \subseteq Nat \ {0} /\ Root \in [Asid -> Nat]
  /\ \A t \in DOMAIN Tables : \A i \in 0 .. (Fan - 1) :
       Tables[t][i].ppn \in Nat

VARIABLES
  pt,       \* the tables in memory
  tlb,      \* the entries: ppa, vpa, asid, pagesize, flags
  random,   \* the entry to be replaced
  owed      \* the fences the program still owes: <<asid or 0, page>>

sv39Vars == <<pt, tlb, random, owed>>

Page  == 0 .. (Fan * Fan * Fan - 1)
Entry == 0 .. (NrEntry - 1)
Cover(pagesize) ==                          \* the pages under an entry
  CASE pagesize = 1 -> 1 [] pagesize = 2 -> Fan [] OTHER -> Fan * Fan
Base(v, pagesize) == v - (v % Cover(pagesize))
AllPages == Fan * Fan * Fan                 \* the vaddr 0 of sfence_vma

(* ptw, from the table at page t, for pages of pagesize and below.  An     *)
(* entry is its flags, "bad" for reserved bits or a PBMT, and a page; no   *)
(* table or no leaf is a failed walk.                                      *)
NoLeaf == [pagesize |-> 0]
Pte(tables, t, v, pagesize) == tables[t][(v \div Cover(pagesize)) % Fan]
Refused(e) == "V" \notin e.flags \/ "bad" \in e.flags
                \/ ("W" \in e.flags /\ "R" \notin e.flags)
Visit(tables, t, v, pagesize, below) ==
  LET e == Pte(tables, t, v, pagesize)
  IN IF t \notin DOMAIN tables \/ Refused(e) THEN NoLeaf
     ELSE IF {"R", "X"} \cap e.flags = {} THEN below
     ELSE IF e.ppn % Cover(pagesize) # 0 THEN NoLeaf
     ELSE [pagesize |-> pagesize, ppa |-> e.ppn, flags |-> e.flags \ {"V"}]
Small(tables, t, v) == Visit(tables, t, v, 1, NoLeaf)
Large(tables, t, v) == Visit(tables, t, v, 2, Small(tables, Pte(tables, t, v, 2).ppn, v))
Huge(tables, t, v)  == Visit(tables, t, v, 3, Large(tables, Pte(tables, t, v, 3).ppn, v))
Walk(tables, a, v)  == Huge(tables, Root[a], v)

(* An entry of pagesize 0, of which no other field matters.                *)
Invalidated == [ppa |-> 0, vpa |-> 0, asid |-> 0, pagesize |-> 0, flags |-> {}]

Sv39Init ==
  /\ pt = Tables
  /\ tlb = [i \in Entry |-> Invalidated]
  /\ random = 0 /\ owed = {}

(* local_tlb_get: more than one entry is an assertion failure. *)
Hits(a, v) ==
  {i \in Entry : /\ tlb[i].pagesize # 0
                 /\ tlb[i].asid = a \/ "G" \in tlb[i].flags
                 /\ tlb[i].vpa = Base(v, tlb[i].pagesize)}

(* local_tlbe_get: a miss walks the tables and, if there is a leaf,        *)
(* replaces an entry, round robin.                                         *)
Fill(a, v, leaf) ==
  /\ tlb' = [tlb EXCEPT ![random] =
       [ppa |-> leaf.ppa, vpa |-> Base(v, leaf.pagesize), asid |-> a,
        pagesize |-> leaf.pagesize, flags |-> leaf.flags]]
  /\ random' = (random + 1) % NrEntry
Translate(a, v) ==
  /\ Cardinality(Hits(a, v)) <= 1
  /\ IF Hits(a, v) = {} /\ Walk(pt, a, v) # NoLeaf
     THEN Fill(a, v, Walk(pt, a, v)) ELSE UNCHANGED <<tlb, random>>
  /\ UNCHANGED <<pt, owed>>

(* sfence_vma: of one asid or of all (0), for one page or for all.         *)
FlushedBase(e, v, a) ==          \* fault: only the first page of a superpage
  /\ e.asid = a \/ a = 0
  /\ v = AllPages \/ (e.pagesize # 0 /\ e.vpa = v)
Flushed(e, v, a) ==
  /\ e.asid = a \/ a = 0
  /\ v = AllPages \/ (e.pagesize # 0 /\ Base(e.vpa, e.pagesize) = Base(v, e.pagesize))
sfence_vma(v, a) ==
  /\ tlb' = [i \in Entry |-> IF Flushed(tlb[i], v, a)
                             THEN Invalidated ELSE tlb[i]]
  /\ owed' = {f \in owed : ~(f[1] = a \/ a = 0) \/ ~(v = AllPages \/ f[2] = v)}
  /\ UNCHANGED <<pt, random>>

(* The program writes an entry of a table.  It keeps global mappings the   *)
(* same in all address spaces; a page whose translation changed is fenced  *)
(* in its address space, or in all if it is or was global.                 *)
GlobalsShared(tables) ==
  \A v \in Page, a, b \in Asid :
    LET leaf == Walk(tables, a, v)
    IN leaf # NoLeaf /\ "G" \in leaf.flags => Walk(tables, b, v) = leaf
ASSUME TablesAssumption == GlobalsShared(Tables)
Owes(before, after) ==
  {f \in Asid \X Page : Walk(before, f[1], f[2]) # Walk(after, f[1], f[2])}
OwesAll(before, after) ==
  {<<0, v>> : v \in {w \in Page : \E a \in Asid :
     LET leaf == Walk(before, a, w)
     IN leaf # NoLeaf /\ "G" \in leaf.flags /\ leaf # Walk(after, a, w)}}
SetPte(w) ==
  LET after == [pt EXCEPT ![w.table][w.index] = w.pte]
  IN /\ after # pt /\ GlobalsShared(after) /\ Cardinality(owed) <= MaxOwed
     /\ pt' = after
     /\ owed' = owed \cup Owes(pt, after) \cup OwesAll(pt, after)
     /\ UNCHANGED <<tlb, random>>

Sv39Next ==
  \/ \E a \in Asid, v \in Page : Translate(a, v)
  \/ \E a \in Asid \cup {0}, v \in Page \cup {AllPages} : sfence_vma(v, a)
  \/ \E w \in PteWrites : SetPte(w)

Sv39Spec == Sv39Init /\ [][Sv39Next]_sv39Vars

-----------------------------------------------------------------------------
(* The TLB agrees with the tables wherever the program owes no fence: at   *)
(* most one entry answers (else local_tlb_get fails its assertion), and it *)
(* is what a walk finds now, page, size and permissions (what MM_SANITIZER *)
(* asserts): whatever was cached before for the page, for a superpage      *)
(* around it or under another address space, and however the fences were   *)
(* split.                                                                  *)
Stale(a, v) == {<<a, v>>, <<0, v>>} \cap owed # {}
TlbCurrent ==
  \A a \in Asid, v \in Page : ~Stale(a, v) =>
    /\ Cardinality(Hits(a, v)) <= 1
    /\ \A i \in Hits(a, v) :
         [pagesize |-> tlb[i].pagesize, ppa |-> tlb[i].ppa, flags |-> tlb[i].flags]
           = Walk(pt, a, v)
=============================================================================
