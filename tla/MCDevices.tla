----------------------------- MODULE MCDevices -----------------------------
(***************************************************************************)
(* The devices of the simulation, its address translation and its check of *)
(* accesses, each on a bench of its own: they share no state, so a         *)
(* behaviour exercises one and leaves the others as they are after reset.  *)
(***************************************************************************)
EXTENDS Clint, Plic, Sv39, VaAccess

VARIABLES
  bench,    \* what the behaviour exercises
  who       \* the mode and the fields of mstatus and satp, for VaAccess

rest == <<bench, who>>
devVars == <<clintVars, plicVars, sv39Vars, rest>>

Who   == [priv : Mode, mprv : BOOLEAN, mpp : Mode, sum : BOOLEAN,
          mxr : BOOLEAN, sv39 : BOOLEAN]
Start == [priv |-> "M", mprv |-> FALSE, mpp |-> "U", sum |-> FALSE,
          mxr |-> FALSE, sv39 |-> FALSE]

DevInit ==
  /\ bench \in {"clint", "plic", "sv39", "access"}
  /\ who = Start
  /\ ClintInit /\ PlicInit /\ Sv39Init
DevNext ==
  \/ bench = "clint" /\ ClintNext /\ UNCHANGED <<plicVars, sv39Vars, rest>>
  \/ bench = "plic"  /\ PlicNext  /\ UNCHANGED <<clintVars, sv39Vars, rest>>
  \/ bench = "sv39"  /\ Sv39Next  /\ UNCHANGED <<clintVars, plicVars, rest>>
  \/ /\ bench = "access" /\ who' \in Who
     /\ UNCHANGED <<clintVars, plicVars, sv39Vars, bench>>

(* The caller ticks the CLINT and asks the PLIC for every context, again   *)
(* and again; a handler completes what it has claimed.                     *)
OnClint(A) == bench = "clint" /\ A
OnPlic(A)  == bench = "plic" /\ A
DevFairness ==
  /\ WF_clintVars(OnClint(Tick))
  /\ \A c \in Context : WF_plicVars(OnPlic(GetInt(c)))
  /\ \A s \in Source : WF_plicVars(OnPlic(s \in claimed /\ Complete(s)))

DevSpec == DevInit /\ [][DevNext]_devVars /\ DevFairness

(* AlarmRings of Clint, where time passes. *)
ClintAlarmRings == bench = "clint" => AlarmRings

-----------------------------------------------------------------------------
(* Three sources of different priorities, the first the highest and the    *)
(* others able to hide it; the second context has a threshold only the     *)
(* first passes, and enables only the first and a bit beyond the sources.  *)
SomePriorities == {<<1, 3>>, <<1, 0>>, <<2, 1>>, <<3, 2>>}
SomeEnables    == {<<0, {1, 2, 3}>>, <<1, {1, 31}>>}
SomeThresholds == {<<1, 3>>, <<1, 0>>}

-----------------------------------------------------------------------------
(* Two address spaces over tables of two entries.  The lower half of both  *)
(* goes through the same tables 12 and 13, where a pair of pages is mapped *)
(* page by page, or as one superpage, private to each address space or     *)
(* global; the upper half is one large page of the first address space.    *)
Rw == {"V", "R", "W", "A", "D"}
Pointer(t)     == [flags |-> {"V"}, ppn |-> t]
Leaf(p, flags) == [flags |-> flags, ppn |-> p]
Invalid        == [flags |-> {}, ppn |-> 0]
Table(x, y)    == [i \in 0..1 |-> IF i = 0 THEN x ELSE y]

TwoRoots == [a \in {1, 2} |-> a + 9]
FourTables ==
  [t \in 10..13 |->
     CASE t = 10 -> Table(Pointer(12), Leaf(4, Rw))
       [] t = 11 -> Table(Pointer(12), Invalid)
       [] t = 12 -> Table(Pointer(13), Invalid)
       [] t = 13 -> Table(Leaf(2, Rw), Leaf(5, Rw \cup {"U"}))]

Change(t, i, p) == [table |-> t, index |-> i, pte |-> p]
SomeWrites ==
  {Change(12, 0, Pointer(13)), Change(12, 0, Leaf(6, Rw)),
   Change(12, 0, Leaf(6, Rw \cup {"G"})), Change(12, 0, Leaf(3, Rw)),
   Change(13, 0, Leaf(2, Rw)), Change(13, 0, Leaf(3, (Rw \ {"W"}) \cup {"G"}))}

-----------------------------------------------------------------------------
(* Every page, accessed in every mode and every way.                       *)
Acc == [crosses : BOOLEAN, answers : BOOLEAN, reserved : BOOLEAN,
        flags : {f \in SUBSET Flag : "W" \in f => "R" \in f} \cup {Absent}]

(* The rules of the flags and of mstatus, written as one table: who may    *)
(* do what with a page, in the words of the comments on the fields.        *)
Needs(kind, f) ==
  CASE kind = "fetch" -> "X" \in f
    [] kind \in {"load", "lr"} -> "R" \in f
    [] OTHER -> {"R", "W", "D"} \subseteq f
OwnPage(kind, m, f) ==
  \/ m = "U" /\ "U" \in f
  \/ m = "S" /\ ("U" \notin f \/ (kind # "fetch" /\ who.sum))
ModeOf(kind) ==
  IF who.priv # "M" THEN who.priv
  ELSE IF kind = "fetch" \/ ~who.mprv THEN "M" ELSE who.mpp
Allowed(kind, page) ==
  \/ ModeOf(kind) = "M" \/ ~who.sv39
  \/ /\ ~page.crosses /\ "A" \in page.flags
     /\ Needs(kind, page.flags) /\ OwnPage(kind, ModeOf(kind), page.flags)

(* An sc without the reservation fails before the bus looks for a device.  *)
Answered(kind, page) == page.answers \/ (kind = "sc" /\ ~page.reserved)

(* An access raises no exception exactly if the page is open to the mode   *)
(* and a device answers, in all of the six functions in which rv_priv      *)
(* writes the checks out: mprv moves all but the fetch; an lr is let       *)
(* through where the load is; an amo and an sc raise what the store would, *)
(* but that an sc without the reservation needs no device; an sc that      *)
(* stores has an lr that reads.  A fetch of two halves succeeds if both    *)
(* do.                                                                     *)
AccessChecked ==
  bench = "access" => \A page \in Acc :
    /\ ~who.mxr => \A kind \in Kind :
         (Va(kind, who, page) = "ok") <=> (Allowed(kind, page) /\ Answered(kind, page))
    /\ (VaLr(who, page) = "ok") <=> (VaRead(who, page) = "ok")
    /\ VaAmo(who, page) = VaWrite(who, page)
    /\ VaSc(who, page) = VaWrite(who, [page EXCEPT !.answers = @ \/ ~page.reserved])
    /\ VaSc(who, page) = "ok" /\ page.reserved => VaLr(who, page) = "ok"
    /\ \A f \in {Absent, {"A", "X"}, {"A", "X", "U"}} :
         LET other == [page EXCEPT !.flags = f]
         IN (Fetch(who, page, other) = "ok")
              <=> ({VaIf(who, page), VaIf(who, other)} = {"ok"})
=============================================================================
