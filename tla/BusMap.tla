------------------------------- MODULE BusMap -------------------------------
(***************************************************************************)
(* The device map of rv_systembus, and of nscscc_sram_xbar, which has the  *)
(* same code: a std::map from address ranges to devices, in which add_dev  *)
(* looks at the two neighbours of a new range only, and a lookup at the    *)
(* last range that does not start behind the address.                      *)
(***************************************************************************)
EXTENDS Integers

CONSTANTS
  AddrSpace,   \* the number of addresses
  Requests     \* the ranges add_dev may be asked for

ASSUME BusMapAssumption ==
  /\ AddrSpace \in Nat
  /\ Requests \subseteq [start : Nat, length : Nat \ {0}]
  /\ \A q \in Requests : q.start + q.length < AddrSpace     \* no sum wraps

VARIABLE devices     \* the keys of the map

RangeOf(q) == [start |-> q.start, end |-> q.start + q.length]
MapInit == devices = {}

(* std::pair's order on the keys, and the neighbours a key has in the map. *)
Before(d, e) == d.start < e.start \/ (d.start = e.start /\ d.end < e.end)
UpperBound(r) == {d \in devices : /\ Before(r, d)
                                  /\ \A e \in devices : Before(r, e) => ~Before(e, d)}
Prev(r)       == {d \in devices : /\ ~Before(r, d)
                                  /\ \A e \in devices : ~Before(r, e) => ~Before(d, e)}

(* l_max < r_min *)
Overlaps(d, r) ==
  (IF d.start > r.start THEN d.start ELSE r.start)
    < (IF d.end < r.end THEN d.end ELSE r.end)

AddDevAfterOnly(q) ==      \* fault: the range before is not looked at
  /\ q.start % q.length = 0
  /\ \A d \in UpperBound(RangeOf(q)) : ~Overlaps(d, RangeOf(q))
  /\ devices' = devices \cup {RangeOf(q)}
AddDev(q) ==
  /\ q.start % q.length = 0
  /\ \A d \in UpperBound(RangeOf(q)) \cup Prev(RangeOf(q)) : ~Overlaps(d, RangeOf(q))
  /\ devices' = devices \cup {RangeOf(q)}
Refused(q) ==
  /\ \/ q.start % q.length # 0
     \/ \E d \in UpperBound(RangeOf(q)) \cup Prev(RangeOf(q)) : Overlaps(d, RangeOf(q))
  /\ UNCHANGED devices

MapNext == \E q \in Requests : AddDev(q) \/ Refused(q)
MapSpec == MapInit /\ [][MapNext]_devices

(* The device pa_read and pa_write go to: the range before upper_bound of  *)
(* (address, ULONG_MAX), if the access lies in it, at this offset.         *)
Answering(addr, size) ==
  {d \in Prev([start |-> addr, end |-> AddrSpace]) :
     d.start <= addr /\ addr + size <= d.end}
OffsetMasked(d, addr) == addr % d.end     \* fault: not the size of the device
Offset(d, addr) == addr % (d.end - d.start)

-----------------------------------------------------------------------------
(* Looking at two neighbours is enough: no address belongs to two devices, *)
(* whatever ranges are asked for and in whatever order.                    *)
Disjoint == \A d, e \in devices : d # e => d.end <= e.start \/ e.end <= d.start

(* Looking at one range is enough too: an access that lies in a device     *)
(* finds it, and the offset it is given is its distance from the start.    *)
LookupFinds ==
  \A addr \in 0 .. (AddrSpace - 1), size \in {1, 4, 8} :
    /\ Answering(addr, size)
         = {d \in devices : d.start <= addr /\ addr + size <= d.end}
    /\ \A d \in Answering(addr, size) : Offset(d, addr) = addr - d.start
=============================================================================
