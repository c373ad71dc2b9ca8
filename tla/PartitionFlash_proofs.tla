------------------------ MODULE PartitionFlash_proofs ------------------------
(***************************************************************************)
(* Theorems of PartitionFlash, for every table, chip and word size.        *)
(***************************************************************************)
EXTENDS PartitionFlash, TLAPS

\* An open handle is an entry the scan may return, and one that was opened
\* directly has been checked.
Opened(l) ==
    handle[l] # None =>
        /\ handle[l].way = "direct" => GeometryOk(handle[l].base, handle[l].len)
        /\ \E i \in DOMAIN table :
               /\ \A j \in 1 .. i : table[j].mark = "entry"
               /\ table[i].label = l
               /\ table[i].offset = handle[l].base /\ table[i].len = handle[l].len

IInv ==
    /\ TypeOK
    /\ \A l \in Labels : Opened(l)
    /\ StaysInside

\* find_partition: what the scan returns is an entry of that label, and
\* everything before it is an entry as well.
LEMMA FoundIsEntry ==
    ASSUME NEW l \in Labels, table \in Tables, NEW e \in Found(table, l)
    PROVE  /\ e \in Entries
           /\ \E i \in DOMAIN table :
                  /\ \A j \in 1 .. i : table[j].mark = "entry"
                  /\ table[i] = e /\ e.label = l
<1>1. table \in Seq(Entries)
  BY ConstantsAssumption
<1>2. PICK i \in Stops(table, l) : (\A k \in Stops(table, l) : i <= k) /\ e = table[i]
  BY DEF Found
<1>3. i \in DOMAIN table /\ DOMAIN table = 1 .. Len(table) /\ Len(table) \in Nat
  BY <1>1, <1>2 DEF Stops
<1>4. e.mark = "entry"
  BY DEF Found
<1>5. e.label = l
  BY <1>2, <1>4 DEF Stops
<1>6. \A j \in 1 .. i : table[j].mark = "entry"
  <2> SUFFICES ASSUME NEW j \in 1 .. i, table[j].mark # "entry" PROVE FALSE
    OBVIOUS
  <2>1. j \in Stops(table, l)
    BY <1>3 DEF Stops
  <2>2. j = i
    BY <1>2, <1>3, <2>1
  <2> QED
    BY <1>2, <1>4, <2>2
<1>7. e \in Entries
  BY <1>1, <1>2, <1>3
<1> QED
  BY <1>2, <1>3, <1>5, <1>6, <1>7

\* An access that passes the checks reaches only the chip, and only the
\* addresses of its own partition: the sum of base and offset does not wrap.
LEMMA AllowedStaysInside ==
    ASSUME NEW l \in Labels, IInv,
           NEW offset \in U32, NEW count \in Nat, NEW unit \in Nat,
           Allowed(l, offset, count, unit)
    PROVE  Span(At(handle[l], offset), count) \subseteq Extent(l) \cap Addresses
<1> DEFINE h == handle[l]
<1>1. h \in Handles /\ h.base \in U32 /\ h.len \in U32 /\ h.way \in Ways
  BY DEF IInv, TypeOK, Allowed, Handles
<1>2. GeometryOk(h.base, h.len)
  BY <1>1 DEF IInv, Opened, Allowed, Ways
<1>3. /\ MaxAddr \in Nat /\ Capacity \in Nat
      /\ h.base + h.len <= MaxAddr
      /\ offset + count <= h.len
      /\ At(h, offset) = h.base + offset
      /\ h.base + offset + count <= Capacity
  <2>1. MaxAddr \in Nat /\ Capacity \in Nat
    BY ConstantsAssumption
  <2>2. h.base + h.len <= MaxAddr
    BY <1>2 DEF GeometryOk
  <2>3. offset + count <= h.len
    BY DEF Allowed, Fits
  <2>4. At(h, offset) = h.base + offset
    BY <1>1, <2>1, <2>2, <2>3 DEF At, WrappingAdd, U32
  <2>5. At(h, offset) + count <= Capacity
    BY DEF Allowed, InChip
  <2> QED
    BY <2>1, <2>2, <2>3, <2>4, <2>5
<1>4. PICK i \in DOMAIN table :
          /\ \A j \in 1 .. i : table[j].mark = "entry"
          /\ table[i].label = l
          /\ table[i].offset = h.base /\ table[i].len = h.len
  BY DEF IInv, Opened, Allowed
<1> SUFFICES ASSUME NEW a \in Span(At(h, offset), count) PROVE a \in Extent(l) /\ a \in Addresses
  BY DEF Extent
<1>5. a \in Int /\ h.base + offset <= a /\ a <= h.base + offset + count - 1
  BY <1>1, <1>3 DEF Span, U32
<1>6. a \in Addresses
  BY <1>1, <1>3, <1>5 DEF Addresses, U32
<1>7. h.base <= a /\ a < h.base + h.len
  BY <1>1, <1>3, <1>5 DEF U32
<1> QED
  BY <1>4, <1>6, <1>7 DEF Extent

-----------------------------------------------------------------------------
\* find_partition, PartitionFlash::new: every handle opened is an entry of the
\* table, at each step of an access.
THEOREM Invariance == Spec => []IInv
<1>1. Init => IInv
  <2> SUFFICES ASSUME Init PROVE IInv
    OBVIOUS
  <2>1. TypeOK
    BY DEF Init, TypeOK, NoAccess
  <2>2. StaysInside /\ \A l \in Labels : Opened(l)
    BY DEF Init, StaysInside, Opened, NoAccess
  <2> QED
    BY <2>1, <2>2 DEF IInv
<1>2. IInv /\ [Next]_vars => IInv'
  <2> SUFFICES ASSUME IInv, [Next]_vars PROVE IInv'
    OBVIOUS
  <2> USE DEF IInv
  <2>1. ASSUME NEW l \in Labels, NEW way \in Ways, Open(l, way) PROVE IInv'
    <3>1. PICK e \in Found(table, l) :
              /\ way = "direct" => GeometryOk(e.offset, e.len)
              /\ handle' = [handle EXCEPT ![l] = [way |-> way, base |-> e.offset, len |-> e.len]]
      BY <2>1 DEF Open
    <3>2. e \in Entries /\ \E i \in DOMAIN table :
              /\ \A j \in 1 .. i : table[j].mark = "entry"
              /\ table[i] = e /\ e.label = l
      BY FoundIsEntry DEF TypeOK
    <3>3. UNCHANGED <<table, reached>>
      BY <2>1 DEF Open
    <3>4. TypeOK'
      BY <3>1, <3>2, <3>3 DEF TypeOK, Handles, Entries
    <3>5. \A m \in Labels : Opened(m)'
      <4> SUFFICES ASSUME NEW m \in Labels PROVE Opened(m)'
        OBVIOUS
      <4>1. CASE m = l
        <5>1. handle'[m] = [way |-> way, base |-> e.offset, len |-> e.len]
          BY <3>1, <4>1 DEF TypeOK
        <5>2. /\ handle'[m].way = way /\ handle'[m].base = e.offset
              /\ handle'[m].len = e.len
          BY <5>1
        <5> QED
          BY <3>1, <3>2, <3>3, <4>1, <5>2 DEF Opened, GeometryOk
      <4>2. CASE m # l
        <5>1. handle'[m] = handle[m]
          BY <3>1, <4>2 DEF TypeOK
        <5> QED
          BY <3>3, <5>1 DEF Opened, GeometryOk
      <4> QED
        BY <4>1, <4>2
    <3>6. StaysInside'
      BY <3>3 DEF StaysInside, Extent
    <3> QED
      BY <3>4, <3>5, <3>6
  <2>2. ASSUME NEW l \in Labels, NEW way \in Ways, OpenFails(l, way) PROVE IInv'
    <3>1. handle' = [handle EXCEPT ![l] = None] /\ UNCHANGED <<table, reached>>
      BY <2>2 DEF OpenFails
    <3>2. TypeOK'
      BY <3>1 DEF TypeOK
    <3>3. \A m \in Labels : Opened(m)'
      BY <3>1 DEF Opened, TypeOK, GeometryOk
    <3>4. StaysInside'
      BY <3>1 DEF StaysInside, Extent
    <3> QED
      BY <3>2, <3>3, <3>4
  <2>3. ASSUME NEW l \in Labels, NEW offset \in U32, NEW count \in Nat, NEW unit \in Nat,
               Allowed(l, offset, count, unit), Reach(l, offset, count),
               UNCHANGED <<table, handle>>
        PROVE IInv'
    <3> DEFINE reach == Span(At(handle[l], offset), count)
    <3>1. reach \subseteq Extent(l) /\ reach \subseteq Addresses
      BY <2>3, AllowedStaysInside
    <3>2. reached' = [label |-> l, addresses |-> reach]
      BY <2>3 DEF Reach
    <3>3. TypeOK'
      BY <2>3, <3>1, <3>2 DEF TypeOK
    <3>4. \A m \in Labels : Opened(m)'
      BY <2>3 DEF Opened, GeometryOk
    <3>5. \A m : Extent(m)' = Extent(m)
      BY <2>3 DEF Extent
    <3>6. StaysInside'
      BY <3>1, <3>2, <3>5 DEF StaysInside
    <3> QED
      BY <3>3, <3>4, <3>6
  <2>4. ASSUME NEW l \in Labels, NEW offset \in Offsets, NEW count, NEW unit,
               AccessFails(l, offset, count, unit)
        PROVE IInv'
    <3>1. reached' = NoAccess /\ UNCHANGED <<table, handle>>
      BY <2>4 DEF AccessFails
    <3>2. TypeOK'
      BY <3>1 DEF TypeOK, NoAccess
    <3>3. \A m \in Labels : Opened(m)'
      BY <3>1 DEF Opened, GeometryOk
    <3>4. StaysInside'
      BY <3>1 DEF StaysInside, Extent, NoAccess
    <3> QED
      BY <3>2, <3>3, <3>4
  <2>5. CASE UNCHANGED vars
    BY <2>5 DEF vars, TypeOK, Opened, GeometryOk, StaysInside, Extent
  <2>6. /\ Offsets \subseteq U32 /\ Counts \subseteq Nat
        /\ PageSize \in Nat /\ WordSize \in Nat
    BY ConstantsAssumption
  <2>7. CASE Next
    <3> PICK l \in Labels :
            \/ \E way \in Ways : Open(l, way) \/ OpenFails(l, way)
            \/ \E offset \in Offsets :
                   \/ ErasePage(l, offset) \/ AccessFails(l, offset, PageSize, PageSize)
                   \/ \E count \in Counts :
                          \/ Read(l, offset, count) \/ Write(l, offset, count)
                          \/ AccessFails(l, offset, count, WordSize)
      BY <2>7 DEF Next
    <3>1. ASSUME NEW offset \in Offsets, ErasePage(l, offset) PROVE IInv'
      BY <2>3, <2>6, <3>1 DEF ErasePage
    <3>2. ASSUME NEW offset \in Offsets, NEW count \in Counts, Read(l, offset, count)
          PROVE IInv'
      BY <2>3, <2>6, <3>2 DEF Read
    <3>3. ASSUME NEW offset \in Offsets, NEW count \in Counts, Write(l, offset, count)
          PROVE IInv'
      BY <2>3, <2>6, <3>3 DEF Write
    <3> QED
      BY <2>1, <2>2, <2>4, <3>1, <3>2, <3>3
  <2> QED
    BY <2>5, <2>7
<1> QED
  BY <1>1, <1>2, PTL DEF Spec

\* find_partition, PartitionFlash::new: an open handle has a base and a length
\* of the address width, and what an access reaches is an address of the chip.
THEOREM TypeCorrect == Spec => []TypeOK
<1>1. IInv => TypeOK
  BY DEF IInv
<1> QED
  BY <1>1, Invariance, PTL

\* Whatever the table says and whatever is asked for, an access through a
\* label reaches only that label's partition (PartitionFlash::new and ::at,
\* find_partition, SharedPartition::with).
THEOREM AccessesStayInside == Spec => []StaysInside
<1>1. IInv => StaysInside
  BY DEF IInv
<1> QED
  BY <1>1, Invariance, PTL
=============================================================================
