---------------------------- MODULE PartitionFlash ----------------------------
(***************************************************************************)
(* The partitions of one flash chip: find_partition reads the table for a  *)
(* label, PartitionFlash and SharedPartition turn partition-relative       *)
(* offsets into flash addresses.  What matters is which addresses an       *)
(* access reaches; what the flash holds is left out.                       *)
(*                                                                         *)
(* Addresses are u32.  A sum the code checks is compared with MaxAddr, one *)
(* it does not check wraps.                                                *)
(***************************************************************************)
EXTENDS Integers, Sequences

CONSTANTS
    Labels,    \* partition labels
    Tables,    \* the partition tables a chip may hold: sequences of entries
    MaxAddr,   \* u32::MAX
    PageSize,  \* an erase page, 4096
    WordSize,  \* a programming word, 4
    Capacity,  \* the size of the chip
    Offsets,   \* what a caller asks for
    Counts,    \* lengths, a usize
    None

Addresses == 0 .. Capacity - 1
U32 == 0 .. MaxAddr

\* "end" is the MD5 entry or blank flash, "other" what is neither.
Marks == {"entry", "end", "other"}
Entries == [mark : Marks, label : Labels, offset : U32, len : U32]

ASSUME ConstantsAssumption ==
    /\ MaxAddr \in Nat /\ Capacity \in Nat /\ Capacity <= MaxAddr + 1
    /\ PageSize \in Nat \ {0} /\ WordSize \in Nat \ {0}
    /\ Tables \subseteq Seq(Entries)
    /\ Offsets \subseteq U32 /\ Counts \subseteq Nat
    /\ None \notin Labels

Ways == {"direct", "shared"}
Handles == [way : Ways, base : U32, len : U32]

VARIABLES
    table,    \* the partition table
    handle,   \* the open partition under each label, or None
    reached   \* the label and the addresses of the last access: read, write or erase

vars == <<table, handle, reached>>

NoAccess == [label |-> None, addresses |-> {}]

-----------------------------------------------------------------------------
(* find_partition. *)

\* The entries the scan stops at.
Stops(t, label) == {i \in DOMAIN t : t[i].mark # "entry" \/ t[i].label = label}

\* The entry the scan returns, in a set; none is found behind the end of the
\* table or behind an entry that is not one.
Found(t, label) ==
    {e \in {t[i] : i \in {j \in Stops(t, label) : \A k \in Stops(t, label) : j <= k}} :
        e.mark = "entry"}

-----------------------------------------------------------------------------
(* Address arithmetic. *)

WrappingAdd(a, b) == IF a + b > MaxAddr THEN a + b - (MaxAddr + 1) ELSE a + b

\* (variant: the end of the partition may lie past the last address)
GeometryOkWrapping(base, len) == len # 0 /\ base % PageSize = 0 /\ len % PageSize = 0

\* PartitionFlash::new.
GeometryOk(base, len) ==
    len # 0 /\ base % PageSize = 0 /\ len % PageSize = 0 /\ base + len <= MaxAddr

\* (variant: only the first byte compared)
FitsFirst(h, offset, count) == count <= MaxAddr /\ offset < h.len

\* PartitionFlash::at succeeds.
Fits(h, offset, count) ==
    count <= MaxAddr /\ offset + count <= MaxAddr /\ offset + count <= h.len

At(h, offset) == WrappingAdd(h.base, offset)

Span(at, count) == at .. at + count - 1

\* The driver refuses what lies past the end of the chip.
InChip(at, count) == at + count <= Capacity

-----------------------------------------------------------------------------
Init ==
    /\ table \in Tables
    /\ handle = [l \in Labels |-> None]
    /\ reached = NoAccess

\* A partition opened for itself is checked when it is made, a shared one at
\* each access.
Open(l, way) ==
    /\ \E e \in Found(table, l) :
           /\ way = "direct" => GeometryOk(e.offset, e.len)
           /\ handle' = [handle EXCEPT ![l] = [way |-> way, base |-> e.offset, len |-> e.len]]
    /\ UNCHANGED <<table, reached>>

\* No such label, a damaged table or a geometry that is refused.
OpenFails(l, way) ==
    /\ \A e \in Found(table, l) : way = "direct" /\ ~GeometryOk(e.offset, e.len)
    /\ handle' = [handle EXCEPT ![l] = None]
    /\ UNCHANGED <<table, reached>>

\* The checks every access passes, and the driver's: whole units of the
\* chip.
Allowed(l, offset, count, unit) ==
    /\ handle[l] # None
    /\ handle[l].way = "shared" => GeometryOk(handle[l].base, handle[l].len)
    /\ Fits(handle[l], offset, count)
    /\ InChip(At(handle[l], offset), count)
    /\ At(handle[l], offset) % unit = 0 /\ count % unit = 0

Reach(l, offset, count) ==
    reached' = [label |-> l, addresses |-> Span(At(handle[l], offset), count)]

Read(l, offset, count) ==
    /\ Allowed(l, offset, count, WordSize)
    /\ Reach(l, offset, count)
    /\ UNCHANGED <<table, handle>>

Write(l, offset, count) ==
    /\ Allowed(l, offset, count, WordSize)
    /\ Reach(l, offset, count)
    /\ UNCHANGED <<table, handle>>

ErasePage(l, offset) ==
    /\ Allowed(l, offset, PageSize, PageSize)
    /\ Reach(l, offset, PageSize)
    /\ UNCHANGED <<table, handle>>

AccessFails(l, offset, count, unit) ==
    /\ handle[l] # None
    /\ ~Allowed(l, offset, count, unit)
    /\ reached' = NoAccess
    /\ UNCHANGED <<table, handle>>

Next ==
    \E l \in Labels :
        \/ \E way \in Ways : Open(l, way) \/ OpenFails(l, way)
        \/ \E offset \in Offsets :
               \/ ErasePage(l, offset) \/ AccessFails(l, offset, PageSize, PageSize)
               \/ \E count \in Counts :
                      \/ Read(l, offset, count) \/ Write(l, offset, count)
                      \/ AccessFails(l, offset, count, WordSize)

Spec == Init /\ [][Next]_vars

-----------------------------------------------------------------------------
(* Properties. *)

TypeOK ==
    /\ table \in Tables
    /\ handle \in [Labels -> Handles \cup {None}]
    /\ reached \in [label : Labels \cup {None}, addresses : SUBSET Addresses]

\* The addresses the table gives a label before its end.
Extent(l) ==
    {a \in Addresses : \E i \in DOMAIN table :
        /\ \A j \in 1 .. i : table[j].mark = "entry"
        /\ table[i].label = l
        /\ table[i].offset <= a /\ a < table[i].offset + table[i].len}

\* "Offsets are partition-relative and bounds-checked before they reach the
\* flash": whatever is asked for, and whatever the table says, an access
\* reaches nothing outside the partition it was made through.
StaysInside == reached.label # None => reached.addresses \subseteq Extent(reached.label)
=============================================================================
