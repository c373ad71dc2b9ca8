--------------------------- MODULE MCPartitionFlash ---------------------------
(* Five-bit words, a chip of sixteen addresses, pages of four, words of     *)
(* two.  The partitions lie at the chip's end and past it, end at the last  *)
(* u32 or past it, are out of line with the pages, have no length, overlap, *)
(* or come behind the end of the table.                                     *)
EXTENDS PartitionFlash

CONSTANTS identity, nvs

MCLabels == {identity, nvs}

Entry(label, offset, len) == [mark |-> "entry", label |-> label, offset |-> offset, len |-> len]
End == [mark |-> "end", label |-> nvs, offset |-> 0, len |-> 0]
Other == [mark |-> "other", label |-> nvs, offset |-> 0, len |-> 0]

MCTables == {
    <<Entry(nvs, 0, 4), Entry(identity, 4, 8), End>>,
    <<Entry(nvs, 8, 4), Entry(identity, 12, 8)>>,   \* past the chip
    <<Entry(nvs, 0, 4), Entry(identity, 8, 24)>>,   \* to the last u32: refused
    <<Entry(nvs, 0, 4), Entry(identity, 8, 28)>>,   \* wraps
    <<Entry(nvs, 0, 8), Entry(identity, 4, 8), End>>,   \* overlapping
    <<Entry(nvs, 2, 4), Entry(identity, 4, 6)>>,    \* out of line
    <<Entry(nvs, 4, 0), Entry(identity, 4, 4), Entry(identity, 8, 4)>>,
    <<Entry(nvs, 0, 4), End, Entry(identity, 4, 4)>>,
    <<Entry(nvs, 0, 4), Other, Entry(identity, 4, 4)>>}

MCOffsets == {0, 2, 3, 4, 8, 12, 24, 31}
MCCounts == {0, 1, 2, 4, 8, 12, 31, 32, 36}
=============================================================================
