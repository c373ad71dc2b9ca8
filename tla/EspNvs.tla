--------------------------------- MODULE EspNvs ---------------------------------
(***************************************************************************)
(* EspNvsKv, the store of Track A: ESP-IDF's typed NVS behind the Kv seam. *)
(* A key holds a blob or a string; the device writes blobs, the owner's    *)
(* computer strings as well.  A put first removes a string under its key,  *)
(* so that neither type is left behind the other.                          *)
(*                                                                         *)
(* NVS itself is external: an entry is found by key and type, erased by    *)
(* key, and a blob is replaced at once or not at all.                      *)
(***************************************************************************)
EXTENDS Integers, Sequences

CONSTANTS
    Keys,     \* the keys check_key takes
    Values,   \* the byte strings put, written by a computer or left by wear
    None, TooSmall,
    NUL,      \* the byte that ends a string in NVS
    Room,     \* a reader's buffer that takes any of them
    Builds    \* firmware builds: [nvs_encryption, flash_encryption, allow_insecure_dev]

VARIABLES
    nvs,    \* per key, the blob and the string under it
    call,   \* the put under way, or None
    power   \* "off", "denied": the store was refused, "on"

nvs_vars == <<nvs, call, power>>

AsString(v) == Append(v, NUL)
Entries == [blob : Values \cup {None}, str : {AsString(v) : v \in Values} \cup {None}]
Nothing == [blob |-> None, str |-> None]

ASSUME ValuesAssumption ==
    /\ Room \in Nat
    /\ \A v \in Values : Len(v) \in 0 .. Room /\ AsString(v) # None
                         /\ Len(AsString(v)) = Len(v) + 1
                         /\ SubSeq(AsString(v), 1, Len(v)) = v
    /\ None \notin Values /\ TooSmall \notin Values \cup {None}

Calls == [key : Keys, value : Values, next : {"remove", "set"}]
ASSUME CallsAssumption == None \notin Calls /\ None \notin Keys \X Values

-----------------------------------------------------------------------------
\* get_str_value: without its NUL, counted in its length.
GetStr(k, room) ==
    LET len == Len(nvs[k].str) - 1
    IN  IF nvs[k].str = None THEN None
        ELSE IF room < len THEN TooSmall ELSE SubSeq(nvs[k].str, 1, len)

Get(k, room) ==
    IF nvs[k].blob = None THEN GetStr(k, room)
    ELSE IF room < Len(nvs[k].blob) THEN TooSmall ELSE nvs[k].blob

\* What erasing a key leaves: the entry found first goes.
Erased(e) ==
    IF e.blob # None /\ e.str # None THEN {[e EXCEPT !.blob = None], [e EXCEPT !.str = None]}
    ELSE {Nothing}

\* protection and refuse_plaintext.
Encrypted(b) == b.nvs_encryption /\ b.flash_encryption
Refuses(b) == ~Encrypted(b) /\ ~b.allow_insecure_dev

-----------------------------------------------------------------------------
\* open_in and open_custom check, their _unchecked forms do not.
Open(b, checked) ==
    /\ power = "off"
    /\ power' = IF checked /\ Refuses(b) THEN "denied" ELSE "on"
    /\ UNCHANGED <<nvs, call>>

\* (variant: the string stays)
PutKeeping(k, v) ==
    /\ power = "on" /\ call = None
    /\ call' = [key |-> k, value |-> v, next |-> "set"]
    /\ UNCHANGED <<nvs, power>>

Put(k, v) ==
    /\ power = "on" /\ call = None
    /\ call' = [key |-> k, value |-> v, next |-> IF nvs[k].str # None THEN "remove" ELSE "set"]
    /\ UNCHANGED <<nvs, power>>

PutRemoves ==
    /\ call # None /\ call.next = "remove"
    /\ \E e \in Erased(nvs[call.key]) : nvs' = [nvs EXCEPT ![call.key] = e]
    /\ call' = [call EXCEPT !.next = "set"]
    /\ UNCHANGED power

PutSets ==
    /\ call # None /\ call.next = "set"
    /\ nvs' = [nvs EXCEPT ![call.key].blob = call.value]
    /\ call' = None
    /\ UNCHANGED power

\* str_len, remove or set_blob fails (an error of the flash, no space left).
PutFails == call # None /\ call' = None /\ UNCHANGED <<nvs, power>>

Remove(k) ==
    /\ power = "on" /\ call = None
    /\ \E e \in Erased(nvs[k]) : nvs' = [nvs EXCEPT ![k] = e]
    /\ UNCHANGED <<call, power>>

Cut == power # "off" /\ power' = "off" /\ call' = None /\ UNCHANGED nvs

-----------------------------------------------------------------------------
\* The contract this store keeps, and the state it promises about.
Contract == INSTANCE KvContract WITH
    kv <- [k \in Keys |-> Get(k, Room)],
    own <- {k \in Keys : nvs[k].blob # None},
    putting <- IF call = None THEN None ELSE <<call.key, call.value>>,
    powered <- power = "on"
=============================================================================
