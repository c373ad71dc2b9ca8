------------------------------- MODULE SealedKv -------------------------------
(***************************************************************************)
(* A store that seals what it keeps: put, get, remove, is_sealed and the   *)
(* pass that seals old clear values where they lie.  The store underneath  *)
(* may lose a value it replaces: Track B documents so for a power cut in   *)
(* the replace, and Track A removes a string before it sets the blob, so   *)
(* that a put that is cut or fails there leaves neither.                   *)
(*                                                                         *)
(* A stored value is clear, or sealed under a cipher and bound to the key  *)
(* name it was put under; opening is exact (AES-GCM: another cipher or     *)
(* name is an error).  A value's first bytes matter only in whether they   *)
(* are MAGIC.                                                              *)
(***************************************************************************)
EXTENDS Integers, Sequences

CONSTANTS
    Names,          \* the store's keys
    Values,         \* records [id, len, magic]
    Blocks,         \* eFuse key blocks, of this chip and others: [purpose, key]
    Lists,          \* bound: the keys seal_in_place is asked to seal
    MaxValue,       \* 256
    Overhead,       \* 32
    Absent,         \* no value, no cipher
    Faults          \* the generator or the store may fail

\* seal_key: the chip's HMAC of a label under the block's key, or no key
\* where the block was not burned for that.
SealKey(b) == IF b.purpose = "HMAC_UP" THEN b.key ELSE Absent

Ciphers == {SealKey(b) : b \in Blocks} \ {Absent}

ASSUME ConstantsAssumption ==
    /\ \A v \in Values : v.len \in Nat /\ v.magic \in BOOLEAN
    /\ Absent \notin Values
    /\ Lists \subseteq Seq(Names)
    /\ MaxValue \in Nat /\ Overhead \in Nat
    /\ Faults \in BOOLEAN

Clear(v) == [form |-> "clear", value |-> v]
Sealed(n, c, v) == [form |-> "sealed", value |-> v, name |-> n, under |-> c]
Raws == {Clear(v) : v \in Values} \cup {Sealed(n, c, v) : n \in Names, c \in Ciphers, v \in Values}

ASSUME AbsentAssumption == Absent \notin Raws

VARIABLES
    inner,    \* the store underneath
    cipher,   \* the sealing key this boot was built with, or Absent
    pc,       \* "off", "idle", "sealing"
    todo,     \* the keys seal_in_place has still to look at
    result,   \* what the last seal_in_place returned
    asked,    \* history: the keys it was asked to seal
    written   \* history: the value last written under each key

vars == <<inner, cipher, pc, todo, result, asked, written>>

-----------------------------------------------------------------------------
RawLen(raw) == raw.value.len + IF raw.form = "sealed" THEN Overhead ELSE 0

\* Too long for the buffer every read goes through.
TooLong(raw) == RawLen(raw) > MaxValue + Overhead

StartsWithMagic(raw) == raw.form = "sealed" \/ raw.value.magic

\* (variant: a value too long to be one of ours taken for one)
IsSealedTooLong(raw) == TooLong(raw) \/ StartsWithMagic(raw)

\* is_sealed: Absent, or whether it starts with MAGIC.
IsSealed(raw) == ~TooLong(raw) /\ StartsWithMagic(raw)

\* (variant: the name not bound)
OpensAnyName(raw, n, c) == raw.form = "sealed" /\ c = raw.under

\* AES-GCM under this cipher with the key's name as additional data.
Opens(raw, n, c) == raw.form = "sealed" /\ c = raw.under /\ n = raw.name

Found(v) == [status |-> "found", value |-> v]
Missing == [status |-> "missing"]
Failed == [status |-> "error"]

\* get, into a buffer large enough.
Get(n) ==
    LET raw == inner[n]
    IN  IF raw = Absent THEN Missing
        ELSE IF ~IsSealed(raw) THEN Found(raw.value)
        ELSE IF Opens(raw, n, cipher) THEN Found(raw.value)
        ELSE Failed

\* What put leaves in the store underneath.
Stored(n, v) == IF cipher = Absent THEN Clear(v) ELSE Sealed(n, cipher, v)

\* put refuses a value too long to seal.
Storable(v) == cipher = Absent \/ v.len <= MaxValue

-----------------------------------------------------------------------------
Init ==
    /\ inner = [n \in Names |-> Absent]
    /\ cipher = Absent /\ pc = "off" /\ todo = <<>>
    /\ result = "none" /\ asked = <<>> /\ written = [n \in Names |-> Absent]

\* A boot builds the store with the key of an eFuse block.
Boot(b) ==
    /\ pc = "off" /\ pc' = "idle"
    /\ cipher' = SealKey(b) /\ result' = "none"
    /\ UNCHANGED <<inner, todo, asked, written>>

Put(n, v) ==
    /\ pc = "idle" /\ Storable(v)
    /\ inner' = [inner EXCEPT ![n] = Stored(n, v)]
    /\ written' = [written EXCEPT ![n] = v]
    /\ result' = "none"
    /\ UNCHANGED <<cipher, pc, todo, asked>>

\* A replace that did not come to its end: the old value may be gone.
Gone(n) == inner' = [inner EXCEPT ![n] = Absent]

\* The generator or the store underneath fails.
PutFails(n, v) ==
    /\ Faults /\ pc = "idle" /\ Storable(v)
    /\ UNCHANGED inner \/ Gone(n)
    /\ result' = "none"
    /\ UNCHANGED <<cipher, pc, todo, asked, written>>

Remove(n) ==
    /\ pc = "idle"
    /\ inner' = [inner EXCEPT ![n] = Absent]
    /\ written' = [written EXCEPT ![n] = Absent]
    /\ result' = "none"
    /\ UNCHANGED <<cipher, pc, todo, asked>>

\* seal_in_place over these keys, in this order; without a cipher it
\* returns at once.
SealInPlace(names) ==
    /\ pc = "idle"
    /\ IF cipher = Absent
       THEN result' = "nothing" /\ UNCHANGED <<pc, todo>>
       ELSE pc' = "sealing" /\ todo' = names /\ result' = "none"
    /\ asked' = names
    /\ UNCHANGED <<inner, cipher, written>>

NeedsSealing(n) == inner[n] # Absent /\ ~IsSealed(inner[n])

\* The pass is at a value it reads whole and puts back sealed.
PutsBack ==
    /\ pc = "sealing" /\ todo # <<>>
    /\ NeedsSealing(Head(todo)) /\ inner[Head(todo)].value.len <= MaxValue

SealSkips ==
    /\ pc = "sealing" /\ todo # <<>>
    /\ ~NeedsSealing(Head(todo))
    /\ todo' = Tail(todo)
    /\ UNCHANGED <<inner, cipher, pc, result, asked, written>>

\* (variant: sealed under the name of the next key in the list)
SealOneMisnamed ==
    /\ PutsBack
    /\ inner' = [inner EXCEPT ![Head(todo)] = Stored(todo[Len(todo)], @.value)]
    /\ todo' = Tail(todo)
    /\ UNCHANGED <<cipher, pc, result, asked, written>>

SealOne ==
    /\ PutsBack
    /\ inner' = [inner EXCEPT ![Head(todo)] = Stored(Head(todo), @.value)]
    /\ todo' = Tail(todo)
    /\ UNCHANGED <<cipher, pc, result, asked, written>>

SealReturns(r) ==
    pc' = "idle" /\ todo' = <<>> /\ result' = r /\ UNCHANGED <<cipher, asked, written>>

\* A clear value longer than the plaintext buffer ends the pass.
SealAborts ==
    /\ pc = "sealing" /\ todo # <<>>
    /\ NeedsSealing(Head(todo)) /\ inner[Head(todo)].value.len > MaxValue
    /\ SealReturns("error") /\ UNCHANGED inner

\* (variant: a failing put does not end the pass)
SealFailsUnseen ==
    /\ Faults /\ PutsBack /\ Gone(Head(todo))
    /\ todo' = Tail(todo)
    /\ UNCHANGED <<cipher, pc, result, asked, written>>

\* So does a failing read or generator, and a failing put.
SealFails ==
    /\ Faults /\ pc = "sealing" /\ todo # <<>>
    /\ UNCHANGED inner \/ (PutsBack /\ Gone(Head(todo)))
    /\ SealReturns("error")

SealDone == pc = "sealing" /\ todo = <<>> /\ SealReturns("sealed") /\ UNCHANGED inner

-----------------------------------------------------------------------------
(* The power, and what writes the flash while the device is off. *)

PowerGone ==
    pc' = "off" /\ todo' = <<>> /\ result' = "none" /\ UNCHANGED <<cipher, asked, written>>

PowerCut == pc # "off" /\ PowerGone /\ UNCHANGED inner

\* The power fails inside a put over a stored value: both are gone.
CutInReplace(n) ==
    /\ inner[n] # Absent
    /\ pc = "idle" \/ (PutsBack /\ Head(todo) = n)
    /\ Gone(n)
    /\ PowerGone

\* A computer provisions the board in the clear.
Provision(n, v) ==
    /\ pc = "off"
    /\ inner' = [inner EXCEPT ![n] = Clear(v)]
    /\ written' = [written EXCEPT ![n] = v]
    /\ UNCHANGED <<cipher, pc, todo, result, asked>>

\* A key's own sealed value turns up under another name as well.
Misplace(from, to) ==
    /\ pc = "off" /\ inner[from] # Absent
    /\ inner[from].form = "sealed" /\ inner[from].name = from
    /\ inner' = [inner EXCEPT ![to] = inner[from]]
    /\ UNCHANGED <<cipher, pc, todo, result, asked, written>>

-----------------------------------------------------------------------------
Next ==
    \/ \E b \in Blocks : Boot(b)
    \/ \E n \in Names, v \in Values : Put(n, v) \/ PutFails(n, v) \/ Provision(n, v)
    \/ \E n \in Names : Remove(n) \/ CutInReplace(n)
    \/ \E names \in Lists : SealInPlace(names)
    \/ SealSkips \/ SealOne \/ SealAborts \/ SealFails \/ SealDone
    \/ PowerCut
    \/ \E from, to \in Names : Misplace(from, to)

Spec == Init /\ [][Next]_vars

-----------------------------------------------------------------------------
(* Properties. *)

TypeOK ==
    /\ inner \in [Names -> Raws \cup {Absent}]
    /\ cipher \in Ciphers \cup {Absent}
    /\ pc \in {"off", "idle", "sealing"}
    /\ todo \in Seq(Names)
    /\ result \in {"none", "nothing", "sealed", "error"}
    /\ asked \in Seq(Names)
    /\ written \in [Names -> Values \cup {Absent}]

\* "say so, never guess": get finds the value last written under that very
\* name, or none, or an error - never another value, whichever chip's key the
\* board was booted with and whatever was cut short or misplaced.
NeverAnotherValue ==
    \A n \in Names : pc # "off" /\ Get(n).status = "found" => Get(n).value = written[n]

\* Sealing where it lies changes no value a reader finds, of the keys it was
\* given and of the others, and loses none but the clear value it is putting
\* back: that one may be gone when its put is cut or fails, and then the pass
\* ends there without a count.
SealingLosesNothing ==
    [][pc = "sealing" => \A n \in Names :
           Get(n).status = "found" =>
               \/ Get(n)' = Get(n)
               \/ /\ todo # <<>> /\ Head(todo) = n /\ inner[n].form = "clear"
                  /\ Get(n)' = Missing
                  /\ pc' = "off" \/ result' = "error"]_vars

\* A pass that returns its count left none of the keys it was given in the
\* clear, a key named twice or absent included - as long as no value written
\* in the clear begins with MAGIC, which the module's doc takes for granted.
SealedMeansSealed ==
    result = "sealed" => \A i \in DOMAIN asked :
        LET raw == inner[asked[i]]
        IN  raw = Absent \/ raw.form = "sealed" \/ raw.value.magic
=============================================================================
