---------------------------- MODULE SealedKv_proofs ----------------------------
(* Proofs about the sealed store, for all keys, values, blocks, lengths and *)
(* lists, with or without faults.                                           *)
EXTENDS SealedKv, TLAPS

\* What lies under a key, unless it was misplaced there, is the value last
\* written; what is sealed was short enough to be.
Honest(n) ==
    inner[n] # Absent =>
        /\ inner[n].form = "clear" \/ inner[n].name = n => inner[n].value = written[n]
        /\ inner[n].form = "sealed" => inner[n].value.len <= MaxValue

\* Nothing is left to seal under this key.
Done(n) == inner[n] = Absent \/ inner[n].form = "sealed" \/ inner[n].value.magic

\* A pass has a cipher; each key asked for is still to come or is done.
Pass ==
    pc = "sealing" =>
        /\ cipher # Absent
        /\ \A i \in DOMAIN asked : Done(asked[i]) \/ \E j \in DOMAIN todo : todo[j] = asked[i]

Report == pc # "idle" => result = "none"

IInv ==
    /\ TypeOK
    /\ \A n \in Names : Honest(n)
    /\ Pass
    /\ Report
    /\ SealedMeansSealed

-----------------------------------------------------------------------------
(* The values in the store. *)

LEMMA ClearRaw ==
    ASSUME NEW v \in Values
    PROVE  /\ Clear(v) \in Raws /\ Clear(v) # Absent
           /\ Clear(v).form = "clear" /\ Clear(v).value = v
    BY AbsentAssumption DEF Clear, Raws

LEMMA SealedRaw ==
    ASSUME NEW n \in Names, NEW c \in Ciphers, NEW v \in Values
    PROVE  /\ Sealed(n, c, v) \in Raws /\ Sealed(n, c, v) # Absent
           /\ Sealed(n, c, v).form = "sealed" /\ Sealed(n, c, v).value = v
           /\ Sealed(n, c, v).name = n /\ Sealed(n, c, v).under = c
    BY AbsentAssumption DEF Sealed, Raws

\* A stored value is a clear or a sealed one, of a value with a length.
LEMMA RawIs ==
    ASSUME NEW r \in Raws
    PROVE  /\ r # Absent /\ r.value \in Values
           /\ r.value.len \in Nat /\ r.value.magic \in BOOLEAN
           /\ \/ r.form = "clear"
              \/ r.form = "sealed" /\ r.name \in Names /\ r.under \in Ciphers
    <1>1. PICK v \in Values : \/ r = Clear(v)
                              \/ \E n \in Names, c \in Ciphers : r = Sealed(n, c, v)
        BY DEF Raws
    <1>2. /\ r.value = v
          /\ \/ r.form = "clear"
             \/ r.form = "sealed" /\ r.name \in Names /\ r.under \in Ciphers
        BY <1>1, ClearRaw, SealedRaw
    <1>3. v.len \in Nat /\ v.magic \in BOOLEAN
        BY ConstantsAssumption
    <1> QED BY <1>2, <1>3, AbsentAssumption

\* What put leaves under a key: the value, sealed where there is a cipher.
LEMMA StoredIs ==
    ASSUME NEW n \in Names, NEW v \in Values, cipher \in Ciphers \cup {Absent}
    PROVE  /\ Stored(n, v) \in Raws /\ Stored(n, v).value = v
           /\ cipher = Absent => Stored(n, v).form = "clear"
           /\ cipher # Absent => /\ Stored(n, v).form = "sealed"
                                 /\ Stored(n, v).name = n /\ Stored(n, v).under = cipher
    <1>1. CASE cipher = Absent
        BY <1>1, ClearRaw DEF Stored
    <1>2. CASE cipher # Absent
        <2>1. cipher \in Ciphers
            BY <1>2
        <2> QED BY <1>2, <2>1, SealedRaw DEF Stored
    <1> QED BY <1>1, <1>2

\* A sealed value that was sealable is recognised.
LEMMA SealedIsSealed ==
    ASSUME NEW r \in Raws, r.form = "sealed", r.value.len <= MaxValue
    PROVE  IsSealed(r)
    BY RawIs, ConstantsAssumption DEF IsSealed, TooLong, RawLen, StartsWithMagic

LEMMA KeyOfABlock ==
    ASSUME NEW b \in Blocks
    PROVE  SealKey(b) \in Ciphers \cup {Absent}
    BY DEF Ciphers

-----------------------------------------------------------------------------
(* What a write and a pass do to the invariant. *)

\* A key whose value did not change is as honest and as done as before.
LEMMA SameValue ==
    ASSUME NEW n, inner'[n] = inner[n]
    PROVE  /\ Done(n)' <=> Done(n)
           /\ written'[n] = written[n] /\ Honest(n) => Honest(n)'
    BY DEF Done, Honest

\* One key lost: none of the others changes.
LEMMA GoneHonest ==
    ASSUME TypeOK, \A m \in Names : Honest(m), UNCHANGED written, NEW n \in Names, Gone(n)
    PROVE  inner' \in [Names -> Raws \cup {Absent}] /\ \A m \in Names : Honest(m)'
    <1>1. inner'[n] = Absent /\ inner' \in [Names -> Raws \cup {Absent}]
        BY DEF Gone, TypeOK
    <1>2. ASSUME NEW m \in Names, m # n PROVE Honest(m)'
        BY <1>2, SameValue DEF Gone, TypeOK
    <1> QED BY <1>1, <1>2 DEF Honest

\* One key put: it is honest, and sealed where there is a cipher.
LEMMA PutHonest ==
    ASSUME TypeOK, NEW n \in Names, NEW v \in Values, Storable(v), \A m \in Names : Honest(m),
           inner' = [inner EXCEPT ![n] = Stored(n, v)],
           written' = [written EXCEPT ![n] = v]
    PROVE  /\ inner' \in [Names -> Raws \cup {Absent}]
           /\ \A m \in Names : Honest(m)'
           /\ cipher # Absent => Done(n)'
    <1> USE DEF TypeOK
    <1>1. /\ Stored(n, v) \in Raws /\ Stored(n, v).value = v
          /\ cipher # Absent => Stored(n, v).form = "sealed"
          /\ cipher = Absent => Stored(n, v).form = "clear"
        BY StoredIs
    <1>2. Stored(n, v).form = "sealed" => v.len <= MaxValue
        BY <1>1 DEF Storable
    <1>3. inner'[n] = Stored(n, v) /\ written'[n] = v
        OBVIOUS
    <1>4. Honest(n)'
        BY <1>1, <1>2, <1>3 DEF Honest
    <1>5. ASSUME NEW m \in Names, m # n PROVE Honest(m)'
        <2>1. inner'[m] = inner[m] /\ written'[m] = written[m]
            BY <1>5
        <2> QED BY <2>1, SameValue
    <1>6. cipher # Absent => Done(n)'
        BY <1>1, <1>3 DEF Done
    <1> QED BY <1>1, <1>4, <1>5, <1>6

\* A key the pass seals holds a clear value, the one last written.
LEMMA ClearIsWritten ==
    ASSUME IInv, NEW n \in Names, NeedsSealing(n)
    PROVE  inner[n] \in Raws /\ inner[n].form = "clear" /\ inner[n].value = written[n]
    <1>1. inner[n] \in Raws
        BY DEF IInv, TypeOK, NeedsSealing
    <1>2. inner[n].form # "sealed"
        BY <1>1, SealedIsSealed DEF IInv, Honest, NeedsSealing
    <1> QED BY <1>1, <1>2, RawIs DEF IInv, Honest, NeedsSealing

\* The pass goes on to the next key when this one is done.
LEMMA PassGoesOn ==
    ASSUME TypeOK, Pass, pc = "sealing", todo # <<>>, todo' = Tail(todo),
           UNCHANGED <<cipher, pc, asked>>,
           NEW k, k = Head(todo), Done(k)',
           \A n \in Names : n # k => (Done(n)' <=> Done(n))
    PROVE  Pass' /\ todo' \in Seq(Names)
    <1> USE DEF TypeOK
    <1>1. todo' \in Seq(Names)
        OBVIOUS
    <1>2. ASSUME NEW i \in DOMAIN asked, NEW x \in Names, x = asked[i], ~Done(x)'
          PROVE  \E j \in DOMAIN todo' : todo'[j] = x
        <2>1. x # k
            BY <1>2
        <2>2. ~Done(x)
            BY <1>2, <2>1
        <2>3. PICK j \in DOMAIN todo : todo[j] = x
            BY <1>2, <2>2 DEF Pass
        <2>4. j \in 2 .. Len(todo)
            BY <2>1, <2>3
        <2>5. j - 1 \in DOMAIN todo' /\ todo'[j - 1] = todo[j]
            BY <2>4
        <2> QED BY <2>3, <2>5
    <1>3. \A i \in DOMAIN asked : asked[i] \in Names
        OBVIOUS
    <1> QED BY <1>1, <1>2, <1>3 DEF Pass

-----------------------------------------------------------------------------
LEMMA IInvInit == Init => IInv
    BY DEF Init, IInv, TypeOK, Honest, Pass, Report, SealedMeansSealed

LEMMA IInvNext == IInv /\ [Next]_vars => IInv'
    <1> SUFFICES ASSUME IInv, [Next]_vars PROVE IInv'
        OBVIOUS
    <1>t. TypeOK /\ (\A n \in Names : Honest(n)) /\ Pass /\ Report /\ SealedMeansSealed
        BY DEF IInv
    <1>same. ASSUME UNCHANGED inner
             PROVE  \A n \in Names : /\ Done(n)' <=> Done(n)
                                     /\ written' = written => Honest(n)'
        BY <1>same, <1>t, SameValue
    <1>stays. ASSUME UNCHANGED <<inner, written>> PROVE \A n \in Names : Honest(n)'
        BY <1>stays, <1>same
    <1>done. ASSUME UNCHANGED <<inner, asked>>
             PROVE  \A i \in DOMAIN asked : Done(asked[i])' <=> Done(asked[i])
        BY <1>done DEF Done
    <1>1. ASSUME NEW b \in Blocks, Boot(b) PROVE IInv'
        <2>1. TypeOK'
            BY <1>1, <1>t, KeyOfABlock DEF Boot, TypeOK
        <2>2. Pass' /\ Report' /\ SealedMeansSealed'
            BY <1>1 DEF Boot, Pass, Report, SealedMeansSealed
        <2> QED BY <1>1, <1>stays, <2>1, <2>2 DEF Boot, IInv
    <1>2. ASSUME NEW n \in Names, NEW v \in Values, Put(n, v) PROVE IInv'
        <2>1. inner' \in [Names -> Raws \cup {Absent}] /\ \A m \in Names : Honest(m)'
            BY <1>2, <1>t, PutHonest DEF Put
        <2>2. TypeOK'
            BY <1>2, <1>t, <2>1 DEF Put, TypeOK
        <2>3. Pass' /\ Report' /\ SealedMeansSealed'
            BY <1>2 DEF Put, Pass, Report, SealedMeansSealed
        <2> QED BY <2>1, <2>2, <2>3 DEF IInv
    <1>3. ASSUME NEW n \in Names, NEW v \in Values, Provision(n, v) PROVE IInv'
        <2>1. Clear(v) \in Raws /\ Clear(v).form = "clear" /\ Clear(v).value = v
            BY ClearRaw
        <2>2. TypeOK'
            BY <1>3, <1>t, <2>1 DEF Provision, TypeOK
        <2>3. inner'[n] = Clear(v) /\ written'[n] = v
            BY <1>3, <1>t DEF Provision, TypeOK
        <2>4. ASSUME NEW m \in Names, m # n PROVE Honest(m)'
            BY <1>3, <1>t, <2>4, SameValue DEF Provision, TypeOK
        <2>5. Honest(n)'
            BY <2>1, <2>3 DEF Honest
        <2>6. Pass' /\ Report' /\ SealedMeansSealed'
            BY <1>3, <1>t DEF Provision, Pass, Report, SealedMeansSealed
        <2> QED BY <2>2, <2>4, <2>5, <2>6 DEF IInv
    <1>4. ASSUME NEW n \in Names, Remove(n) PROVE IInv'
        <2>1. TypeOK'
            BY <1>4, <1>t DEF Remove, TypeOK
        <2>2. ASSUME NEW m \in Names, m # n PROVE Honest(m)'
            BY <1>4, <1>t, <2>2, SameValue DEF Remove, TypeOK
        <2>3. Honest(n)'
            BY <1>4, <1>t DEF Remove, TypeOK, Honest
        <2>4. Pass' /\ Report' /\ SealedMeansSealed'
            BY <1>4 DEF Remove, Pass, Report, SealedMeansSealed
        <2> QED BY <2>1, <2>2, <2>3, <2>4 DEF IInv
    <1>5. ASSUME NEW n \in Names, CutInReplace(n) PROVE IInv'
        <2>1. Gone(n) /\ UNCHANGED written
            BY <1>5 DEF CutInReplace, PowerGone
        <2>2. inner' \in [Names -> Raws \cup {Absent}] /\ \A m \in Names : Honest(m)'
            BY <1>t, <2>1, GoneHonest
        <2>3. TypeOK'
            BY <1>5, <1>t, <2>2 DEF CutInReplace, PowerGone, TypeOK
        <2>4. Pass' /\ Report' /\ SealedMeansSealed'
            BY <1>5 DEF CutInReplace, PowerGone, Pass, Report, SealedMeansSealed
        <2> QED BY <2>2, <2>3, <2>4 DEF IInv
    <1>6. ASSUME NEW names \in Lists, SealInPlace(names) PROVE IInv'
        <2>1. names \in Seq(Names)
            BY ConstantsAssumption
        <2>2. TypeOK'
            BY <1>6, <1>t, <2>1 DEF SealInPlace, TypeOK
        <2>3. Pass' /\ Report' /\ SealedMeansSealed'
            BY <1>6, <1>t DEF SealInPlace, Pass, Report, SealedMeansSealed
        <2> QED BY <1>6, <1>stays, <2>2, <2>3 DEF SealInPlace, IInv
    <1>7. ASSUME SealSkips PROVE IInv'
        <2>0. PICK k : k = Head(todo) /\ k \in Names
            BY <1>7, <1>t DEF SealSkips, TypeOK
        <2>1. Done(k)
            BY <1>7, <2>0 DEF SealSkips, NeedsSealing, IsSealed, StartsWithMagic, Done
        <2>s. \A n \in Names : Done(n)' <=> Done(n)
            BY <1>7, <1>same DEF SealSkips
        <2>2. Pass' /\ todo' \in Seq(Names)
            BY <1>7, <1>t, <2>0, <2>1, <2>s, PassGoesOn DEF SealSkips
        <2>3. TypeOK'
            BY <1>7, <1>t, <2>2 DEF SealSkips, TypeOK
        <2>4. Report' /\ SealedMeansSealed'
            BY <1>7, <1>t DEF SealSkips, Report, SealedMeansSealed
        <2> QED BY <1>7, <1>stays, <2>2, <2>3, <2>4 DEF SealSkips, IInv
    <1>8. ASSUME SealOne PROVE IInv'
        <2>0. PICK k : k = Head(todo) /\ k \in Names
            BY <1>8, <1>t DEF SealOne, PutsBack, TypeOK
        <2>1. inner[k] \in Raws /\ inner[k].value = written[k] /\ inner[k].value \in Values
            BY <1>8, <2>0, ClearIsWritten, RawIs DEF SealOne, PutsBack
        <2>2. PICK v \in Values : v = inner[k].value
            BY <2>1
        <2>3. /\ inner' = [inner EXCEPT ![k] = Stored(k, v)]
              /\ written' = [written EXCEPT ![k] = v]
              /\ Storable(v)
            BY <1>8, <1>t, <2>0, <2>1, <2>2 DEF SealOne, PutsBack, Storable, TypeOK
        <2>4. cipher # Absent
            BY <1>8, <1>t DEF SealOne, PutsBack, Pass
        <2>5. /\ inner' \in [Names -> Raws \cup {Absent}]
              /\ \A m \in Names : Honest(m)'
              /\ Done(k)'
            BY <1>t, <2>0, <2>3, <2>4, PutHonest
        <2>6. \A n \in Names : n # k => inner'[n] = inner[n]
            BY <1>t, <2>3 DEF TypeOK
        <2>7. Pass' /\ todo' \in Seq(Names)
            BY <1>8, <1>t, <2>0, <2>5, <2>6, SameValue, PassGoesOn DEF SealOne, PutsBack
        <2>8. TypeOK'
            BY <1>8, <1>t, <2>5, <2>7 DEF SealOne, PutsBack, TypeOK
        <2>9. Report' /\ SealedMeansSealed'
            BY <1>8, <1>t DEF SealOne, PutsBack, Report, SealedMeansSealed
        <2> QED BY <2>5, <2>7, <2>8, <2>9 DEF IInv
    <1>9. ASSUME SealAborts \/ SealFails PROVE IInv'
        <2>1. SealReturns("error") /\ UNCHANGED <<cipher, asked, written>>
            BY <1>9 DEF SealAborts, SealFails, SealReturns
        <2>2. inner' \in [Names -> Raws \cup {Absent}] /\ \A m \in Names : Honest(m)'
            <3>1. CASE UNCHANGED inner
                BY <1>t, <1>stays, <2>1, <3>1 DEF TypeOK
            <3>2. CASE PutsBack /\ Gone(Head(todo))
                <4>1. Head(todo) \in Names
                    BY <1>t, <3>2 DEF PutsBack, TypeOK
                <4> QED BY <1>t, <2>1, <3>2, <4>1, GoneHonest
            <3> QED BY <1>9, <3>1, <3>2 DEF SealAborts, SealFails
        <2>3. TypeOK'
            BY <1>t, <2>1, <2>2 DEF SealReturns, TypeOK
        <2>4. Pass' /\ Report' /\ SealedMeansSealed'
            BY <2>1 DEF SealReturns, Pass, Report, SealedMeansSealed
        <2> QED BY <2>2, <2>3, <2>4 DEF IInv
    <1>10. ASSUME SealDone PROVE IInv'
        <2> USE DEF SealDone, SealReturns
        <2>1. \A i \in DOMAIN asked : Done(asked[i])
            BY <1>10, <1>t DEF Pass
        <2>2. SealedMeansSealed'
            BY <1>10, <1>done, <2>1 DEF SealedMeansSealed, Done
        <2>3. TypeOK' /\ Pass' /\ Report'
            BY <1>10, <1>t DEF TypeOK, Pass, Report
        <2> QED BY <1>10, <1>stays, <2>2, <2>3 DEF IInv
    <1>11. ASSUME PowerCut PROVE IInv'
        <2>1. TypeOK' /\ Pass' /\ Report' /\ SealedMeansSealed'
            BY <1>11, <1>t DEF PowerCut, PowerGone, TypeOK, Pass, Report, SealedMeansSealed
        <2> QED BY <1>11, <1>stays, <2>1 DEF PowerCut, PowerGone, IInv
    <1>12. ASSUME NEW from \in Names, NEW to \in Names, Misplace(from, to) PROVE IInv'
        <2>1. inner'[to] = inner[from] /\ written' = written
            BY <1>12, <1>t DEF Misplace, TypeOK
        <2>2. ASSUME NEW m \in Names, m # to PROVE Honest(m)'
            BY <1>12, <1>t, <2>2, SameValue DEF Misplace, TypeOK
        <2>3. Honest(to)'
            BY <1>12, <1>t, <2>1 DEF Misplace, Honest
        <2>4. TypeOK' /\ Pass' /\ Report' /\ SealedMeansSealed'
            BY <1>12, <1>t DEF Misplace, TypeOK, Pass, Report, SealedMeansSealed
        <2> QED BY <2>2, <2>3, <2>4 DEF IInv
    <1>13. ASSUME UNCHANGED vars PROVE IInv'
        <2>1. TypeOK' /\ Pass' /\ Report' /\ SealedMeansSealed'
            BY <1>13, <1>t DEF vars, TypeOK, Pass, Report, SealedMeansSealed, Done
        <2> QED BY <1>13, <1>stays, <2>1 DEF vars, IInv
    <1>14. ASSUME NEW n \in Names, NEW v \in Values, PutFails(n, v) PROVE IInv'
        <2>1. inner' \in [Names -> Raws \cup {Absent}] /\ \A m \in Names : Honest(m)'
            <3>1. CASE UNCHANGED inner
                BY <1>14, <1>t, <1>stays, <3>1 DEF PutFails, TypeOK
            <3>2. CASE Gone(n)
                BY <1>14, <1>t, <3>2, GoneHonest DEF PutFails
            <3> QED BY <1>14, <3>1, <3>2 DEF PutFails
        <2>2. TypeOK'
            BY <1>14, <1>t, <2>1 DEF PutFails, TypeOK
        <2>3. Pass' /\ Report' /\ SealedMeansSealed'
            BY <1>14 DEF PutFails, Pass, Report, SealedMeansSealed
        <2> QED BY <2>1, <2>2, <2>3 DEF IInv
    <1> QED BY <1>1, <1>2, <1>3, <1>4, <1>5, <1>6, <1>7, <1>8, <1>9, <1>10, <1>11, <1>12, <1>13, <1>14
            DEF Next

LEMMA Invariant == Spec => []IInv
    BY IInvInit, IInvNext, PTL DEF Spec

-----------------------------------------------------------------------------
\* What a read finds: a clear value, or a sealed one of this name and cipher.
LEMMA GetFinds ==
    ASSUME NEW n
    PROVE  Get(n).status = "found" =>
               /\ inner[n] # Absent
               /\ Get(n) = Found(inner[n].value)
               /\ IsSealed(inner[n]) => Opens(inner[n], n, cipher)
    BY DEF Get, Found, Missing, Failed

\* Two states with the same value and cipher read alike.
LEMMA SameRead ==
    ASSUME NEW n, inner'[n] = inner[n], cipher' = cipher
    PROVE  Get(n)' = Get(n)
    BY DEF Get, IsSealed, TooLong, RawLen, StartsWithMagic, Opens, Found, Missing, Failed

\* The variables of the sealed store have their types, for all keys, values,
\* blocks and lists of keys (the state of SealedKv and of seal_in_place).
THEOREM TypeCorrect == Spec => []TypeOK
    BY Invariant, PTL DEF IInv

\* SealedKv::get finds the value last put under that name, or none, or an
\* error: through any boots with any chip's key, cuts, failures, clear writes
\* and sealed values moved to other names.
THEOREM ReadsWhatWasWritten == Spec => []NeverAnotherValue
    <1>1. IInv => NeverAnotherValue
        <2> SUFFICES ASSUME IInv, NEW n \in Names, Get(n).status = "found"
                     PROVE  Get(n).value = written[n]
            BY DEF NeverAnotherValue
        <2>1. inner[n] # Absent /\ Get(n).value = inner[n].value
              /\ (IsSealed(inner[n]) => Opens(inner[n], n, cipher))
            BY GetFinds DEF Found
        <2>2. inner[n] \in Raws /\ Honest(n)
            BY <2>1 DEF IInv, TypeOK
        <2>3. inner[n].form = "clear" \/ inner[n].name = n
            BY <2>1, <2>2, RawIs, SealedIsSealed DEF Honest, Opens
        <2> QED BY <2>1, <2>2, <2>3 DEF Honest
    <1> QED BY <1>1, Invariant, PTL

\* seal_in_place returns a count only when each of the keys it was given is
\* absent or sealed, in whatever order and however often they were named, but
\* for values written in the clear that begin with MAGIC.
THEOREM SealedIsSaidTruly == Spec => []SealedMeansSealed
    BY Invariant, PTL DEF IInv

\* seal_in_place changes no value a reader finds, and loses none but the one
\* whose put was cut or failed, which ends the pass without a count.
THEOREM SealingKeepsValues == Spec => SealingLosesNothing
    <1>1. IInv /\ [Next]_vars =>
              [pc = "sealing" => \A n \in Names :
                   Get(n).status = "found" =>
                       \/ Get(n)' = Get(n)
                       \/ /\ todo # <<>> /\ Head(todo) = n /\ inner[n].form = "clear"
                          /\ Get(n)' = Missing
                          /\ pc' = "off" \/ result' = "error"]_vars
        <2> DEFINE Lost(n) == /\ todo # <<>> /\ Head(todo) = n /\ inner[n].form = "clear"
                              /\ Get(n)' = Missing
                              /\ pc' = "off" \/ result' = "error"
        <2> SUFFICES ASSUME IInv, Next, pc = "sealing", NEW n \in Names,
                            Get(n).status = "found"
                     PROVE  Get(n)' = Get(n) \/ Lost(n)
            OBVIOUS
        <2> HIDE DEF Lost
        <2>1. CASE SealOne
            <3>0. PICK k : k = Head(todo) /\ k \in Names
                BY <2>1 DEF SealOne, PutsBack, IInv, TypeOK
            <3>1. CASE n = k
                <4>1. /\ inner[n] \in Raws /\ inner[n].form = "clear" /\ inner[n].value \in Values
                      /\ inner[n].value.len <= MaxValue /\ NeedsSealing(n)
                    BY <2>1, <3>0, <3>1, ClearIsWritten, RawIs DEF SealOne, PutsBack
                <4>2. Get(n) = Found(inner[n].value)
                    BY GetFinds
                <4>3. PICK v \in Values : v = inner[n].value
                    BY <4>1
                <4>4. inner'[n] = Stored(n, v) /\ cipher' = cipher
                    BY <2>1, <3>0, <3>1, <4>3 DEF SealOne, IInv, TypeOK
                <4>5. cipher \in Ciphers \cup {Absent} /\ cipher # Absent
                    BY DEF IInv, TypeOK, Pass
                <4>6. /\ Stored(n, v) \in Raws /\ Stored(n, v) # Absent
                      /\ Stored(n, v).value = v /\ Stored(n, v).form = "sealed"
                      /\ Opens(Stored(n, v), n, cipher)
                    BY <4>5, StoredIs, RawIs DEF Opens
                <4>7. Get(n)' = Found(v)
                    BY <4>4, <4>6 DEF Get, Opens, Found
                <4> QED BY <4>2, <4>3, <4>7
            <3>2. CASE n # k
                BY <2>1, <3>0, <3>2, SameRead DEF SealOne, IInv, TypeOK
            <3> QED BY <3>1, <3>2
        <2>2. ASSUME PutsBack, Gone(Head(todo)), cipher' = cipher,
                     pc' = "off" \/ result' = "error"
              PROVE  Get(n)' = Get(n) \/ Lost(n)
            <3>1. CASE n = Head(todo)
                <4>1. inner[n].form = "clear"
                    BY <2>2, <3>1, ClearIsWritten DEF PutsBack
                <4>2. inner'[n] = Absent
                    BY <2>2, <3>1 DEF Gone, IInv, TypeOK
                <4>3. Get(n)' = Missing
                    BY <4>2 DEF Get
                <4> QED BY <2>2, <3>1, <4>1, <4>3 DEF PutsBack, Lost
            <3>2. CASE n # Head(todo)
                BY <2>2, <3>2, SameRead DEF Gone, IInv, TypeOK
            <3> QED BY <3>1, <3>2
        <2>3. ASSUME NEW m \in Names, CutInReplace(m) PROVE Get(n)' = Get(n) \/ Lost(n)
            <3>1. PutsBack /\ Head(todo) = m
                BY <2>3 DEF CutInReplace
            <3> QED BY <2>2, <2>3, <3>1 DEF CutInReplace, PowerGone
        <2>4. CASE SealFails
            <3>1. CASE UNCHANGED inner
                BY <2>4, <3>1, SameRead DEF SealFails, SealReturns
            <3>2. CASE PutsBack /\ Gone(Head(todo))
                BY <2>2, <2>4, <3>2 DEF SealFails, SealReturns
            <3> QED BY <2>4, <3>1, <3>2 DEF SealFails
        <2>5. CASE SealSkips \/ SealAborts \/ SealDone \/ PowerCut
            BY <2>5, SameRead DEF SealSkips, SealAborts, SealDone, SealReturns, PowerCut, PowerGone
        <2> QED BY <2>1, <2>3, <2>4, <2>5
                DEF Next, Boot, Put, PutFails, Provision, Remove, SealInPlace, Misplace
    <1> QED BY <1>1, Invariant, PTL DEF Spec, SealingLosesNothing
=============================================================================
