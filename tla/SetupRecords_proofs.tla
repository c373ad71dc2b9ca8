--------------------------- MODULE SetupRecords_proofs ---------------------------
(***************************************************************************)
(* SetupRecords for every image, every code, any limit and any schedule of *)
(* guesses, errors, wear and power cuts.                                   *)
(*                                                                         *)
(* A key never holds both types, and only the name is ever a string: so a  *)
(* put of a record has nothing to remove, and the count on the flash is    *)
(* never behind the guesses answered.                                      *)
(***************************************************************************)
EXTENDS SetupRecords, TLAPS

Counts == {<<n>> : n \in 0 .. Limit}

\* A record is a blob, and no key holds two types.
OneType ==
    /\ \A k \in Keys : nvs[k].blob = None \/ nvs[k].str = None
    /\ nvs[VerifierKey].str = None /\ nvs[FailuresKey].str = None
    /\ nvs[FailuresKey].blob \in {None} \cup Worn \cup Counts

\* The put under way, and what the session waits for.
Calling ==
    /\ call # None =>
        /\ power = "on"
        /\ call.next = "remove" <=> nvs[call.key].str # None
    /\ session.pc # "idle" => power = "on" /\ session.verifier \in Verifiers
    /\ session.pc = "idle" => call = None \/ call.key = NameKey
    /\ session.pc \in {"guess", "done"} => call = None
    /\ session.pc = "wrong" => /\ call # None /\ call.key = FailuresKey
                               /\ session.failures < Limit
                               /\ call.value = <<session.failures + 1>>
    /\ session.pc = "right" => call # None /\ call.key = FailuresKey /\ call.value = <<0>>
    /\ session.pc = "rotate" => /\ call # None /\ call.key = VerifierKey
                                /\ call.value \in codes

\* The count stored covers the guesses answered.
Counted ==
    /\ answered \in 0 .. Limit
    /\ nvs[FailuresKey].blob = None => answered = 0
    /\ \A n \in 0 .. Limit : nvs[FailuresKey].blob = <<n>> => answered <= n
    /\ session.pc \in {"guess", "wrong"} => session.failures < Limit /\ answered <= session.failures

Current ==
    /\ nvs[VerifierKey].blob \in Verifiers => nvs[VerifierKey].blob \in codes
    /\ session.pc \in {"guess", "wrong", "right", "done"} => session.verifier \in codes

IInv == TypeOK /\ OneType /\ Calling /\ Counted /\ Current

-----------------------------------------------------------------------------
LEMMA CountRead ==
    ASSUME TypeOK, OneType, LoadFailures # Corrupt
    PROVE  \/ nvs[FailuresKey].blob = None /\ LoadFailures = 0
           \/ \E n \in 0 .. Limit : nvs[FailuresKey].blob = <<n>> /\ LoadFailures = n
<1> DEFINE b == nvs[FailuresKey].blob
<1>1. CASE b = None
  BY <1>1, RecordsAssumption DEF OneType, LoadFailures, Get, GetStr
<1>2. CASE b \in Worn
  <2>1. b # None /\ b # TooSmall /\ Len(b) # 1
    BY <1>2, RecordsAssumption, ValuesAssumption
  <2>2. Get(FailuresKey, 1) \in {b, TooSmall}
    BY <2>1 DEF Get
  <2>3. LoadFailures = Corrupt
    BY <2>1, <2>2, ValuesAssumption DEF LoadFailures
  <2> QED
    BY <2>3
<1>3. CASE b \in Counts
  <2>1. PICK n \in 0 .. Limit : b = <<n>>
    BY <1>3 DEF Counts
  <2>2. b \in Values /\ b # None /\ b # TooSmall /\ Len(b) = 1 /\ b[1] = n
    BY <2>1, RecordsAssumption, ValuesAssumption
  <2>3. Get(FailuresKey, 1) = b
    BY <2>2 DEF Get
  <2>4. LoadFailures = n
    BY <2>2, <2>3 DEF LoadFailures
  <2> QED
    BY <2>1, <2>4
<1> QED
  BY <1>1, <1>2, <1>3 DEF OneType

LEMMA CodeRead ==
    ASSUME TypeOK, OneType, LoadVerifier \notin {None, Corrupt}
    PROVE  LoadVerifier = nvs[VerifierKey].blob /\ LoadVerifier \in Verifiers
<1> DEFINE b == nvs[VerifierKey].blob
<1>1. b # None
  BY DEF OneType, LoadVerifier, Get, GetStr
<1>2. b \in Values
  BY <1>1, RecordsAssumption DEF TypeOK, Entries
<1>3. Get(VerifierKey, VerifierLen) \in {b, TooSmall}
  BY <1>1 DEF Get
<1> QED
  BY <1>2, <1>3 DEF LoadVerifier, Verifiers

LEMMA InitInv == Init => IInv
<1> SUFFICES ASSUME Init PROVE IInv
  OBVIOUS
<1>1. nvs \in [Keys -> Entries] /\ nvs[FailuresKey] = Nothing /\ nvs[VerifierKey].str = None
  BY RecordsAssumption DEF Init
<1>2. TypeOK
  BY <1>1, RecordsAssumption DEF Init, TypeOK, Idle, CodesOf
<1>3. OneType
  BY <1>1, RecordsAssumption DEF Init, OneType, Nothing
<1>4. Calling
  BY DEF Init, Calling, Idle
<1>5. Counted
  <2>1. \A n \in 0 .. Limit : <<n>> # None
    BY RecordsAssumption, ValuesAssumption
  <2> QED
    BY <1>1, <2>1, RecordsAssumption DEF Init, Counted, Idle, Nothing
<1>6. Current
  BY DEF Init, Current, Idle, CodesOf
<1> QED
  BY <1>2, <1>3, <1>4, <1>5, <1>6 DEF IInv

\* A put begins where none is under way; nothing else moves with it.
LEMMA PutType ==
    ASSUME IInv, NEW k \in Keys, NEW v \in Values, Put(k, v)
    PROVE  /\ call = None /\ power = "on"
           /\ call' \in Calls /\ call'.key = k /\ call'.value = v /\ call' # None
           /\ call'.next = "remove" <=> nvs[k].str # None
           /\ nvs' = nvs /\ power' = power
BY CallsAssumption DEF Put, Calls

LEMMA WrongStep == IInv /\ Wrong => IInv'
<1> SUFFICES ASSUME IInv, Wrong PROVE IInv'
  OBVIOUS
<1> DEFINE n == session.failures + 1
<1>1. n \in 0 .. Limit /\ <<n>> \in Values /\ FailuresKey \in Keys
  BY RecordsAssumption DEF IInv, TypeOK, Counted, Wrong
<1>2. Put(FailuresKey, <<n>>)
  BY DEF Wrong, StoreFailures
<1>3. /\ session' = [session EXCEPT !.pc = "wrong"] /\ session.pc = "guess"
      /\ answered' = answered /\ codes' = codes
  BY DEF Wrong
<1>4. /\ call' \in Calls /\ call'.key = FailuresKey /\ call'.value = <<n>> /\ call' # None
      /\ call'.next = "remove" <=> nvs[FailuresKey].str # None
      /\ nvs' = nvs /\ power' = power /\ power = "on"
  BY <1>1, <1>2, PutType
<1>5. /\ session'.pc = "wrong" /\ session'.verifier = session.verifier
      /\ session'.failures = session.failures
      /\ session' \in [pc : {"idle", "guess", "wrong", "right", "done", "rotate"},
                       verifier : Verifiers \cup {None}, failures : 0 .. Limit]
  BY <1>3 DEF IInv, TypeOK
<1> HIDE DEF n
<1>6. TypeOK'
  BY <1>3, <1>4, <1>5 DEF IInv, TypeOK
<1>7. OneType' /\ Counted' /\ Current'
  BY <1>3, <1>4, <1>5 DEF IInv, OneType, Counted, Current
<1>8. Calling'
  BY <1>3, <1>4, <1>5 DEF IInv, Calling, Counted, n
<1> QED
  BY <1>6, <1>7, <1>8 DEF IInv

LEMMA RightStep == IInv /\ Right => IInv'
<1> SUFFICES ASSUME IInv, Right PROVE IInv'
  OBVIOUS
<1>1. 0 \in 0 .. Limit /\ <<0>> \in Values /\ FailuresKey \in Keys
  BY RecordsAssumption
<1>2. Put(FailuresKey, <<0>>)
  BY DEF Right, StoreFailures
<1>3. /\ session' = [session EXCEPT !.pc = "right"] /\ session.pc = "guess"
      /\ answered' = answered /\ codes' = codes
  BY DEF Right
<1>4. /\ call' \in Calls /\ call'.key = FailuresKey /\ call'.value = <<0>> /\ call' # None
      /\ call'.next = "remove" <=> nvs[FailuresKey].str # None
      /\ nvs' = nvs /\ power' = power /\ power = "on"
  BY <1>1, <1>2, PutType
<1>5. /\ session'.pc = "right" /\ session'.verifier = session.verifier
      /\ session'.failures = session.failures
      /\ session' \in [pc : {"idle", "guess", "wrong", "right", "done", "rotate"},
                       verifier : Verifiers \cup {None}, failures : 0 .. Limit]
  BY <1>3 DEF IInv, TypeOK
<1>6. TypeOK'
  BY <1>3, <1>4, <1>5 DEF IInv, TypeOK
<1>7. OneType' /\ Counted' /\ Current'
  BY <1>3, <1>4, <1>5 DEF IInv, OneType, Counted, Current
<1>8. Calling'
  BY <1>3, <1>4, <1>5 DEF IInv, Calling
<1> QED
  BY <1>6, <1>7, <1>8 DEF IInv

LEMMA RotateStep == ASSUME IInv, NEW v \in Verifiers, Rotate(v) PROVE IInv'
<1>1. v \in Values /\ VerifierKey \in Keys
  BY RecordsAssumption DEF Verifiers
<1>2. Put(VerifierKey, v)
  BY DEF Rotate, StoreVerifier
<1>3. /\ session' = [session EXCEPT !.pc = "rotate"] /\ session.pc = "done"
      /\ answered' = answered /\ codes' = codes \cup {v}
  BY DEF Rotate
<1>4. /\ call' \in Calls /\ call'.key = VerifierKey /\ call'.value = v /\ call' # None
      /\ call'.next = "remove" <=> nvs[VerifierKey].str # None
      /\ nvs' = nvs /\ power' = power /\ power = "on"
  BY <1>1, <1>2, PutType
<1>5. /\ session'.pc = "rotate" /\ session'.verifier = session.verifier
      /\ session'.failures = session.failures
      /\ session' \in [pc : {"idle", "guess", "wrong", "right", "done", "rotate"},
                       verifier : Verifiers \cup {None}, failures : 0 .. Limit]
  BY <1>3 DEF IInv, TypeOK
<1>6. TypeOK'
  BY <1>3, <1>4, <1>5 DEF IInv, TypeOK
<1>7. OneType' /\ Counted' /\ Current'
  BY <1>3, <1>4, <1>5 DEF IInv, OneType, Counted, Current
<1>8. Calling'
  BY <1>3, <1>4, <1>5 DEF IInv, Calling
<1> QED
  BY <1>6, <1>7, <1>8 DEF IInv

LEMMA RenameStep == ASSUME IInv, NEW v \in Names, Rename(v) PROVE IInv'
<1>1. v \in Values /\ NameKey \in Keys
  BY RecordsAssumption
<1>2. Put(NameKey, v) /\ session.pc = "idle"
  BY DEF Rename
<1>3. session' = session /\ answered' = answered /\ codes' = codes
  BY DEF Rename
<1>4. /\ call' \in Calls /\ call'.key = NameKey /\ call' # None
      /\ call'.next = "remove" <=> nvs[NameKey].str # None
      /\ nvs' = nvs /\ power' = power /\ power = "on"
  BY <1>1, <1>2, PutType
<1>5. TypeOK'
  BY <1>3, <1>4 DEF IInv, TypeOK
<1>6. OneType' /\ Counted' /\ Current'
  BY <1>3, <1>4 DEF IInv, OneType, Counted, Current
<1>7. Calling'
  BY <1>2, <1>3, <1>4 DEF IInv, Calling
<1> QED
  BY <1>5, <1>6, <1>7 DEF IInv

\* Erasing a key of one type leaves nothing.
LEMMA ErasedAll ==
    ASSUME IInv, NEW k \in Keys, NEW e \in Erased(nvs[k])
    PROVE  e = Nothing /\ e \in Entries /\ e.blob = None /\ e.str = None
BY DEF IInv, OneType, Erased, Nothing, Entries

LEMMA RemovingStep == IInv /\ Removing => IInv'
<1> SUFFICES ASSUME IInv, Removing PROVE IInv'
  OBVIOUS
<1>1. /\ call \in Calls /\ call # None /\ call.next = "remove" /\ call.key \in Keys
      /\ nvs[call.key].str # None /\ power = "on" /\ nvs \in [Keys -> Entries]
  BY DEF IInv, TypeOK, Calling, Removing, PutRemoves, Calls
<1>2. call.key = NameKey
  BY <1>1, RecordsAssumption DEF IInv, OneType
<1>3. PICK e \in Erased(nvs[call.key]) : nvs' = [nvs EXCEPT ![call.key] = e]
  BY DEF Removing, PutRemoves
<1>4. /\ nvs' \in [Keys -> Entries] /\ nvs'[NameKey].blob = None /\ nvs'[NameKey].str = None
      /\ nvs'[VerifierKey] = nvs[VerifierKey] /\ nvs'[FailuresKey] = nvs[FailuresKey]
  BY <1>1, <1>2, <1>3, ErasedAll, RecordsAssumption
<1>5. /\ call' = [call EXCEPT !.next = "set"] /\ power' = power
      /\ session' = session /\ answered' = answered /\ codes' = codes
  BY DEF Removing, PutRemoves
<1>6. call' \in Calls /\ call'.next = "set" /\ call'.key = NameKey /\ call' # None
  BY <1>1, <1>2, <1>5, CallsAssumption DEF Calls
<1>7. TypeOK'
  BY <1>4, <1>5, <1>6 DEF IInv, TypeOK
<1>8. OneType'
  BY <1>4, RecordsAssumption DEF IInv, OneType
<1>9. Calling'
  BY <1>1, <1>2, <1>4, <1>5, <1>6, RecordsAssumption DEF IInv, Calling
<1>10. Counted' /\ Current'
  BY <1>4, <1>5 DEF IInv, Counted, Current
<1> QED
  BY <1>7, <1>8, <1>9, <1>10 DEF IInv

LEMMA RemoveNameStep == IInv /\ RemoveName => IInv'
<1> SUFFICES ASSUME IInv, RemoveName PROVE IInv'
  OBVIOUS
<1>1. NameKey \in Keys /\ nvs \in [Keys -> Entries]
  BY RecordsAssumption DEF IInv, TypeOK
<1>2. PICK e \in Erased(nvs[NameKey]) : nvs' = [nvs EXCEPT ![NameKey] = e]
  BY DEF RemoveName, Remove
<1>3. /\ nvs' \in [Keys -> Entries] /\ nvs'[NameKey].blob = None /\ nvs'[NameKey].str = None
      /\ nvs'[VerifierKey] = nvs[VerifierKey] /\ nvs'[FailuresKey] = nvs[FailuresKey]
  BY <1>1, <1>2, ErasedAll, RecordsAssumption
<1>4. /\ call = None /\ call' = call /\ power' = power
      /\ session' = session /\ answered' = answered /\ codes' = codes
  BY DEF RemoveName, Remove
<1>5. TypeOK' /\ Calling'
  BY <1>3, <1>4 DEF IInv, TypeOK, Calling
<1>6. OneType'
  BY <1>3, RecordsAssumption DEF IInv, OneType
<1>7. Counted' /\ Current'
  BY <1>3, <1>4 DEF IInv, Counted, Current
<1> QED
  BY <1>5, <1>6, <1>7 DEF IInv

LEMMA StoredStep == IInv /\ Stored => IInv'
<1> SUFFICES ASSUME IInv, Stored PROVE IInv'
  OBVIOUS
<1> DEFINE k == call.key
           v == call.value
<1>1. /\ call \in Calls /\ call # None /\ call.next = "set" /\ k \in Keys /\ v \in Values
      /\ nvs[k].str = None /\ power = "on" /\ nvs \in [Keys -> Entries]
  BY DEF IInv, TypeOK, Calling, Stored, PutSets, Calls
<1>2. /\ nvs' = [nvs EXCEPT ![k].blob = v] /\ call' = None /\ power' = power
  BY DEF Stored, PutSets
<1>3. /\ nvs' \in [Keys -> Entries] /\ nvs'[k].blob = v /\ nvs'[k].str = None
      /\ \A j \in Keys : j # k => nvs'[j] = nvs[j]
  BY <1>1, <1>2 DEF Entries
<1>4. /\ session.pc \in {"idle", "wrong", "right", "rotate"}
      /\ session \in [pc : {"idle", "guess", "wrong", "right", "done", "rotate"},
                      verifier : Verifiers \cup {None}, failures : 0 .. Limit]
  BY <1>1 DEF IInv, Calling, TypeOK
<1>5. /\ session' = IF session.pc = "right" THEN [session EXCEPT !.pc = "done"] ELSE Idle
      /\ codes' = IF session.pc = "rotate" THEN {v} ELSE codes
      /\ answered' = CASE session.pc = "wrong" -> answered + 1
                       [] session.pc = "right" -> 0
                       [] OTHER -> answered
  BY DEF Stored
<1>6. answered \in 0 .. Limit /\ Limit \in Nat /\ codes \subseteq Verifiers
  BY RecordsAssumption DEF IInv, TypeOK, Counted
<1> HIDE DEF k, v
<1>7. VerifierKey \in Keys /\ FailuresKey \in Keys /\ NameKey \in Keys
      /\ VerifierKey # FailuresKey /\ VerifierKey # NameKey /\ FailuresKey # NameKey
  BY RecordsAssumption
<1>8. CASE session.pc = "idle"
  <2>1. k = NameKey /\ session' = Idle /\ codes' = codes /\ answered' = answered
    BY <1>1, <1>5, <1>8 DEF IInv, Calling, k
  <2>2. nvs'[VerifierKey] = nvs[VerifierKey] /\ nvs'[FailuresKey] = nvs[FailuresKey]
    BY <1>3, <1>7, <2>1
  <2>3. TypeOK'
    BY <1>2, <1>3, <1>6, <2>1 DEF IInv, TypeOK, Idle
  <2>4. OneType'
    BY <1>3, <2>2 DEF IInv, OneType
  <2>5. Calling'
    BY <1>2, <2>1 DEF Calling, Idle
  <2>6. Counted'
    BY <2>1, <2>2 DEF IInv, Counted, Idle
  <2>7. Current'
    BY <2>1, <2>2 DEF IInv, Current, Idle
  <2> QED
    BY <2>3, <2>4, <2>5, <2>6, <2>7 DEF IInv
<1>9. CASE session.pc = "wrong"
  <2> DEFINE n == session.failures + 1
  <2>1. /\ k = FailuresKey /\ v = <<n>> /\ n \in 0 .. Limit /\ answered + 1 <= n
        /\ session' = Idle /\ codes' = codes /\ answered' = answered + 1
    BY <1>4, <1>5, <1>6, <1>9 DEF IInv, Calling, Counted, k, v
  <2>2. nvs'[VerifierKey] = nvs[VerifierKey] /\ nvs'[FailuresKey].blob = <<n>>
    BY <1>3, <1>7, <2>1
  <2> HIDE DEF n
  <2>3. TypeOK'
    BY <1>2, <1>3, <1>6, <2>1 DEF IInv, TypeOK, Idle
  <2>4. OneType'
    BY <1>3, <1>7, <2>1, <2>2 DEF IInv, OneType, Counts
  <2>5. Counted'
    <3>1. \A m \in 0 .. Limit : <<n>> = <<m>> => m = n
      OBVIOUS
    <3>2. <<n>> # None
      BY <2>1, RecordsAssumption, ValuesAssumption
    <3> QED
      BY <1>6, <2>1, <2>2, <3>1, <3>2 DEF Counted, Idle
  <2>6. Calling'
    BY <1>2, <2>1 DEF Calling, Idle
  <2>7. Current'
    BY <2>1, <2>2 DEF IInv, Current, Idle
  <2> QED
    BY <2>3, <2>4, <2>5, <2>6, <2>7 DEF IInv
<1>10. CASE session.pc = "right"
  <2>1. /\ k = FailuresKey /\ v = <<0>> /\ codes' = codes /\ answered' = 0
        /\ session' = [session EXCEPT !.pc = "done"]
    BY <1>5, <1>10 DEF IInv, Calling, k, v
  <2>2. /\ session' \in [pc : {"idle", "guess", "wrong", "right", "done", "rotate"},
                         verifier : Verifiers \cup {None}, failures : 0 .. Limit]
        /\ session'.pc = "done" /\ session'.verifier = session.verifier
    BY <1>4, <2>1
  <2>3. nvs'[VerifierKey] = nvs[VerifierKey] /\ nvs'[FailuresKey].blob = <<0>>
    BY <1>3, <1>7, <2>1
  <2>4. TypeOK'
    BY <1>2, <1>3, <1>6, <2>1, <2>2 DEF IInv, TypeOK
  <2>5. OneType'
    <3>1. <<0>> \in Counts
      BY <1>6 DEF Counts
    <3> QED
      BY <1>3, <1>7, <2>1, <2>3, <3>1 DEF IInv, OneType
  <2>6. Counted'
    BY <1>6, <2>1, <2>2 DEF Counted
  <2>7. Calling'
    BY <1>1, <1>2, <1>10, <2>2 DEF IInv, Calling
  <2>8. Current'
    BY <1>10, <2>1, <2>2, <2>3 DEF IInv, Current
  <2> QED
    BY <2>4, <2>5, <2>6, <2>7, <2>8 DEF IInv
<1>11. CASE session.pc = "rotate"
  <2>1. /\ k = VerifierKey /\ v \in codes /\ codes' = {v} /\ answered' = answered
        /\ session' = Idle
    BY <1>5, <1>11 DEF IInv, Calling, k, v
  <2>2. nvs'[VerifierKey].blob = v /\ nvs'[FailuresKey] = nvs[FailuresKey]
    BY <1>3, <1>7, <2>1
  <2>3. TypeOK'
    BY <1>2, <1>3, <1>6, <2>1 DEF IInv, TypeOK, Idle
  <2>4. OneType'
    BY <1>3, <1>7, <2>1, <2>2 DEF IInv, OneType
  <2>5. Calling'
    BY <1>2, <2>1 DEF Calling, Idle
  <2>6. Counted'
    BY <2>1, <2>2 DEF IInv, Counted, Idle
  <2>7. Current'
    BY <2>1, <2>2 DEF Current, Idle
  <2> QED
    BY <2>3, <2>4, <2>5, <2>6, <2>7 DEF IInv
<1> QED
  BY <1>4, <1>8, <1>9, <1>10, <1>11

LEMMA GuessStep == IInv /\ Guess => IInv'
<1> SUFFICES ASSUME IInv, Guess PROVE IInv'
  OBVIOUS
<1> DEFINE n == LoadFailures
           w == LoadVerifier
<1>1. w \notin {None, Corrupt} /\ n # Corrupt /\ n < Limit /\ power = "on" /\ call = None
  BY DEF Guess
<1>2. w = nvs[VerifierKey].blob /\ w \in Verifiers
  BY <1>1, CodeRead DEF IInv
<1>3. n \in 0 .. Limit /\ answered <= n
  <2>1. \/ nvs[FailuresKey].blob = None /\ n = 0
        \/ \E m \in 0 .. Limit : nvs[FailuresKey].blob = <<m>> /\ n = m
    BY <1>1, CountRead DEF IInv
  <2> HIDE DEF n
  <2> QED
    BY <2>1, RecordsAssumption DEF IInv, Counted
<1>4. /\ session' = [pc |-> "guess", verifier |-> w, failures |-> n]
      /\ nvs' = nvs /\ call' = call /\ power' = power /\ answered' = answered /\ codes' = codes
  BY DEF Guess
<1> HIDE DEF n, w
<1>5. TypeOK'
  BY <1>2, <1>3, <1>4 DEF IInv, TypeOK
<1>6. OneType' /\ Calling'
  BY <1>1, <1>2, <1>4 DEF IInv, OneType, Calling
<1>7. Counted' /\ Current'
  BY <1>1, <1>2, <1>3, <1>4 DEF IInv, Counted, Current
<1> QED
  BY <1>5, <1>6, <1>7 DEF IInv

\* The session ends: close, an error, the power.
LEMMA EndStep ==
    ASSUME IInv, session' = Idle, call' = None, power' \in {"off", "on"},
           nvs' = nvs, answered' = answered, codes' = codes
    PROVE  IInv'
<1>1. TypeOK'
  BY RecordsAssumption DEF IInv, TypeOK, Idle
<1>2. OneType' /\ Calling' /\ Counted' /\ Current'
  BY DEF IInv, OneType, Calling, Counted, Current, Idle
<1> QED
  BY <1>1, <1>2 DEF IInv

LEMMA BootStep == IInv /\ Boot => IInv'
<1> SUFFICES ASSUME IInv, Boot PROVE IInv'
  OBVIOUS
<1>1. /\ power = "off" /\ power' \in {"on", "denied"} /\ nvs' = nvs /\ call' = call
      /\ session' = session /\ answered' = answered /\ codes' = codes
  BY DEF Boot, Open
<1>2. call = None /\ session.pc = "idle"
  BY <1>1 DEF IInv, Calling
<1> QED
  BY <1>1, <1>2 DEF IInv, TypeOK, OneType, Calling, Counted, Current

LEMMA FlashStep == ASSUME IInv, NEW m \in Images, Flash(m) PROVE IInv'
<1>1. m \in [Keys -> Entries] /\ m[FailuresKey] = Nothing /\ m[VerifierKey].str = None
  BY RecordsAssumption
<1>2. /\ nvs' = m /\ answered' = 0 /\ codes' = CodesOf(m) /\ power = "off" /\ power' = power
      /\ call' = call /\ session' = session
  BY DEF Flash
<1>3. call = None /\ session.pc = "idle"
  BY <1>2 DEF IInv, Calling
<1>4. TypeOK'
  BY <1>1, <1>2 DEF IInv, TypeOK, CodesOf
<1>5. OneType'
  BY <1>1, <1>2, RecordsAssumption DEF OneType, Nothing
<1>6. Calling' /\ Current'
  BY <1>2, <1>3 DEF IInv, Calling, Current, CodesOf
<1>7. Counted'
  BY <1>2, <1>3, RecordsAssumption DEF Counted
<1> QED
  BY <1>4, <1>5, <1>6, <1>7 DEF IInv

LEMMA WearStep ==
    ASSUME IInv, NEW k \in {VerifierKey, FailuresKey}, NEW v \in Worn, Wear(k, v)
    PROVE  IInv'
<1>1. /\ k \in Keys /\ v \in Values /\ Len(v) # VerifierLen /\ Len(v) # 1 /\ v # None
      /\ VerifierKey # FailuresKey /\ VerifierKey \in Keys /\ FailuresKey \in Keys
  BY RecordsAssumption, ValuesAssumption
<1>2. /\ nvs' = [nvs EXCEPT ![k].blob = v] /\ power = "off" /\ nvs[k].blob # None
      /\ call' = call /\ power' = power /\ session' = session
      /\ answered' = answered /\ codes' = codes
  BY DEF Wear
<1>3. call = None /\ session.pc = "idle" /\ nvs[k].str = None /\ nvs \in [Keys -> Entries]
  BY <1>2 DEF IInv, Calling, TypeOK, OneType
<1>4. /\ nvs' \in [Keys -> Entries] /\ nvs'[k].blob = v /\ nvs'[k].str = None
      /\ \A j \in Keys : j # k => nvs'[j] = nvs[j]
  BY <1>1, <1>2, <1>3 DEF Entries
<1>5. TypeOK'
  BY <1>2, <1>4 DEF IInv, TypeOK
<1>6. OneType'
  BY <1>1, <1>3, <1>4 DEF IInv, OneType
<1>7. Calling' /\ Current'
  BY <1>1, <1>2, <1>3, <1>4 DEF IInv, Calling, Current, Verifiers
<1>8. Counted'
  <2>1. \A n \in 0 .. Limit : v # <<n>>
    BY <1>1
  <2> QED
    BY <1>1, <1>2, <1>3, <1>4, <2>1 DEF IInv, Counted
<1> QED
  BY <1>5, <1>6, <1>7, <1>8 DEF IInv

LEMMA StepInv == IInv /\ [Next]_vars => IInv'
<1> SUFFICES ASSUME IInv, [Next]_vars PROVE IInv'
  OBVIOUS
<1>1. CASE UNCHANGED vars
  BY <1>1 DEF vars, IInv, TypeOK, OneType, Calling, Counted, Current
<1>2. CASE Close
  <2>1. call = None /\ power = "on"
    BY <1>2 DEF Close, IInv, Calling
  <2> QED
    BY <1>2, <2>1, EndStep DEF Close
<1>3. CASE StoringFails
  <2>1. power = "on"
    BY <1>3 DEF StoringFails, PutFails, IInv, Calling
  <2> QED
    BY <1>3, <2>1, EndStep DEF StoringFails, PutFails
<1>4. CASE PowerCut
  BY <1>4, EndStep DEF PowerCut, Cut
<1> QED
  BY <1>1, <1>2, <1>3, <1>4, BootStep, GuessStep, WrongStep, RightStep, RotateStep, RenameStep,
     RemovingStep, RemoveNameStep, StoredStep, FlashStep, WearStep DEF Next

\* EspNvs and setup.rs: the entries and the session keep their types, whatever
\* is cut, fails or wears.
THEOREM TypeCorrect == Spec => []TypeOK
<1>1. IInv => TypeOK
  BY DEF IInv
<1> QED
  BY <1>1, InitInv, StepInv, PTL DEF Spec

\* Wrong codes are limited for every limit, through every cut and error:
\* the count is on the flash before the answer, it is a blob, and a blob is
\* not removed to be replaced.
THEOREM LimitHolds == Spec => []GuessesAreLimited
<1>1. IInv => GuessesAreLimited
  BY RecordsAssumption DEF IInv, Counted, GuessesAreLimited
<1> QED
  BY <1>1, InitInv, StepInv, PTL DEF Spec

\* Guesses are checked against a whole verifier that was given and not replaced.
THEOREM CodesAreCurrent == Spec => []CodeIsCurrent
<1>1. IInv => CodeIsCurrent
  BY DEF IInv, Current, CodeIsCurrent
<1> QED
  BY <1>1, InitInv, StepInv, PTL DEF Spec

-----------------------------------------------------------------------------
(* The contract. *)

\* What a read gives is the blob, or the string without its NUL.
LEMMA ReadType ==
    ASSUME nvs \in [Keys -> Entries], NEW k \in Keys
    PROVE  /\ Get(k, Room) \in Values \cup {None}
           /\ nvs[k].blob # None => Get(k, Room) = nvs[k].blob
           /\ nvs[k].blob = None /\ nvs[k].str = None => Get(k, Room) = None
<1>1. CASE nvs[k].blob # None
  <2>1. nvs[k].blob \in Values
    BY <1>1 DEF Entries
  <2>2. Get(k, Room) = nvs[k].blob
    BY <1>1, <2>1, ValuesAssumption DEF Get
  <2> QED
    BY <1>1, <2>1, <2>2
<1>2. CASE nvs[k].blob = None /\ nvs[k].str = None
  BY <1>2 DEF Get, GetStr
<1>3. CASE nvs[k].blob = None /\ nvs[k].str # None
  <2>1. PICK v \in Values : nvs[k].str = AsString(v)
    BY <1>3 DEF Entries
  <2>2. /\ Len(AsString(v)) = Len(v) + 1 /\ SubSeq(AsString(v), 1, Len(v)) = v
        /\ Len(v) \in 0 .. Room /\ Room \in Nat
    BY ValuesAssumption
  <2>3. Len(AsString(v)) - 1 = Len(v) /\ ~(Room < Len(v))
    BY <2>2
  <2>4. GetStr(k, Room) = v
    BY <1>3, <2>1, <2>2, <2>3 DEF GetStr
  <2> QED
    BY <1>3, <2>4 DEF Get
<1> QED
  BY <1>1, <1>2, <1>3

LEMMA ReadNext ==
    ASSUME nvs' \in [Keys -> Entries], NEW k \in Keys
    PROVE  /\ Get(k, Room)' \in Values \cup {None}
           /\ nvs'[k].blob # None => Get(k, Room)' = nvs'[k].blob
           /\ nvs'[k].blob = None /\ nvs'[k].str = None => Get(k, Room)' = None
<1>1. CASE nvs'[k].blob # None
  <2>1. nvs'[k].blob \in Values
    BY <1>1 DEF Entries
  <2>2. Get(k, Room)' = nvs'[k].blob
    BY <1>1, <2>1, ValuesAssumption DEF Get
  <2> QED
    BY <1>1, <2>1, <2>2
<1>2. CASE nvs'[k].blob = None /\ nvs'[k].str = None
  BY <1>2 DEF Get, GetStr
<1>3. CASE nvs'[k].blob = None /\ nvs'[k].str # None
  <2>1. PICK v \in Values : nvs'[k].str = AsString(v)
    BY <1>3 DEF Entries
  <2>2. /\ Len(AsString(v)) = Len(v) + 1 /\ SubSeq(AsString(v), 1, Len(v)) = v
        /\ Len(v) \in 0 .. Room /\ Room \in Nat
    BY ValuesAssumption
  <2>3. Len(AsString(v)) - 1 = Len(v) /\ ~(Room < Len(v))
    BY <2>2
  <2>4. GetStr(k, Room)' = v
    BY <1>3, <2>1, <2>2, <2>3 DEF GetStr
  <2> QED
    BY <1>3, <2>4 DEF Get
<1> QED
  BY <1>1, <1>2, <1>3

LEMMA ReadSame ==
    ASSUME NEW k \in Keys, nvs'[k] = nvs[k]
    PROVE  Get(k, Room)' = Get(k, Room)
BY DEF Get, GetStr

LEMMA ContractInit == Init => Contract!Init
<1> SUFFICES ASSUME Init PROVE Contract!Init
  OBVIOUS
<1>1. nvs \in [Keys -> Entries] /\ call = None /\ power = "off"
  BY RecordsAssumption DEF Init
<1>2. [k \in Keys |-> Get(k, Room)] \in [Keys -> Values \cup {None}]
  BY <1>1, ReadType
<1> QED
  BY <1>1, <1>2 DEF Contract!Init, Contract!Stores

LEMMA ContractStep == IInv /\ IInv' /\ [Next]_vars => [Contract!Next]_(Contract!vars)
<1> SUFFICES ASSUME IInv, IInv', [Next]_vars PROVE [Contract!Next]_(Contract!vars)
  OBVIOUS
<1>t. nvs \in [Keys -> Entries] /\ nvs' \in [Keys -> Entries]
  BY DEF IInv, TypeOK
\* Whatever leaves the entries, the call and the power alone is a stutter.
<1>1. ASSUME nvs' = nvs, call' = call, (power' = "on") = (power = "on")
      PROVE  UNCHANGED Contract!vars
  BY <1>1 DEF Contract!vars, Get, GetStr
<1>2. CASE UNCHANGED vars
  BY <1>1, <1>2 DEF vars
<1>3. CASE Guess \/ Close
  BY <1>1, <1>3 DEF Guess, Close
<1>4. ASSUME call' = None, nvs' = nvs, (power' = "on") # (power = "on")
      PROVE  Contract!Power
  BY <1>4 DEF Contract!Power, Get, GetStr
<1>5. CASE Boot
  <2>1. /\ power = "off" /\ power' \in {"on", "denied"} /\ nvs' = nvs /\ call' = call
        /\ call = None
    BY <1>5 DEF Boot, Open, IInv, Calling
  <2>2. CASE power' = "on"
    BY <1>4, <2>1, <2>2 DEF Contract!Next
  <2>3. CASE power' = "denied"
    BY <1>1, <2>1, <2>3
  <2> QED
    BY <2>1, <2>2, <2>3
<1>6. CASE PowerCut
  <2>1. power # "off" /\ power' = "off" /\ call' = None /\ nvs' = nvs
    BY <1>6 DEF PowerCut, Cut
  <2>2. CASE power = "on"
    BY <1>4, <2>1, <2>2 DEF Contract!Next
  <2>3. CASE power # "on"
    <3>1. call = None
      BY <2>3 DEF IInv, Calling
    <3> QED
      BY <1>1, <2>1, <2>3, <3>1
  <2> QED
    BY <2>2, <2>3
<1>7. ASSUME NEW k \in Keys, NEW v \in Values, Put(k, v)
      PROVE  Contract!Begin(k, v)
  <2>1. /\ call = None /\ power = "on" /\ call'.key = k /\ call'.value = v /\ call' # None
        /\ nvs' = nvs /\ power' = power
    BY <1>7, PutType
  <2> QED
    BY <2>1 DEF Contract!Begin, Get, GetStr
<1>8. CASE Wrong \/ Right \/ (\E v \in Verifiers : Rotate(v)) \/ (\E v \in Names : Rename(v))
  <2>1. \E k \in Keys, v \in Values : Put(k, v)
    <3>1. ASSUME Wrong PROVE Put(FailuresKey, <<session.failures + 1>>)
                             /\ <<session.failures + 1>> \in Values
      BY <3>1, RecordsAssumption
      DEF Wrong, StoreFailures, IInv, TypeOK, Counted
    <3>2. ASSUME Right PROVE Put(FailuresKey, <<0>>) /\ <<0>> \in Values
      BY <3>2, RecordsAssumption DEF Right, StoreFailures
    <3>3. ASSUME NEW v \in Verifiers, Rotate(v) PROVE Put(VerifierKey, v) /\ v \in Values
      BY <3>3 DEF Rotate, StoreVerifier, Verifiers
    <3>4. ASSUME NEW v \in Names, Rename(v) PROVE Put(NameKey, v) /\ v \in Values
      BY <3>4, RecordsAssumption DEF Rename
    <3> QED
      BY <1>8, <3>1, <3>2, <3>3, <3>4, RecordsAssumption
  <2> QED
    BY <1>7, <2>1 DEF Contract!Next
<1>9. CASE Removing
  <2>1. /\ call \in Calls /\ call # None /\ call.next = "remove" /\ call.key \in Keys
        /\ nvs[call.key].str # None /\ nvs[call.key].blob = None
    BY <1>9 DEF IInv, TypeOK, Calling, OneType, Removing, PutRemoves, Calls
  <2>2. PICK e \in Erased(nvs[call.key]) : nvs' = [nvs EXCEPT ![call.key] = e]
    BY <1>9 DEF Removing, PutRemoves
  <2>3. e.blob = None /\ e.str = None
    BY <2>1, <2>2, ErasedAll
  <2>4. /\ call' = [call EXCEPT !.next = "set"] /\ power' = power
    BY <1>9 DEF Removing, PutRemoves
  <2>5. call'.key = call.key /\ call'.value = call.value /\ call' # None
    BY <2>1, <2>4, CallsAssumption DEF Calls
  <2>6. \A k \in Keys : Get(k, Room)' = IF k = call.key THEN None ELSE Get(k, Room)
    BY <1>t, <2>1, <2>2, <2>3, ReadNext, ReadSame
  <2>7. \A k \in Keys : nvs'[k].blob # None <=> nvs[k].blob # None
    BY <1>t, <2>1, <2>2, <2>3
  <2>8. Contract!Drop
    <3>1. [k \in Keys |-> Get(k, Room)]'
             = [[k \in Keys |-> Get(k, Room)] EXCEPT ![call.key] = None]
      BY <2>1, <2>6
    <3>2. {k \in Keys : nvs[k].blob # None}' = {k \in Keys : nvs[k].blob # None}
      BY <2>7
    <3> DEFINE p == IF call = None THEN None ELSE <<call.key, call.value>>
    <3>3. p # None /\ p[1] = call.key /\ p' = p
      BY <2>1, <2>5, CallsAssumption DEF Calls
    <3>4. p[1] \notin {k \in Keys : nvs[k].blob # None}
      BY <2>1, <3>3
    <3> HIDE DEF p
    <3>5. [k \in Keys |-> Get(k, Room)]' = [[k \in Keys |-> Get(k, Room)] EXCEPT ![p[1]] = None]
      BY <3>1, <3>3
    <3> QED
      BY <2>4, <3>2, <3>3, <3>4, <3>5 DEF Contract!Drop, p
  <2> QED
    BY <2>8 DEF Contract!Next
<1>10. CASE Stored
  <2>1. /\ call \in Calls /\ call # None /\ call.key \in Keys /\ call.value \in Values
        /\ nvs' = [nvs EXCEPT ![call.key].blob = call.value] /\ call' = None /\ power' = power
        /\ call.value # None
    BY <1>10, ValuesAssumption DEF IInv, TypeOK, Stored, PutSets, Calls
  <2>2. nvs'[call.key].blob = call.value /\ \A k \in Keys : k # call.key => nvs'[k] = nvs[k]
    BY <1>t, <2>1 DEF Entries
  <2>3. \A k \in Keys : Get(k, Room)' = IF k = call.key THEN call.value ELSE Get(k, Room)
    BY <1>t, <2>1, <2>2, ReadNext, ReadSame
  <2>4. Contract!Finish
    <3>1. [k \in Keys |-> Get(k, Room)]'
             = [[k \in Keys |-> Get(k, Room)] EXCEPT ![call.key] = call.value]
      BY <2>1, <2>3
    <3>2. {k \in Keys : nvs[k].blob # None}' = {k \in Keys : nvs[k].blob # None} \cup {call.key}
      BY <2>1, <2>2
    <3> QED
      BY <2>1, <3>1, <3>2, CallsAssumption DEF Contract!Finish
  <2> QED
    BY <2>4 DEF Contract!Next
<1>11. CASE StoringFails
  <2>1. call # None /\ call' = None /\ nvs' = nvs /\ power' = power /\ call \in Calls
    BY <1>11 DEF StoringFails, PutFails, IInv, TypeOK
  <2>2. Contract!GiveUp
    BY <2>1, CallsAssumption DEF Contract!GiveUp, Calls, Get, GetStr
  <2> QED
    BY <2>2 DEF Contract!Next
<1>12. CASE RemoveName
  <2>1. NameKey \in Keys /\ power = "on" /\ call = None /\ call' = call /\ power' = power
    BY <1>12, RecordsAssumption DEF RemoveName, Remove
  <2>2. PICK e \in Erased(nvs[NameKey]) : nvs' = [nvs EXCEPT ![NameKey] = e]
    BY <1>12 DEF RemoveName, Remove
  <2>3. e.blob = None /\ e.str = None
    BY <2>1, <2>2, ErasedAll
  <2>4. nvs'[NameKey] = e /\ \A k \in Keys : k # NameKey => nvs'[k] = nvs[k]
    BY <1>t, <2>1, <2>2
  <2>5. \A k \in Keys : Get(k, Room)' = IF k = NameKey THEN None ELSE Get(k, Room)
    BY <1>t, <2>3, <2>4, ReadNext, ReadSame
  <2>6. Contract!Remove(NameKey)
    <3>1. [k \in Keys |-> Get(k, Room)]'
             = [[k \in Keys |-> Get(k, Room)] EXCEPT ![NameKey] = None]
      BY <2>1, <2>5
    <3>2. {k \in Keys : nvs[k].blob # None}' = {k \in Keys : nvs[k].blob # None} \ {NameKey}
      BY <2>1, <2>3, <2>4
    <3> QED
      BY <2>1, <3>1, <3>2 DEF Contract!Remove
  <2> QED
    BY <2>1, <2>6 DEF Contract!Next
<1>13. CASE (\E m \in Images : Flash(m))
            \/ \E k \in {VerifierKey, FailuresKey}, v \in Worn : Wear(k, v)
  <2>1. power = "off" /\ power' = power /\ call' = call
    BY <1>13 DEF Flash, Wear
  <2>2. [k \in Keys |-> Get(k, Room)]' \in [Keys -> Values \cup {None}]
    BY <1>t, ReadNext
  <2>3. {k \in Keys : nvs[k].blob # None}' \subseteq Keys
    OBVIOUS
  <2>4. Contract!Rewrite
    BY <2>1, <2>2, <2>3 DEF Contract!Rewrite, Contract!Stores
  <2> QED
    BY <2>4 DEF Contract!Next
<1> QED
  BY <1>2, <1>3, <1>5, <1>6, <1>8, <1>9, <1>10, <1>11, <1>12, <1>13 DEF Next

\* The typed store behind the records keeps the contract of a store, for all
\* keys and values: no put loses a blob, no erased key comes back.
THEOREM KeepsTheContract == Spec => KeepsContract
BY ContractInit, ContractStep, InitInv, StepInv, PTL DEF Spec, KeepsContract, Contract!Spec
=============================================================================
