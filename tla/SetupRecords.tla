------------------------------ MODULE SetupRecords ------------------------------
(***************************************************************************)
(* What the setup session keeps in the owner's settings: the verifier of   *)
(* the code printed on the device, and how often in a row a wrong code was *)
(* tried.  The settings are a Track A store, with the device's name beside *)
(* the two records.                                                        *)
(*                                                                         *)
(* The session is external (rusty_esp_signal-core): it takes one guess at  *)
(* a time, writes the count down before it answers, takes none once there  *)
(* were Limit failures or the count is Corrupt, and may rotate the code.   *)
(***************************************************************************)
EXTENDS EspNvs

CONSTANTS
    VerifierKey, FailuresKey, NameKey,  \* KV_SETUP_VERIFIER, KV_SETUP_FAILURES
    VerifierLen,  \* SETUP_VERIFIER_LEN
    Names,        \* bound: the names given on the device
    Images,       \* bound: what the portal writes
    Worn,         \* bound: what wear leaves of an entry
    Limit,        \* failures in a row that lock
    Corrupt

VARIABLES
    session,   \* [pc, verifier, failures]
    answered,  \* history: wrong guesses answered since a right one or an image
    codes      \* history: the verifiers a code may be checked against

vars == <<nvs, call, power, session, answered, codes>>

\* The records a code may have.
Verifiers == {v \in Values : Len(v) = VerifierLen}

Idle == [pc |-> "idle", verifier |-> None, failures |-> 0]

ASSUME RecordsAssumption ==
    /\ Keys = {VerifierKey, FailuresKey, NameKey}
    /\ VerifierKey # FailuresKey /\ VerifierKey # NameKey /\ FailuresKey # NameKey
    /\ Limit \in Nat \ {0}
    /\ Names \subseteq Values /\ Worn \subseteq Values
    /\ \A n \in 0 .. Limit : <<n>> \in Values
    /\ Images \subseteq [Keys -> Entries]
    /\ \A m \in Images : /\ \A k \in Keys : m[k].blob = None \/ m[k].str = None
                         /\ m[FailuresKey] = Nothing
                         /\ m[VerifierKey].str = None
    /\ \A v \in Worn : Len(v) # VerifierLen /\ Len(v) # 1
    /\ Corrupt \notin Nat /\ Corrupt \notin Values \cup {None}

\* (variant: the length is not looked at)
LoadVerifierAnyLength == LET v == Get(VerifierKey, VerifierLen) IN IF v = TooSmall THEN Corrupt ELSE v

LoadVerifier ==
    LET v == Get(VerifierKey, VerifierLen)
    IN  IF v = None THEN None
        ELSE IF v # TooSmall /\ Len(v) = VerifierLen THEN v ELSE Corrupt

\* (variant: a count that cannot be read is none)
LoadFailuresLenient ==
    LET b == Get(FailuresKey, 1)
    IN  IF b \in {None, TooSmall} THEN 0 ELSE IF Len(b) = 1 THEN b[1] ELSE 0

LoadFailures ==
    LET b == Get(FailuresKey, 1)
    IN  IF b = None THEN 0 ELSE IF b # TooSmall /\ Len(b) = 1 THEN b[1] ELSE Corrupt

StoreVerifier(v) == Put(VerifierKey, v)
StoreFailures(n) == Put(FailuresKey, <<n>>)

CodesOf(m) == {m[VerifierKey].blob} \cap Verifiers

-----------------------------------------------------------------------------
Init ==
    /\ nvs \in Images /\ call = None /\ power = "off"
    /\ session = Idle /\ answered = 0 /\ codes = CodesOf(nvs)

Boot == \E b \in Builds, checked \in BOOLEAN : Open(b, checked) /\ UNCHANGED <<session, answered, codes>>

Guess ==
    /\ power = "on" /\ call = None /\ session.pc = "idle"
    /\ LoadVerifier \notin {None, Corrupt}
    /\ LoadFailures # Corrupt /\ LoadFailures < Limit
    /\ session' = [pc |-> "guess", verifier |-> LoadVerifier, failures |-> LoadFailures]
    /\ UNCHANGED <<nvs, call, power, answered, codes>>

Wrong ==
    /\ session.pc = "guess"
    /\ StoreFailures(session.failures + 1)
    /\ session' = [session EXCEPT !.pc = "wrong"]
    /\ UNCHANGED <<answered, codes>>

Right ==
    /\ session.pc = "guess"
    /\ StoreFailures(0)
    /\ session' = [session EXCEPT !.pc = "right"]
    /\ UNCHANGED <<answered, codes>>

Rotate(v) ==
    /\ session.pc = "done"
    /\ StoreVerifier(v)
    /\ session' = [session EXCEPT !.pc = "rotate"]
    /\ codes' = codes \cup {v}
    /\ UNCHANGED answered

Close == session.pc = "done" /\ session' = Idle /\ UNCHANGED <<nvs, call, power, answered, codes>>

\* The firmware beside the session names the device.
Rename(v) ==
    /\ session.pc = "idle"
    /\ Put(NameKey, v)
    /\ UNCHANGED <<session, answered, codes>>

RemoveName == session.pc = "idle" /\ Remove(NameKey) /\ UNCHANGED <<session, answered, codes>>

Removing == PutRemoves /\ UNCHANGED <<session, answered, codes>>

\* The put is done, and with it the session goes on.
Stored ==
    /\ PutSets
    /\ session' = IF session.pc = "right" THEN [session EXCEPT !.pc = "done"] ELSE Idle
    /\ answered' = CASE session.pc = "wrong" -> answered + 1
                     [] session.pc = "right" -> 0
                     [] OTHER -> answered
    /\ codes' = IF session.pc = "rotate" THEN {call.value} ELSE codes

StoringFails == PutFails /\ session' = Idle /\ UNCHANGED <<answered, codes>>

PowerCut == Cut /\ session' = Idle /\ UNCHANGED <<answered, codes>>

\* The portal writes the owner's settings whole.
Flash(m) ==
    /\ power = "off"
    /\ nvs' = m /\ answered' = 0 /\ codes' = CodesOf(m)
    /\ UNCHANGED <<call, power, session>>

\* A record comes to another length.
Wear(k, v) ==
    /\ power = "off" /\ nvs[k].blob # None
    /\ nvs' = [nvs EXCEPT ![k].blob = v]
    /\ UNCHANGED <<call, power, session, answered, codes>>

Next ==
    \/ Boot \/ Guess \/ Wrong \/ Right \/ Close \/ RemoveName \/ Removing \/ Stored
    \/ StoringFails \/ PowerCut
    \/ \E v \in Verifiers : Rotate(v)
    \/ \E v \in Names : Rename(v)
    \/ \E m \in Images : Flash(m)
    \/ \E k \in {VerifierKey, FailuresKey}, v \in Worn : Wear(k, v)

Spec == Init /\ [][Next]_vars

-----------------------------------------------------------------------------
TypeOK ==
    /\ nvs \in [Keys -> Entries]
    /\ call \in Calls \cup {None}
    /\ power \in {"off", "denied", "on"}
    /\ session \in [pc : {"idle", "guess", "wrong", "right", "done", "rotate"},
                    verifier : Verifiers \cup {None}, failures : 0 .. Limit]
    /\ answered \in Nat
    /\ codes \subseteq Verifiers

\* However often the device is restarted, its power fails, its store errs or
\* wears: no more than Limit wrong codes in a row are answered before a right
\* one or the owner's computer.
GuessesAreLimited == answered <= Limit

\* A guess is checked against the code given last, whole: once store_verifier
\* returned the code before is dead, and a damaged record is no code.
CodeIsCurrent == session.pc \in {"guess", "wrong", "right", "done"} => session.verifier \in codes

\* The store keeps the contract the records rely on.  In particular a cut in
\* a put loses no value the device had put itself, and a value removed does
\* not come back as the one of the other type behind it.
KeepsContract == Contract!Spec
=============================================================================
