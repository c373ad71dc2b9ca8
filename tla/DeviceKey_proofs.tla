--------------------------- MODULE DeviceKey_proofs ---------------------------
(***************************************************************************)
(* DeviceKey for every number of secrets, names and draws, and every       *)
(* schedule of boots, cuts, failed accesses, damage and provisioning.      *)
(*                                                                         *)
(* That a running device is the identity it first was is not inductive:    *)
(* it rests on what the store holds when no key is in RAM (Identity), on   *)
(* a mint starting only over an empty store and on every remembered entry  *)
(* being bound to the secret that made it (EntriesRight).                  *)
(***************************************************************************)
EXTENDS DeviceKey, TLAPS

\* Every entry in the store, and the one about to be written, was made from
\* the secret its HMAC is under.
EntriesRight ==
    /\ mid_devpub # None => mid_devpub.point = mid_devpub.tag
    /\ \A n \in Names : remembered[n] # None =>
           remembered[n].sig = [signer |-> remembered[n].tag, prehash |-> remembered[n].prehash]
    /\ pc = "put_sig" => pending # None /\ key # None
                         /\ pending.entry = SigEntry(key, pending.entry.prehash)

\* The key in RAM, at each point of a boot.
KeyAtHand ==
    /\ pc \in {"store", "store_pub", "running", "put_sig"} <=> key # None
    /\ pc \in {"draw", "store"} => mid_devkey = None

\* The store holds the identity first used, or damage, never another one.
Identity ==
    /\ announced # None => mid_devkey \in {announced, Damaged}
    /\ pc \in {"store_pub", "running", "put_sig"} => mid_devkey = key.secret
    /\ pc \in {"running", "put_sig"} => announced = key.public

Answered == signed # None => pc \in {"running", "put_sig"}

IInv == TypeOK /\ EntriesRight /\ KeyAtHand /\ PublicIsSecrets /\ Identity /\ Answered
        /\ SignatureIsFresh

LEMMA Initially == Init => IInv
<1> SUFFICES ASSUME Init PROVE IInv
    OBVIOUS
<1>1. TypeOK
    <2>1. 0 \in 0 .. GenerateAttempts - 1
        BY ConstantsAssumption
    <2> QED
        BY <2>1 DEF Init, TypeOK, Steps
<1>2. EntriesRight /\ KeyAtHand
    BY DEF Init, EntriesRight, KeyAtHand
<1>3. PublicIsSecrets /\ Identity /\ Answered /\ SignatureIsFresh
    BY DEF Init, PublicIsSecrets, Identity, Answered, SignatureIsFresh
<1> QED
    BY <1>1, <1>2, <1>3 DEF IInv

LEMMA Inductive == IInv /\ [Next]_vars => IInv'
<1> SUFFICES ASSUME IInv, [Next]_vars PROVE IInv'
    OBVIOUS
<1> USE ConstantsAssumption, NoneAssumption
        DEF IInv, TypeOK, Steps, EntriesRight, KeyAtHand, PublicIsSecrets, Identity, Answered,
            SignatureIsFresh, Goto, store, Ready, Fail, Keys, DeviceKeyOf
<1>1. ASSUME NEW withCache \in BOOLEAN, Boot(withCache) PROVE IInv'
    BY <1>1 DEF Boot
<1>2. CASE LoadNothing
    BY <1>2 DEF LoadNothing
<1>3. CASE LoadPlain
    BY <1>3 DEF LoadPlain
<1>4. CASE LoadCached
    BY <1>4 DEF LoadCached, PubTaken, PubEntries
<1>5. CASE LoadDerive
    BY <1>5 DEF LoadDerive
<1>6. CASE LoadDamaged
    BY <1>6 DEF LoadDamaged
<1>7. CASE LoadFails
    BY <1>7 DEF LoadFails
<1>8. ASSUME NEW s \in Secrets, Draw(s) PROVE IInv'
    BY <1>8 DEF Draw
<1>9. ASSUME NEW s \in Secrets, Provision(s) PROVE IInv'
    BY <1>9 DEF Provision
<1>10. CASE DrawInvalid \/ DrawGivesUp \/ RngFails
    BY <1>10 DEF DrawInvalid, DrawGivesUp, RngFails
<1>11. CASE Store
    BY <1>11 DEF Store
<1>12. CASE StoreFails
    BY <1>12 DEF StoreFails
<1>13. CASE StorePub
    BY <1>13 DEF StorePub, PubEntry, PubEntries
<1>14. CASE StorePubFails
    BY <1>14 DEF StorePubFails
<1>15. ASSUME NEW n \in Names, NEW h \in Prehashes, SignRemembered(n, h) PROVE IInv'
    <2>1. remembered[n] \in SigEntries /\ remembered[n].prehash = h
          /\ remembered[n].tag = key.secret
        BY <1>15 DEF SignRemembered, SigTaken
    <2> QED
        BY <1>15, <2>1 DEF SignRemembered, Returned, SigEntries, Answers
<1>16. ASSUME NEW n \in Names, NEW h \in Prehashes, SignAfresh(n, h) PROVE IInv'
    <2>1. key \in Keys
        BY <1>16 DEF SignAfresh
    <2>2. SigEntry(key, h) \in SigEntries
        BY <2>1 DEF SigEntry, SignPrehash, SigEntries, Signatures
    <2>3. [name |-> n, entry |-> SigEntry(key, h)] \in PendingWrites
        BY <2>2 DEF PendingWrites
    <2> QED
        BY <1>16, <2>1, <2>3 DEF SignAfresh, SigEntry
<1>17. ASSUME NEW stored \in BOOLEAN, Remember(stored) PROVE IInv'
    <2>1. /\ pending \in PendingWrites /\ pending.name \in Names /\ key \in Keys
          /\ pending.entry \in SigEntries
          /\ pending.entry.sig = [signer |-> key.secret, prehash |-> pending.entry.prehash]
          /\ pending.entry.tag = key.secret
        BY <1>17 DEF Remember, PendingWrites, SigEntry, SignPrehash
    <2>2. remembered' \in [Names -> SigEntries \cup {None}]
        BY <1>17, <2>1 DEF Remember
    <2>3. signed' \in Answers /\ signed'.sig = [signer |-> key.secret, prehash |-> signed'.asked]
        BY <1>17, <2>1 DEF Remember, Returned, Answers, SigEntries
    <2>4. \A n \in Names : remembered'[n] # None =>
              remembered'[n].sig = [signer |-> remembered'[n].tag, prehash |-> remembered'[n].prehash]
        BY <1>17, <2>1 DEF Remember
    <2> QED
        BY <1>17, <2>2, <2>3, <2>4 DEF Remember
<1>18. CASE PowerCut
    BY <1>18 DEF PowerCut, PowerGone
<1>19. CASE CutInReplace
    BY <1>19 DEF CutInReplace, PowerGone
<1>20. CASE Damage
    BY <1>20 DEF Damage
<1>21. CASE UNCHANGED vars
    BY <1>21 DEF vars
<1> QED
    BY <1>1, <1>2, <1>3, <1>4, <1>5, <1>6, <1>7, <1>8, <1>9, <1>10, <1>11, <1>12, <1>13, <1>14,
       <1>15, <1>16, <1>17, <1>18, <1>19, <1>20, <1>21 DEF Next, PutSig, PutSigFails

\* The inductive invariant holds of every schedule.
THEOREM Invariance == Spec => []IInv
BY Initially, Inductive, PTL DEF Spec

\* key.rs: the store and the key in RAM keep their shapes at every step of a
\* boot, a signature and a power cut.
THEOREM TypeCorrect == Spec => []TypeOK
<1>1. IInv => TypeOK
    BY DEF IInv
<1> QED
    BY <1>1, Invariance, PTL

\* key.rs load_or_generate: the identity is stable for as long as the store
\* survives, whatever failed or was cut short in between.
THEOREM DidIsStable == Spec => []DidStable
<1>1. IInv => DidStable
    BY DEF IInv, Identity, DidStable
<1> QED
    BY <1>1, Invariance, PTL

\* key.rs load_or_generate_cached: no device runs on a key it did not store.
THEOREM RunningKeyStays == Spec => []RunningKeyIsStored
<1>1. IInv => RunningKeyIsStored
    BY DEF IInv, Identity, RunningKeyIsStored
<1> QED
    BY <1>1, Invariance, PTL

\* key.rs load_cached: the public key a device reads back from beside its
\* secret is the one it would derive.
THEOREM PublicKeyIsSecrets == Spec => []PublicIsSecrets
<1>1. IInv => PublicIsSecrets
    BY DEF IInv
<1> QED
    BY <1>1, Invariance, PTL

\* key.rs sign_prehash_cached: a signature that was remembered is the one the
\* running key would make of the message asked for.
THEOREM SignaturesAreFresh == Spec => []SignatureIsFresh
<1>1. IInv => SignatureIsFresh
    BY DEF IInv
<1> QED
    BY <1>1, Invariance, PTL

\* key.rs load_or_generate: the device writes a secret only where there is none.
THEOREM MintsOverNothing == Spec => NeverMintsOver
<1>1. IInv /\ [Next]_vars => [pc # "off" /\ mid_devkey' # mid_devkey => mid_devkey = None]_vars
    BY DEF IInv, KeyAtHand, Next, vars, store, Boot, Goto, LoadNothing, LoadPlain, LoadCached,
       LoadDerive, LoadDamaged, LoadFails, Fail, Draw, Provision, DrawInvalid, DrawGivesUp,
       RngFails, Store, StoreFails, StorePub, StorePubFails, SignRemembered, SignAfresh,
       PutSig, PutSigFails, Remember, PowerCut, PowerGone, CutInReplace, Damage
<1> QED
    BY <1>1, Invariance, PTL DEF Spec, NeverMintsOver

\* key.rs load_cached, load_or_generate_cached: a board that comes up through
\* the cache leaves its public key beside the secret - the entry it took, or
\* the one it wrote - unless that very write failed.
THEOREM PublicKeysAreRemembered == Spec => PublicIsRemembered
<1>1. ASSUME IInv, Next, pc \notin {"running", "put_sig"}, pc' = "running", cached
      PROVE  mid_devpub' = PubEntry(key') \/ StorePubFails
    <2>1. CASE LoadCached
        <3>1. mid_devpub \in PubEntries /\ mid_devpub.tag = mid_devkey
            BY <1>1, <2>1 DEF LoadCached, PubTaken, IInv, TypeOK
        <3>2. mid_devpub = [point |-> mid_devpub.point, tag |-> mid_devkey]
            BY <3>1 DEF PubEntries
        <3> QED
            BY <2>1, <3>2 DEF LoadCached, Ready, PubEntry, store
    <2>2. CASE StorePub
        BY <2>2 DEF StorePub, Ready, PubEntry
    <2>3. LoadCached \/ StorePub \/ StorePubFails
        BY <1>1 DEF Next, Boot, Goto, LoadNothing, LoadPlain, LoadDerive, LoadDamaged, LoadFails,
           Fail, Draw, Provision, DrawInvalid, DrawGivesUp, RngFails, Store, StoreFails,
           SignRemembered, SignAfresh, PutSig, PutSigFails, Remember, PowerCut, PowerGone,
           CutInReplace, Damage
    <2> QED
        BY <2>1, <2>2, <2>3
<1>2. IInv /\ [Next]_vars =>
          [pc \notin {"running", "put_sig"} /\ pc' = "running" /\ cached =>
               mid_devpub' = PubEntry(key') \/ StorePubFails]_vars
    BY <1>1
<1> QED
    BY <1>2, Invariance, PTL DEF Spec, PublicIsRemembered
=============================================================================
