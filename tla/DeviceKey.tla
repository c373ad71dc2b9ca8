------------------------------ MODULE DeviceKey ------------------------------
(***************************************************************************)
(* The device's key: minted once, loaded at every boot, with the public    *)
(* key and the signatures a firmware makes unchanged at every boot         *)
(* remembered beside it (load_or_generate, load_or_generate_cached,        *)
(* sign_prehash_cached).                                                   *)
(*                                                                         *)
(* A secret stands for itself and for its public key: a public key is      *)
(* named by the secret it belongs to, a signature by its signer and what   *)
(* it signs, and an HMAC by the secret it was made under.                  *)
(***************************************************************************)
EXTENDS Naturals

CONSTANTS
    Secrets,          \* valid 32-byte scalars
    Damaged,          \* a stored secret of another length, or not a scalar
    Names,            \* the store keys signatures are remembered under
    Prehashes,        \* what is signed
    GenerateAttempts, \* draws before giving up (8)
    None,             \* an absent key
    Faults            \* a read, a write or the generator may fail

ASSUME ConstantsAssumption ==
    /\ Damaged \notin Secrets /\ None \notin Secrets \cup {Damaged}
    /\ GenerateAttempts \in Nat \ {0}
    /\ Faults \in BOOLEAN

Signatures == [signer : Secrets, prehash : Prehashes]
PubEntries == [point : Secrets, tag : Secrets]
SigEntries == [prehash : Prehashes, sig : Signatures, tag : Secrets]
Keys == [secret : Secrets, public : Secrets]

PendingWrites == [name : Names, entry : SigEntries]
Answers == [asked : Prehashes, sig : Signatures]

ASSUME NoneAssumption ==
    None \notin PubEntries \cup SigEntries \cup Keys \cup PendingWrites \cup Answers

VARIABLES
    mid_devkey,  \* store: the secret
    mid_devpub,  \* store: the public key and its HMAC
    remembered,  \* store: a signature and its HMAC, under each name
    pc,          \* where the device is
    cached,      \* this boot goes through load_cached
    attempts,    \* draws made
    key,         \* RAM: the key being stored or in use
    pending,     \* RAM: the entry sign_prehash_cached writes, and its name
    signed,      \* the last signature returned, and what was asked for
    announced    \* history: the first identity used since the secret was provisioned

store == <<mid_devkey, mid_devpub, remembered>>
vars == <<mid_devkey, mid_devpub, remembered, pc, cached, attempts, key, pending,
          signed, announced>>

Steps == {"off", "load", "draw", "store", "store_pub", "running", "put_sig", "failed"}

-----------------------------------------------------------------------------
DeviceKeyOf(secret) == [secret |-> secret, public |-> secret]

PubEntry(k) == [point |-> k.public, tag |-> k.secret]

\* (variant: the HMAC not compared)
PubTakenUntagged(entry, secret) == entry # None

\* The cached public key is taken when its HMAC under this secret holds.
PubTaken(entry, secret) == entry # None /\ entry.tag = secret

SignPrehash(k, h) == [signer |-> k.secret, prehash |-> h]

SigEntry(k, h) == [prehash |-> h, sig |-> SignPrehash(k, h), tag |-> k.secret]

\* (variant: the prehash not compared)
SigTakenAnyPrehash(entry, k, h) == entry # None /\ entry.tag = k.secret

\* A remembered signature is taken for this prehash and under this secret.
SigTaken(entry, k, h) == entry # None /\ entry.prehash = h /\ entry.tag = k.secret

-----------------------------------------------------------------------------
Init ==
    /\ mid_devkey = None /\ mid_devpub = None
    /\ remembered = [n \in Names |-> None]
    /\ pc = "off" /\ cached = FALSE /\ attempts = 0
    /\ key = None /\ pending = None
    /\ signed = None /\ announced = None

Goto(from, to) == pc = from /\ pc' = to

\* The call returned the key in RAM: the device is this identity from now on.
Ready(k) ==
    /\ pc' = "running"
    /\ key' = k
    /\ announced' = IF announced = None THEN k.public ELSE announced

\* The call returned an error, and no key.
Fail == pc' = "failed" /\ key' = None /\ UNCHANGED <<store, cached, attempts, pending, signed, announced>>

Boot(withCache) ==
    /\ Goto("off", "load")
    /\ cached' = withCache /\ attempts' = 0
    /\ UNCHANGED <<store, key, pending, signed, announced>>

LoadNothing ==
    /\ Goto("load", "draw")
    /\ mid_devkey = None
    /\ UNCHANGED <<store, cached, attempts, key, pending, signed, announced>>

\* load: the public key is derived.
LoadPlain ==
    /\ pc = "load" /\ ~cached
    /\ mid_devkey \in Secrets
    /\ Ready(DeviceKeyOf(mid_devkey))
    /\ UNCHANGED <<store, cached, attempts, pending, signed>>

\* load_cached: the public key beside the secret is taken.
LoadCached ==
    /\ pc = "load" /\ cached
    /\ mid_devkey \in Secrets
    /\ PubTaken(mid_devpub, mid_devkey)
    /\ Ready([secret |-> mid_devkey, public |-> mid_devpub.point])
    /\ UNCHANGED <<store, cached, attempts, pending, signed>>

\* (variant: the derived public key is not written back)
LoadDeriveForgets ==
    /\ pc = "load" /\ cached
    /\ mid_devkey \in Secrets
    /\ PubTaken(mid_devpub, mid_devkey) => Faults
    /\ Ready(DeviceKeyOf(mid_devkey))
    /\ UNCHANGED <<store, cached, attempts, pending, signed>>

\* load_cached: no entry, one of another secret, or one that cannot be read.
LoadDerive ==
    /\ Goto("load", "store_pub") /\ cached
    /\ mid_devkey \in Secrets
    /\ PubTaken(mid_devpub, mid_devkey) => Faults
    /\ key' = DeviceKeyOf(mid_devkey)
    /\ UNCHANGED <<store, cached, attempts, pending, signed, announced>>

\* (variant: a secret that is not whole is minted over)
LoadDamagedMints ==
    /\ Goto("load", "draw")
    /\ mid_devkey = Damaged
    /\ UNCHANGED <<store, cached, attempts, key, pending, signed, announced>>

LoadDamaged == pc = "load" /\ mid_devkey = Damaged /\ Fail

\* (variant: a read that fails counts as an absent secret)
LoadFailsMints ==
    /\ Faults /\ Goto("load", "draw")
    /\ UNCHANGED <<store, cached, attempts, key, pending, signed, announced>>

LoadFails == Faults /\ pc = "load" /\ Fail

-----------------------------------------------------------------------------
(* generate, store. *)

Draw(s) ==
    /\ Goto("draw", "store")
    /\ key' = DeviceKeyOf(s)
    /\ UNCHANGED <<store, cached, attempts, pending, signed, announced>>

\* (variant: one draw too many)
DrawInvalidOnceMore ==
    /\ pc = "draw" /\ attempts < GenerateAttempts
    /\ attempts' = attempts + 1
    /\ UNCHANGED <<store, pc, cached, key, pending, signed, announced>>

\* A draw that is zero or not below the group order; the last one allowed
\* is an error.
DrawInvalid ==
    /\ pc = "draw" /\ attempts + 1 < GenerateAttempts
    /\ attempts' = attempts + 1
    /\ UNCHANGED <<store, pc, cached, key, pending, signed, announced>>

DrawGivesUp == pc = "draw" /\ attempts + 1 = GenerateAttempts /\ Fail

\* The generator refuses: the radio is not up yet, say.
RngFails == Faults /\ pc = "draw" /\ Fail

Store ==
    /\ pc = "store"
    /\ mid_devkey' = key.secret
    /\ IF cached
       THEN pc' = "store_pub" /\ UNCHANGED <<key, announced>>
       ELSE Ready(key)
    /\ UNCHANGED <<mid_devpub, remembered, cached, attempts, pending, signed>>

\* (variant: the minted key is used although it could not be stored)
StoreFailsReady ==
    /\ Faults /\ pc = "store"
    /\ Ready(key)
    /\ UNCHANGED <<store, cached, attempts, pending, signed>>

StoreFails == Faults /\ pc = "store" /\ Fail

StorePub ==
    /\ pc = "store_pub"
    /\ mid_devpub' = PubEntry(key)
    /\ Ready(key)
    /\ UNCHANGED <<mid_devkey, remembered, cached, attempts, pending, signed>>

\* Best effort: a failed write is not an error.
StorePubFails ==
    /\ Faults /\ pc = "store_pub"
    /\ Ready(key)
    /\ UNCHANGED <<store, cached, attempts, pending, signed>>

-----------------------------------------------------------------------------
(* sign_prehash_cached, in a running device. *)

Returned(h, sig) == signed' = [asked |-> h, sig |-> sig]

SignRemembered(n, h) ==
    /\ pc = "running"
    /\ SigTaken(remembered[n], key, h)
    /\ Returned(h, remembered[n].sig)
    /\ UNCHANGED <<store, pc, cached, attempts, key, pending, announced>>

\* Nothing remembered that fits, or it cannot be read: sign and remember.
SignAfresh(n, h) ==
    /\ Goto("running", "put_sig")
    /\ SigTaken(remembered[n], key, h) => Faults
    /\ pending' = [name |-> n, entry |-> SigEntry(key, h)]
    /\ UNCHANGED <<store, cached, attempts, key, signed, announced>>

Remember(stored) ==
    /\ Goto("put_sig", "running")
    /\ remembered' = IF stored THEN [remembered EXCEPT ![pending.name] = pending.entry]
                     ELSE remembered
    /\ Returned(pending.entry.prehash, pending.entry.sig)
    /\ pending' = None
    /\ UNCHANGED <<mid_devkey, mid_devpub, cached, attempts, key, announced>>

PutSig == Remember(TRUE)
PutSigFails == Faults /\ Remember(FALSE)

-----------------------------------------------------------------------------
(* The power, the flash and the bench. *)

PowerGone == pc' = "off" /\ key' = None /\ pending' = None /\ signed' = None
             /\ UNCHANGED <<cached, attempts>>

PowerCut == pc # "off" /\ PowerGone /\ UNCHANGED <<store, announced>>

\* The power fails inside a put over a stored entry and both are gone.  The
\* secret is only ever put where nothing was.
CutInReplace ==
    /\ PowerGone
    /\ \/ /\ pc = "store_pub" /\ mid_devpub # None
          /\ mid_devpub' = None
          /\ UNCHANGED <<mid_devkey, remembered>>
       \/ /\ pc = "put_sig" /\ remembered[pending.name] # None
          /\ remembered' = [remembered EXCEPT ![pending.name] = None]
          /\ UNCHANGED <<mid_devkey, mid_devpub>>
    /\ UNCHANGED announced

\* The stored secret goes bad.
Damage ==
    /\ pc = "off" /\ mid_devkey # None
    /\ mid_devkey' = Damaged
    /\ UNCHANGED <<mid_devpub, remembered, pc, cached, attempts, key, pending, signed, announced>>

\* Another secret is provisioned under the same key, the entries beside it
\* left: a new identity, asked for.
Provision(s) ==
    /\ pc = "off"
    /\ mid_devkey' = s /\ announced' = None
    /\ UNCHANGED <<mid_devpub, remembered, pc, cached, attempts, key, pending, signed>>

-----------------------------------------------------------------------------
Next ==
    \/ \E withCache \in BOOLEAN : Boot(withCache)
    \/ LoadNothing \/ LoadPlain \/ LoadCached \/ LoadDerive \/ LoadDamaged \/ LoadFails
    \/ \E s \in Secrets : Draw(s) \/ Provision(s)
    \/ DrawInvalid \/ DrawGivesUp \/ RngFails
    \/ Store \/ StoreFails \/ StorePub \/ StorePubFails
    \/ \E n \in Names, h \in Prehashes : SignRemembered(n, h) \/ SignAfresh(n, h)
    \/ PutSig \/ PutSigFails
    \/ PowerCut \/ CutInReplace \/ Damage

Spec == Init /\ [][Next]_vars

-----------------------------------------------------------------------------
(* Properties. *)

TypeOK ==
    /\ mid_devkey \in Secrets \cup {Damaged, None}
    /\ mid_devpub \in PubEntries \cup {None}
    /\ remembered \in [Names -> SigEntries \cup {None}]
    /\ pc \in Steps
    /\ cached \in BOOLEAN
    /\ attempts \in 0 .. GenerateAttempts - 1
    /\ key \in Keys \cup {None}
    /\ pending \in PendingWrites \cup {None}
    /\ signed \in Answers \cup {None}
    /\ announced \in Secrets \cup {None}

\* "the DID is stable across reboots and reflashes for as long as the Kv
\* partition survives": a device that runs is the identity it first was,
\* whatever failed, was cut short or could not be read in between.
DidStable == pc \in {"running", "put_sig"} => key.public = announced

\* A device never runs on a key the next boot would not load.
RunningKeyIsStored == pc \in {"running", "put_sig"} => mid_devkey = key.secret

\* The public key in use is the secret's, whatever entry was found beside it.
PublicIsSecrets == key # None => key.public = key.secret

\* A signature returned is the one signing would have made: for what was
\* asked, under the key in use.
SignatureIsFresh ==
    signed # None => signed.sig = [signer |-> key.secret, prehash |-> signed.asked]

\* A board that comes up through the cache finds its public key remembered
\* at the next boot, by whichever way it came up, unless that very write
\* failed.
PublicIsRemembered ==
    [][pc \notin {"running", "put_sig"} /\ pc' = "running" /\ cached =>
           mid_devpub' = PubEntry(key') \/ StorePubFails]_vars

\* The device itself writes a secret only where there is none.
NeverMintsOver ==
    [][pc # "off" /\ mid_devkey' # mid_devkey => mid_devkey = None]_vars
=============================================================================
