# rusty_esp_mid in TLA+

`rusty_esp_mid` is the identity of a Janus device: a P-256 key minted on the
chip whose public half is the device's `did:mata`, the owner's grant the device
follows, the proof it gives of both on the local network, and the flash stores
all of this lives in. This directory models the parts of it that keep state,
model-checks them with TLC, and proves the main safety properties with TLAPS.

Paths below are relative to the repository; `core/` is
`crates/rusty_esp_mid-core/src/` and `esp/` is `crates/rusty_esp_mid-esp/src/`.

## The system

| Part | Source | State it keeps | Operations |
|---|---|---|---|
| Settings adoption | `core/settings_adoption.rs` | settings: `adopt`; identity: `mid.adopt`, `mid.adopt.kind`, `mid.owner`, `mid.owner.prov` | `apply` at boot, `forget`, `stored` |
| Adoption grant | `core/adoption.rs` | none (the pin is its caller's) | `Adoption::accept`, encode, decode, sign |
| Device key | `core/key.rs` | `mid.devkey`, `mid.devpub`, one remembered signature per name | load, generate, store, sign, sign remembered |
| Nonce window | `core/nonce.rs` | a ring of N nonces in RAM | `check_and_insert`, `clear` |
| Sealed store | `core/seal.rs` | any key of the store underneath | `get`, `put`, `remove`, `seal_in_place` |
| Status | `core/status.rs` | none | `StatusDocument::plain`, `signed`, `StatusProof::verify` |
| Partition table and flash window | `esp/hal/partitions.rs`, `flash.rs`, `shared.rs` | the flash | `find_partition`, `read`, `write`, `erase_page` |
| Track A store | `esp/idf/nvs.rs` | ESP-IDF NVS | `get`, `put`, `remove`, the refusal of plaintext |
| Setup records | `core/setup.rs` | settings: the verifier and the failure count | load and store each of them |
| Signed messages | `core/kms.rs`, `manifest.rs`, `setup.rs` (reply), `status.rs`, `token.rs`, `roster.rs`, `jws.rs`, `signer.rs` | none | canonical bytes, sign, `verify_prehash` |
| DID, capability | `core/did.rs`, `cap.rs` | none | parse, write, satisfy |
| Random sources, sealing key | `esp/hal/rng.rs`, `seal.rs`, `idf/rng.rs` | none | one draw, one derivation |
| Key bench | `firmware/xiao-s3-keys` | none | measures the above |
| Curve arithmetic | `vendor/p256`, `vendor/primeorder` | none | third-party code with a local patch |

How they meet: the firmware finds its partition, opens a store on it (sealed or
not), loads or mints the key, then calls `apply` before any network starts. The
mesh may bring an adoption later (`accept`, and the mesh's own writes); a hand
on the device may ask it to forget. `/v1/status` reads the identity store
(`stored`) and signs what it found over the verifier's nonce. The calls are
synchronous and the device has one thread: what makes them hard is not the
scheduler but the power, which may fail between any two writes and, on the Track
B store, inside a replace (`docs/LEDGER.md`, "What this is not"); reads and
writes that return errors; entries left by another boot, another chip or a
computer; and a network that delays, repeats and drops answers.

What makes each part correct:

- *adoption*: a pinned device follows only its owner and only forwards; an
  interrupted storing is completed or leaves something harmless; what is
  presented is backed by what is pinned; settings are taken once.
- *device key*: one identity for as long as the store lives; no failure mints a
  second one; the caches change the cost of an answer and never the answer.
- *nonce window*: exactly the last N nonces count, wherever the ring stands.
- *sealed store*: a read returns the value put under that name, none or an
  error; a pass that seals old values says so only of what is sealed, and what it
  may lose it reports.
- *flash window*: no offset or length reaches outside the partition.
- *status*: a verifier that asks with a fresh nonce learns what was true since
  it asked.
- *signed messages*: one key signs many formats, and a signature is taken for
  one message only; a DID has one spelling; a sign-in was asked for.
- *capabilities*: a grant read from its bytes allows what its owner wrote.
- *Track A store and setup records*: a put that is cut loses no value of the
  device's own; guesses at the setup code stay limited whatever is cut or worn.

`PROJECT.json` lists the hazards by line, with the property that would notice
each one going wrong.

## Modules

| Module | Models | State and actions |
|---|---|---|
| `OwnerBinding` | what adoption promises | `bound` is the pin; bind, renew, release |
| `SettingsAdoption` | `apply`, `forget`, `stored`, `accept` and the mesh's writes | one variable per key of the two stores; one action per `put`/`remove` (`PutAdoption` ... `ClearSettings`, `ForgetAdoption` ... `ForgetOwner`); `pc` is the next write |
| `Capability` | `Cap::parse`, `satisfies`, `any_satisfies` | operators on byte strings, used by `AdoptionWire` |
| `Digits` | numbers and their digits: `to_be_bytes`, `from_be_bytes`, base58's numerals | recursive functions, used by `Did` and `AdoptionWire` |
| `AdoptionWire` | `validate`, `encode`, `sign_into`, `decode` and their readers, `verify_signature`, `grants` | the fields signed, the bytes and how much of them was damaged; writing joins the pieces of a grant (`Pieces`), reading scans its parts one after the other (`Scan`) |
| `DeviceKey` | `load`, `load_cached`, `load_or_generate(_cached)`, `sign_prehash_cached` | one variable per stored key; a boot is `Boot`, one of the `Load*`, the draws, `Store`, `StorePub` |
| `RecentNonces` | what a nonce window promises | the last N nonces as a sequence |
| `NonceWindow` | the ring | `seen`, `len`, `next` as in the struct |
| `SealedKv` | the sealing wrapper, the pass over old clear values, the chip's sealing key | `inner` maps each name to a clear or sealed value; a boot derives the key of an eFuse block, or none; `seal_in_place` takes a list of keys and one step per key |
| `Did` | the texts of a DID: `from_pubkey`, writing, parsing | operators; base58 is a numeral behind one zero digit per leading zero byte |
| `SignedMessages` | what a device's and a maker's key sign, and `verify_prehash` | who signed what, the signatures in circulation, the sign-in tokens asked for |
| `KvContract` | what a store promises | the values, the keys the device put itself, the put under way |
| `EspNvs` | `EspNvsKv` over typed NVS entries | per key a blob and a string; a put is `PutRemoves` and `PutSets`, which may fail or be cut |
| `SetupRecords` | the verifier and failure count of the setup session over `EspNvs` | the session's step, with a guess counted before it is answered |
| `PartitionFlash` | `find_partition`, `PartitionFlash`, `SharedPartition` | the table, the open handles and the addresses the last access reached; what the flash holds is left out |
| `StatusProof` | devices that answer, verifiers that ask, the network | `bodies` is what is under way; answering is two steps, reading the store and signing |

Each `MC*` module gives one of them small constants, and each `*_proofs` module
holds the theorems of the module it is named after; `Messages_proofs` holds those
of `SignedMessages` and `AdoptionWire`, which share the lemmas about digits and
sequences. Operators marked *variant* are plausible mistakes in the
code (a dropped comparison, a missing write, a step too far): substituting one
for the operator it stands before breaks a property, which shows that the
property watches that line.

### What is abstracted

- A grant is a record of what the code tells apart: its form, the device and
  owner it names, its roster version, its expiry, whether its signature holds.
  `form = "malformed"` stands for every structural refusal of
  `check_statement`, among them the issuer that is not the owner; a v1
  envelope's owner is one field, where the bytes hold a DID text and a key that
  `accept` does not compare.
- Cryptography is symbolic. A signature is its signer and message, an HMAC the
  secret it was made under, a sealed value opens under its own cipher and name,
  SHA-256 tells all inputs apart. JSON, base64url and the upstream roster's bytes
  are constants that tell their inputs apart; the integers' big-endian bytes are
  constants of fixed width that do.
- `stored` and the RAM half of `apply` read the store in one step: nothing runs
  between those reads. Each write is a step of its own.
- A put of the sealed store that is cut or fails may lose any value it would have
  replaced. Of the stores underneath, Track A loses only a string
  (`esp/idf/nvs.rs:205-209`, modelled step by step in `EspNvs`) and Track B
  documents the loss for a cut; `SealedKv` knows no types and allows both.
- What is not in the repository is taken from how it is used: the store
  (`rusty_esp_core::hal::Kv`) puts, gets, removes and may fail; the mesh leaves
  no kind key, then stores the envelope, then the pin `accept` returned; a
  verifier checks what `status.rs` says one checks; the setup session writes
  its count before it answers a guess and reads a corrupt count as locked; NVS
  finds an entry by key and type and replaces a blob at once or not at all.

## Runs

| Run | Module | Shows |
|---|---|---|
| `adoption_atomic` | `MCSettingsAdoption` | On a store that never loses a value in a replace, with errors, cuts, reflashes and the mesh: the grant backs the pin, a redo is admitted, the owner stays the first one, and the pin implements `OwnerBinding` |
| `adoption_held` | `MCSettingsAdoption` | On a store that may lose a value in a replace, with no other error, and a deployer who waits until the settings are taken: no cut rebinds, unmarks or ages the grant, and what was begun is completed (liveness) |
| `adoption_wire` | `MCAdoptionWire` | What is signed fits its buffer and reads back as it was signed; damaged bytes are refused or are the one encoding of what they read as; a grant allows exactly what its owner's capabilities say |
| `device_key` | `MCDeviceKey` | One identity across failing boots; nothing minted over; caches transparent and filled |
| `nonce_window` | `MCNonceWindow` | The ring implements `RecentNonces` |
| `sealed_kv` | `MCSealedKv` | A read never returns another value, whichever chip's key the board boots with; a pass that returns its count left no clear value under the keys it was given, but for one that begins with the magic; a pass changes no value a reader finds and loses none but the one whose put was cut or failed, and then returns no count |
| `partition_flash` | `MCPartitionFlash` | Accesses stay inside their own partition, also where partitions overlap or sums pass the last address |
| `status_proof` | `MCStatusProof` | What a verifier believes was held since it asked; every answer bears itself out |
| `signed_messages` | `MCSignedMessages` | Of all messages of seven kinds a signature is taken for the one its signer meant, in one form; DIDs have one spelling; a sign-in that is believed was asked for, and its window does not end before it begins |
| `setup_records` | `MCSetupRecords` | Guesses stay limited and are checked against the code in force through cuts, failures, wear and the portal's images; `EspNvs` implements `KvContract` |
| `adoption_forget_cut`, `adoption_window` | `MCSettingsAdoption` | Violations, see *Findings* |

Two runs end in a violation: there the code does not do what a doc comment
says. They are discussed under *Findings*.

### Bounds

- *Adoption*: two owners, two devices, roster versions 0 to 2, one expiry. Two
  owners are what a rebinding needs, three versions give an older, an equal and
  a newer grant on each side of a pinned one. Boots and deliveries are not
  bounded: the state space is finite without.
- *Adoption wire*: bytes of two bits under two-byte prefixes, two of them the
  separators of a capability; a text limit of 5, enough for a capability with a
  scope, and two capabilities, fewer than the count byte holds, as 32 are; keys,
  numbers and signature of one byte. What is asked of a grant: the same
  capability, with and without a scope, other scopes, and strings with missing,
  empty, repeated or misplaced parts. Grants at each limit
  and past it; buffers that take just the canonical bytes, just the signed ones,
  and the oversized grant as well; up to two bytes changed, lost or added.
- *Device key*: two secrets (the device's and another one provisioned), two
  messages under one name, three draws in place of `GENERATE_ATTEMPTS` = 8:
  one that succeeds at once, one after a bad draw, and giving up.
- *Nonce window*: N = 3 and five nonces, the all-zero one among them: two more
  than fit, so that eviction wraps past the end of the ring.
- *Sealed store*: two names; this chip's key block, another chip's and one not
  burned for the purpose; lists of both names in either order, one name, a name
  twice and none; values of length 0, 256, 257
  and 289 (the sealable range's ends and one more byte than each buffer takes)
  and one that begins with the magic.
- *Partition flash*: five-bit addresses in place of 32, a chip of 16, pages of
  4 and words of 2; tables with two partitions that overlap, with one past the
  chip, at and past the last address, out of line, empty, behind the table's end and behind a corrupt
  entry.
- *Status*: two devices, two nonces, one grant to have and to lose, at most two
  answers on the network at a time (`MaxBodies`).
- *Signed messages*: two keys of two bytes in base 3 (four points, so that some
  texts name no key used), lengths up to 8 in place of 65,535, times 0 to 3 in
  place of 64 bits, and at most two messages signed (`MaxSigned`), which is
  what a confusion of two messages needs. The messages come in pairs with the
  same bytes and other borders between the fields, with a field one byte past
  the limit, with other spellings of a DID; domains share their first bytes.
- *Setup records*: verifiers of two bytes, a limit of two failures, names put
  as blobs over strings; images with a code, with another, with none and with
  a record of the wrong length; wear that leaves a record too short or too
  long. The names collide with counts in length, so that a mix-up of keys would
  be read.

Symmetry is used where no temporal property beyond a step is checked: owners;
secrets and messages; devices and nonces.

No run turns deadlock checking off: every modelled part always has something it
may do.

### Fairness

Only `SettingsAdoption` has liveness properties. `FairSpec` asks weak fairness
of the steps the device takes by itself: booting when it has power, and
finishing the `apply`, `forget` or mesh storing it is in, which are straight-line
code on one thread with nothing to wait for. Nothing is asked of the deployer,
the mesh, the hand on the button or the faults. Both properties are conditional
on `CutsStop`: a device whose power fails for ever in the same place is
promised nothing. `BegunIsCompleted` also needs the deployer to leave the
settings alone until they are taken (`SettingsHeld`), and is checked without
store errors: after an error nothing retries until the next boot, and no boot is
owed to a device that runs.

## Proofs

TLAPS checks every theorem for all values of the constants, under the named
assumptions of the modules: types of the constants, and that `None` is not a
value. Those of the byte formats say little more: bytes are numbers (`Byte
\subseteq Nat`), bases are at least 2 and a key has at least one byte; a length
prefix holds the longest field and a count byte the most capabilities
(`MaxField < Base * Base`, `MaxCaps < Base`, in the code 256 and 32 under
65,536 and 256); grants are fields of the struct's types (`GrantsAssumption`); and
`Names` holds whatever a need that is a capability names (`NeedsAssumption`), so
that `Means` speaks of every need asked for. Each proof module states an inductive `IInv`, proves that it holds
initially and is kept by every action, and derives the properties. The type
invariant is part of each `IInv`; `NonceWindow`, `SealedKv`, `PartitionFlash`,
`StatusProof` and `SetupRecords` leave it to the proof alone.

- `SettingsAdoption_proofs`: `TypeCorrect`, `GrantAlwaysBacksPin` and
  `RedoNeverRefused` hold with or without an atomic replace. `GrantBacksPin`
  alone is not inductive: `IInv` adds what RAM holds between two writes (`Taken`:
  the container being stored passed the checks against the pin that is still in
  the store, and after the first write it is the stored grant), that a refusal
  in hand is one the checks gave (`Refused`), and that a stored grant names this
  device. `Binding` (a refinement of `OwnerBinding`, action by action) and
  `Rebinding` assume `AtomicReplace`; without it the run `adoption_window` shows
  why.
- `SettingsAdoption_proofs`, on what is in the settings: `SettingsHoldWhatIsStored`
  (`Storing`: until the last write of a storing the container it stores is still
  in the settings) holds without hypotheses and carries the rest.
  `SettingsAreCleared` assumes a store without errors (`~Faults`), not the
  deployer's patience (`TakenOnce`). `PinsAreMarked` assumes both: wherever the
  storing of a statement was cut, what would write the mark is still in the
  settings and will be admitted again (`MarkDue`). `HeldIsNeverRebound` and
  `GrantsOnlyAdvance` assume `SettingsHeld` and no mesh (`Envelopes = {}`), and
  neither an atomic replace nor a store without errors, so they say more than the
  run `adoption_held` checks: a pin that a cut took away waits in the settings as
  the statement of the same owner (`ClaimWaits`), and a grant newer than the pin
  is the one in the settings (`GrantAhead`).
- `DeviceKey_proofs`: `TypeCorrect`, `DidIsStable`, `RunningKeyStays`,
  `PublicKeyIsSecrets`, `SignaturesAreFresh`, `MintsOverNothing`,
  `PublicKeysAreRemembered`. `IInv` adds
  that every stored entry was made from the secret its HMAC is under
  (`EntriesRight`), what is in RAM at each point of a boot (`KeyAtHand`), and
  that the store holds the identity first announced or damage, never another one
  (`Identity`).
- `NonceWindow_proofs`: `TypeCorrect`, `WindowRemembersLastN` and `RingIsQueue`,
  for every N, 0 included. `Ring` relates each nonce's age to its slot, counted
  back from the cursor modulo N, both ways; `InsertAppends` follows from it: the
  slot overwritten is the oldest one, so an insertion is an append behind the
  rest of the queue. `RingIsQueue` is the refinement of `RecentNonces`.
- `PartitionFlash_proofs`: `TypeCorrect` and `AccessesStayInside` for every
  table, page size and width. Handles are entries
  found before the table's end, and a sum that passes the checks cannot have
  wrapped.
- `StatusProof_proofs`: `TypeCorrect`, `BeliefsAreFresh` and `AnswersBearOut`.
  `Honest` says that each answer under way was made from a grant the device held
  since that nonce was drawn, which stays true while nonces and history only
  grow.
- `Messages_proofs`, signed messages: `TypeCorrect`, `OnlyMeantIsAccepted`,
  `SignaturesAreUnique` and `OnlyAskedSignIns`. The core is `CanonicalApart`:
  equal bytes are equal messages. It reads two messages from the left; the
  domains differ somewhere, so the kinds agree, then each prefix fixes the border
  of its field. One of the two messages must keep the formats' limits and the
  other be signable: a maker's lengths are cut and not checked, and there the
  lengths of the whole messages decide.
- `Messages_proofs`, identities: `KeysAreReadFromTheirTexts` (what is written for a
  key parses as that key) and `IdentitiesHaveOneSpelling`, for all bases, prefixes
  and curves. A text and a key are digits of one number: `Number` and `Numeral`
  undo each other on digits without leading zeros (`NumeralReads`,
  `NumeralWrites`), and the leading zeros, which `Convert` keeps beside the
  numeral, are as many on both sides (`ConvertBack`).
- `Messages_proofs`, the adoption: `SignedIsReadBack`, `WhatIsReadIsEncoded`,
  `WhatIsAskedIsWritten`, `WhatIsMeantIsGranted` and `WireIsTypeCorrect`, for all
  fields, widths, limits, names and damage. Three lemmas carry them. `SignedIsRead`:
  each piece that encode writes is a part that decode accepts (`PiecesFit`), the
  bytes of a part fix where it ends (`EndOfFits`, `EndOfFinds`), so scanning the
  joined pieces finds them again (`FlatStarts`, `ScanFinds`) with the fields they
  were made of. `ReadingIsEncoding`, the other way round: parts that a scan found up
  to the end of the bytes are, one for one, the pieces of the fields they are read
  as (`TextFound`, `FixedFound`), and joined they are the bytes (`FlatOfParts`).
  `EncodeLength`: the lengths of the pieces add up to `CanonicalLen`. `MeansIs` does
  the capabilities: where a separator stands first, the two halves determine the
  text and the text the halves (`Halves`, `SplitOf`). The invariant `WireInv` then
  has little to say: undamaged bytes are the signed ones, and an answer is the one
  decode gives for the bytes as they are; TLC finds it true on `adoption_wire` too.
- `SetupRecords_proofs`: `TypeCorrect`, `LimitHolds`, `CodesAreCurrent` and
  `KeepsTheContract`. `IInv` says that no key holds both types (so that a put
  over a value of the device's own never takes the removing step, and an erased
  entry has nothing behind it) and that the count on the flash is never behind
  the wrong guesses answered. `KeepsTheContract` maps every step to one of
  `KvContract` or to a stutter.
- `SealedKv_proofs`: `TypeCorrect`, `ReadsWhatWasWritten`, `SealedIsSaidTruly`
  and `SealingKeepsValues`. `Honest` says that what lies under a name, unless it
  was misplaced there, is the value last written; `Pass` that each key asked for
  is still to come or is `Done`: absent, sealed, or clear and beginning with MAGIC.
  The last is the one exception in `SealedIsSaidTruly`, which looks at what is
  stored and not at the code's own test. `SealingKeepsValues` says of every value a
  reader finds that a step of the pass leaves it, unless it is the clear value being
  put back: a cut or an error may take that one, and the step then ends the pass.

The models' recursive functions (`Number`, `Numeral`, `Scan`, the flattening of a
sequence) are unfolded by hand. The library's induction takes an operator as a
parameter and cannot be used; here induction is over sets of numbers
(`Everywhere`), which follows from the least number outside the set (`Least`), and
that from the well-foundedness of `<`. A function defined by recursion exists
because each of its beginnings does (`ValuesExist`, `ScanExists`, `JoinedExist`).

Only model-checked: the two liveness properties, `BegunIsCompleted` and
`SettingsEmptied` (fairness is out of the prover's reach), and what the two
violation runs refute. All invariants and action properties of the passing runs
are stated by a theorem.

## Findings

Each run checks one sentence of the documentation.

- `adoption_forget_cut`: `forget` removes the grant first and the pin last. A
  cut in between leaves a device that boots pinned to an owner it holds no grant
  from, and presents itself as unadopted; the doc comment says that it is never
  left so without saying so. Only a second `forget` helps.
- `adoption_window`: on the Track B store a cut inside the replace of the pin
  loses it, and a statement of another owner written before the next boot is
  taken on first use. "Never silently rebound" needs a replace that keeps the
  old value, or a second copy.

Observations no run is kept for:

- `apply` puts the pin before its provisional mark. A cut in between, then a
  settings rewrite without an adoption, leaves an unmarked pin from a structural
  check, where `core/settings_adoption.rs:11-13` says that it is marked. Writing
  the mark before the pin would close it. `StatementPinMarked` is therefore
  checked with a deployer who leaves the settings alone until they are taken.
- `seal_in_place` ends at the first clear value longer than 256 bytes and leaves
  the keys after it in the clear (`core/seal.rs:107`); it returns an error then.
- `seal_in_place` on Track A can lose what it was to protect: the owner's settings
  are strings, `EspNvsKv::put` removes a string before it sets the blob
  (`esp/idf/nvs.rs:205-209`), and a blob that does not fit any more or a cut in
  between leaves neither. The pass ends with the error and the keys after it stay
  clear; the value, a Wi-Fi passphrase say, has to be provisioned again. Hence the
  exception in `SealingLosesNothing`.
- A value written in the clear that begins with the four magic bytes counts as
  sealed: `seal_in_place` passes it over and still returns its count
  (`core/seal.rs:89`, `:105`), where its doc says that each of the keys still in
  the clear is sealed (`:97`). The module doc rules such values out ("no setting
  string holds" the leading NUL, `:16-17`), which is true of strings and only
  likely of binary values such as keys; `SealedMeansSealed` names them as its
  exception.
- A store error makes `apply` return with the container still in the settings,
  where the module doc says it is removed whatever happens to it
  (`core/settings_adoption.rs:6`, `:304`, `:321`); `SettingsClearedByBoot` is
  therefore checked without errors.
- A clear value that begins with the four magic bytes reads as an error, also in
  a store built without a key, whose doc says that it passes every value through
  (`core/seal.rs:20`, `:139`).
- The comment on `lp` (`core/kms.rs:105`) says that saturating can never make two
  different messages hash alike. It can, for fields past 65,535 bytes (the pair
  in `MCSignedMessages`); what prevents it is `validate`, as the variant
  `ValidAnyLength` of `AcceptedWasMeant` shows. `maker_prehash` narrows its
  lengths with nothing in front: two attestations past the limit may collide,
  one past it and one within it may not.
- `store_failures` on a Track B store whose replace is not atomic: a cut may lose
  the count, and an absent count is none. `SetupRecords` is checked on Track A,
  where a blob is replaced at once.

## Not modelled

- The random sources: one call to the hardware each; `DeviceKey` and `SealedKv`
  model what their callers do with an answer and with a refusal.
- ECDH, the facade, the crate roots and the key bench: no state or control of
  their own.
- The JSON shapes of the kms envelopes and of the token's optional claims: serde
  field by field, without a decision.
- Elliptic-curve arithmetic, the vendored crates and their tools: third-party
  code far outside what a state machine says anything about.
- The store `NvsKv` of Track B, with the index that two shared handles each keep
  for themselves, and the setup session: other repositories.

## Plan

Done, in the order of what can go wrong for an owner: `OwnerBinding` and
`SettingsAdoption` with their proofs; `Capability` and `AdoptionWire`;
`DeviceKey`; `NonceWindow` over `RecentNonces`; `SealedKv`; `PartitionFlash`;
`StatusProof`; `Did` and `SignedMessages`; `KvContract`, `EspNvs` and
`SetupRecords`; proofs for all of these, the wire format included.

Left:

1. Composition: `StatusProof` over `SettingsAdoption`, so that what a device
   holds is derived from `apply`, `forget` and the mesh with their cuts.
2. `SettingsAdoption` over `KvContract`, in place of the replace it assumes.
