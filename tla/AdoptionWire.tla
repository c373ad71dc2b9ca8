----------------------------- MODULE AdoptionWire -----------------------------
(***************************************************************************)
(* The bytes of an adoption.  An owner's tool encodes and signs a grant    *)
(* into a buffer (AdoptionFields::sign_into); the bytes are stored, sent   *)
(* and perhaps damaged on the way; a device decodes them in place          *)
(* (Adoption::decode) and then verifies the signature over the bytes.      *)
(*                                                                         *)
(* A byte is a digit in base Base, and every length prefix is two of them: *)
(* the widths are the code's, the base is not.  The domain separator is    *)
(* one byte here, the keys and the numbers have the widths the constants   *)
(* give them.                                                              *)
(***************************************************************************)
EXTENDS Capability, Digits

CONSTANTS
    Base,               \* 256
    NotText,            \* a byte that no UTF-8 text holds
    MaxField, MaxCaps,  \* MAX_FIELD_LEN, MAX_CAPS
    DomainByte, Version,
    OwnerKeyLen, HubLen, RosterLen, TimeLen, SigLen,  \* 33, 32, 4, 8, 64
    Grants,             \* bound: the fields the tool is asked to sign
    Needs,              \* bound: the capabilities asked for
    Rooms,              \* bound: the sizes of the buffer it is given
    Signature,          \* SigLen bytes
    MaxDamage,          \* bound: bytes changed, lost or added on the way
    None

Bytes == 0 .. Base - 1
Str == Seq(Bytes \ {NotText})

AdoptionFields == [device_did : Str, owner_did : Str,
                   owner_genesis_pubkey : [1 .. OwnerKeyLen -> Bytes],
                   hub_endpoint_id : [1 .. HubLen -> Bytes],
                   hub_relay : Str, hub_host : Str, caps : Seq(Str),
                   roster_version : Width(RosterLen, Base),
                   issued_at : Width(TimeLen, Base), expires_at : Width(TimeLen, Base)]

ASSUME ConstantsAssumption ==
    /\ Base \in Nat \ {0, 1} /\ NotText \in Bytes
    /\ {Colon, At} \subseteq Bytes \ {NotText} /\ Colon # At
    /\ Names \subseteq Seq(Bytes) /\ \A p \in Names : Clean(p)
    /\ MaxField \in Nat /\ MaxField < Base * Base /\ MaxCaps \in 0 .. Base - 1
    /\ DomainByte \in Bytes /\ Version \in Bytes
    /\ {OwnerKeyLen, HubLen, RosterLen, TimeLen, SigLen} \subseteq Nat
    /\ Signature \in Seq(Bytes) /\ Len(Signature) = SigLen
    /\ Rooms \subseteq Nat /\ MaxDamage \in Nat
    /\ None \notin Grants

ASSUME GrantsAssumption == Grants \subseteq AdoptionFields

\* Names holds whatever a need names.
ASSUME NeedsAssumption ==
    \A n \in Needs :
        /\ n \in Seq(Bytes)
        /\ Parse(n) # NoCap => /\ {Parse(n).component, Parse(n).action} \subseteq Names
                              /\ Parse(n).scope \in Names \cup {NoScope}

VARIABLES
    sent,     \* the fields that were signed, or None
    room,     \* the size of the buffer they were written into
    wire,     \* the bytes
    damage,   \* bytes changed, lost or added since
    answer,   \* what decode returned: "none" yet, "fields", "refused"
    decoded   \* the fields, or None

wireVars == <<sent, room, wire, damage, answer, decoded>>

-----------------------------------------------------------------------------
(* The fields. *)

FieldTexts(f) == {f.device_did, f.owner_did, f.hub_relay, f.hub_host}

\* (variant: any number of capabilities)
ValidateAnyCount(f) ==
    /\ \A s \in FieldTexts(f) : Len(s) <= MaxField
    /\ f.device_did # <<>> /\ f.owner_did # <<>>
    /\ \A c \in Seqs!ToSet(f.caps) : Len(c) <= MaxField /\ Parse(c) # NoCap
    /\ f.expires_at # 0 => f.expires_at > f.issued_at

Validate(f) ==
    /\ \A s \in FieldTexts(f) : Len(s) <= MaxField
    /\ f.device_did # <<>> /\ f.owner_did # <<>>
    /\ Len(f.caps) <= MaxCaps
    /\ \A c \in Seqs!ToSet(f.caps) : Len(c) <= MaxField /\ Parse(c) # NoCap
    /\ f.expires_at # 0 => f.expires_at > f.issued_at

-----------------------------------------------------------------------------
(* Writing. *)

Str16(t) == BigEndian(Len(t), 2, Base) \o t

Pieces(f) ==
    <<<<DomainByte>>, <<Version>>, Str16(f.device_did), Str16(f.owner_did),
      f.owner_genesis_pubkey, f.hub_endpoint_id, Str16(f.hub_relay), Str16(f.hub_host),
      BigEndian(Len(f.caps), 1, Base)>>
    \o [i \in DOMAIN f.caps |-> Str16(f.caps[i])]
    \o <<BigEndian(f.roster_version, RosterLen, Base),
         BigEndian(f.issued_at, TimeLen, Base), BigEndian(f.expires_at, TimeLen, Base)>>

Encode(f) == Seqs!FlattenSeq(Pieces(f))

CapBytes(caps) ==
    LET n[i \in 0 .. Len(caps)] == IF i = 0 THEN 0 ELSE n[i - 1] + 2 + Len(caps[i])
    IN  n[Len(caps)]

\* (variant: the capabilities counted without their length prefixes)
CanonicalLenBare(f) ==
    2 + 2 + Len(f.device_did) + 2 + Len(f.owner_did) + OwnerKeyLen + HubLen
    + 2 + Len(f.hub_relay) + 2 + Len(f.hub_host)
    + 1 + CapBytes(f.caps) - 2 * Len(f.caps) + RosterLen + 2 * TimeLen

\* What encode asks of its buffer before it writes.
CanonicalLen(f) ==
    2 + 2 + Len(f.device_did) + 2 + Len(f.owner_did) + OwnerKeyLen + HubLen
    + 2 + Len(f.hub_relay) + 2 + Len(f.hub_host)
    + 1 + CapBytes(f.caps) + RosterLen + 2 * TimeLen

-----------------------------------------------------------------------------
(* Reading: where each part starts, one after the other. *)

Opening == <<"domain", "version", "text", "text", "key", "hub", "text", "text", "count">>
Closing == <<"roster", "time", "time">>

Widths == [domain |-> 1, version |-> 1, key |-> OwnerKeyLen, hub |-> HubLen, count |-> 1,
           roster |-> RosterLen, time |-> TimeLen]

Broken == 0

\* read_array, read_u8, read_str and expect: the position behind the part
\* that starts at i of c.
EndOf(c, part, i) ==
    LET e == IF part # "text" THEN i + Widths[part]
             ELSE IF i < Len(c) THEN i + 2 + Number(SubSeq(c, i, i + 1), Base)
             ELSE Len(c) + 2
    IN  IF /\ i # Broken /\ e <= Len(c) + 1
           /\ part = "text" => NotText \notin Seqs!ToSet(SubSeq(c, i + 2, e - 1))
           /\ part = "domain" => c[i] = DomainByte
           /\ part = "version" => c[i] = Version
        THEN e ELSE Broken

\* The start of every part, and the end of the last.
Scan(c, parts) ==
    LET at[k \in 1 .. Len(parts) + 1] ==
            IF k = 1 THEN 1 ELSE EndOf(c, parts[k - 1], at[k - 1])
    IN  at

End(c, parts) == Scan(c, parts)[Len(parts) + 1]

Count(c) == IF End(c, Opening) = Broken THEN 0 ELSE c[Scan(c, Opening)[Len(Opening)]]

Parts(c) == Opening \o [k \in 1 .. Count(c) |-> "text"] \o Closing

TextAt(c, at, k) == SubSeq(c, at[k] + 2, at[k + 1] - 1)

\* CapIter over the wire: Count texts from behind the count on.
CapsAt(c, at) == [k \in 1 .. Count(c) |-> TextAt(c, at, Len(Opening) + k)]

FieldsAt(c, at) ==
    LET raw(k) == SubSeq(c, at[k], at[k + 1] - 1)
        text(k) == TextAt(c, at, k)
        n == Count(c)
    IN  [device_did |-> text(3), owner_did |-> text(4),
         owner_genesis_pubkey |-> raw(5), hub_endpoint_id |-> raw(6),
         hub_relay |-> text(7), hub_host |-> text(8),
         caps |-> CapsAt(c, at),
         roster_version |-> Number(raw(10 + n), Base),
         issued_at |-> Number(raw(11 + n), Base), expires_at |-> Number(raw(12 + n), Base)]

SignedPart(w) == SubSeq(w, 1, Len(w) - SigLen)

Fields(w) == FieldsAt(SignedPart(w), Scan(SignedPart(w), Parts(SignedPart(w))))

\* (variants: bytes left over behind the last part, the fields not validated)
ReadsLeaving(w) ==
    /\ Len(w) >= 2 + SigLen
    /\ End(SignedPart(w), Parts(SignedPart(w))) # Broken
    /\ Validate(Fields(w))
ReadsUnchecked(w) ==
    /\ Len(w) >= 2 + SigLen
    /\ End(SignedPart(w), Parts(SignedPart(w))) = Len(SignedPart(w)) + 1

\* decode succeeds: every part is there, nothing is left over, and the fields
\* are within their limits.
Reads(w) ==
    /\ Len(w) >= 2 + SigLen
    /\ End(SignedPart(w), Parts(SignedPart(w))) = Len(SignedPart(w)) + 1
    /\ Validate(Fields(w))

\* verify_signature, under the key among the fields: symbolic.
VerifySignature(w) == sent # None /\ w = Encode(sent) \o Signature

\* Adoption::grants.
Granted(f, needed) == AnySatisfies(f.caps, needed)

-----------------------------------------------------------------------------
WireInit ==
    /\ sent = None /\ room = 0 /\ wire = <<>> /\ damage = 0
    /\ answer = "none" /\ decoded = None

Undecoded == answer' = "none" /\ decoded' = None

SignInto(f, r) ==
    /\ wire = <<>>
    /\ Validate(f) /\ CanonicalLen(f) + SigLen <= r
    /\ sent' = f /\ room' = r
    /\ wire' = Encode(f) \o Signature
    /\ damage' = 0 /\ Undecoded

\* The bytes are given up for others.
Discard ==
    /\ wire # <<>>
    /\ sent' = None /\ room' = 0 /\ wire' = <<>> /\ damage' = 0 /\ Undecoded

Damage(w) ==
    /\ damage < MaxDamage /\ damage' = damage + 1
    /\ wire' = w
    /\ Undecoded
    /\ UNCHANGED <<sent, room>>

Change(i, b) == b # wire[i] /\ Damage(Seqs!ReplaceAt(wire, i, b))
Lose(i) == Damage(Seqs!RemoveAt(wire, i))
Add(i, b) == Damage(Seqs!InsertAt(wire, i, b))

Decode ==
    /\ wire # <<>> /\ answer = "none"
    /\ Reads(wire)
    /\ answer' = "fields" /\ decoded' = Fields(wire)
    /\ UNCHANGED <<sent, room, wire, damage>>

Refuse ==
    /\ wire # <<>> /\ answer = "none"
    /\ ~Reads(wire)
    /\ answer' = "refused" /\ decoded' = None
    /\ UNCHANGED <<sent, room, wire, damage>>

WireNext ==
    \/ \E f \in Grants, r \in Rooms : SignInto(f, r)
    \/ \E i \in DOMAIN wire : Lose(i) \/ \E b \in Bytes : Change(i, b) \/ Add(i, b)
    \/ Decode \/ Refuse
    \/ Discard

WireSpec == WireInit /\ [][WireNext]_wireVars

-----------------------------------------------------------------------------
(* Properties. *)

\* Bytes are bytes, and fields a device holds are within their limits.
WireTypeOK ==
    /\ sent \in Grants \cup {None}
    /\ wire \in Seq(Bytes)
    /\ damage \in 0 .. MaxDamage
    /\ answer \in {"none", "fields", "refused"}
    /\ decoded # None => Validate(decoded)

\* "debug_assert_eq!(w.pos, needed)": what encode checked its buffer against
\* is what it writes, so that the copies never run past the buffer's end.
FitsItsBuffer ==
    damage = 0 /\ wire # <<>> => /\ Len(wire) = CanonicalLen(sent) + SigLen
                                 /\ Len(wire) <= room

\* Whatever an owner's tool agrees to sign, a device reads as it was meant.
ReadAsSigned ==
    damage = 0 /\ answer # "none" => answer = "fields" /\ decoded = sent

\* Bytes have one reading: what a device decodes, from bytes however damaged,
\* encodes to those very bytes, so that the signature it verifies over the
\* bytes is a signature over the fields it acts on, and over nothing else.
OneReading ==
    answer = "fields" => wire = Encode(decoded) \o SubSeq(wire, Len(wire) - SigLen + 1, Len(wire))

\* A device whose adoption verifies lets the hub do what the owner's words
\* meant and nothing else: through validation, encoding, the iterator over the
\* wire and the matching of scopes.
GrantedAsMeant ==
    answer = "fields" /\ VerifySignature(wire) =>
        \A n \in Needs : Granted(decoded, n) <=> \E i \in DOMAIN sent.caps : Means(sent.caps[i], n)
=============================================================================
