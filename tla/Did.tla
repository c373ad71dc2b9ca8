---------------------------------- MODULE Did ----------------------------------
(***************************************************************************)
(* did:mata, the text of an identity: a prefix and the base-58 numeral of  *)
(* the compressed public key.  Bytes are digits in base KeyBase and the    *)
(* characters of a numeral digits in base Radix, as 256 and 58.            *)
(***************************************************************************)
EXTENDS Digits

CONSTANTS
    KeyBase, Radix,
    KeyLen,     \* PUBKEY_LEN
    MaxBase58,  \* MAX_BASE58_LEN
    Tags,       \* the first byte of a compressed point: 2 or 3
    Curve,      \* the byte strings that are points of the curve
    Prefix,     \* DID_PREFIX
    NoKey

ASSUME NumeralsAssumption ==
    /\ KeyBase \in Nat \ {0, 1} /\ Radix \in Nat \ {0, 1}
    /\ Prefix \in Seq(Nat) /\ KeyLen \in Nat \ {0}

LeadingZeros(s) ==
    CHOOSE k \in 0 .. Len(s) : (\A i \in 1 .. k : s[i] = 0) /\ (k < Len(s) => s[k + 1] # 0)

\* bs58: a leading zero byte is a leading zero digit, the rest one number.
Convert(s, from, to) ==
    LET k == LeadingZeros(s)
    IN  [i \in 1 .. k |-> 0] \o Numeral(Number(SubSeq(s, k + 1, Len(s)), from), to)

IsPoint(bytes) == Len(bytes) = KeyLen /\ bytes[1] \in Tags /\ bytes \in Curve

\* write_with_prefix; the caller's buffer takes Len(Prefix) + MaxBase58.
WriteDid(key) == Prefix \o Convert(key, KeyBase, Radix)

Suffix(text) == SubSeq(text, Len(Prefix) + 1, Len(text))

HasPrefix(text) == Len(text) > Len(Prefix) /\ SubSeq(text, 1, Len(Prefix)) = Prefix

\* (variant: the decoded length is not looked at; the buffer holds zeros)
ParseDidPadded(text) ==
    LET bytes == SubSeq(Convert(Suffix(text), Radix, KeyBase) \o [i \in 1 .. KeyLen |-> 0], 1, KeyLen)
    IN  IF /\ HasPrefix(text) /\ Len(Suffix(text)) <= MaxBase58
           /\ \A i \in DOMAIN Suffix(text) : Suffix(text)[i] < Radix
           /\ IsPoint(bytes)
        THEN bytes ELSE NoKey

\* Did::parse: the key, or NoKey.
ParseDid(text) ==
    LET bytes == Convert(Suffix(text), Radix, KeyBase)
    IN  IF /\ HasPrefix(text) /\ Len(Suffix(text)) <= MaxBase58
           /\ \A i \in DOMAIN Suffix(text) : Suffix(text)[i] < Radix
           /\ IsPoint(bytes)
        THEN bytes ELSE NoKey
=============================================================================
