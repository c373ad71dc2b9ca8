---------------------------- MODULE SignedMessages ----------------------------
(***************************************************************************)
(* What one key signs.  A device's key signs gateway nonces (kms), setup   *)
(* replies, manifests, statuses, its genesis roster and its sign-in        *)
(* tokens; a maker's key signs attestations.  Each kind of message has a   *)
(* domain in front and lengths before its fields, so that a signature made *)
(* for one message is never taken for another.                             *)
(*                                                                         *)
(* SHA-256 tells byte strings apart.  A signature is its signer, the bytes *)
(* it covers, and which of the two equivalent scalars it holds: signing is *)
(* deterministic and gives the low one, and anybody who sees a signature   *)
(* can make the high one of it.  Whoever verifies states a claim, writes   *)
(* it out as the signer does and looks for a signature over those bytes.   *)
(***************************************************************************)
EXTENDS Did, FiniteSets

CONSTANTS
    Keys,       \* who signs
    Byte,
    MaxLen,     \* u16::MAX
    MaxTime,    \* u64::MAX
    MaxTtl,     \* MAX_TTL_SECS
    NonceLen,   \* 32
    Be16, Be64, \* to_be_bytes
    EnvelopeVersion, StatusVersion,
    Domain,     \* the domain separator of each kind
    Claims,     \* bound: the messages signed or claimed
    Requests,   \* bound: the sign-ins asked for
    Roster, Json, \* external: mid_types' roster bytes, serde's base64url JSON
    MaxSigned   \* bound: messages signed

Kinds == {"nonce", "reply", "manifest", "maker", "status", "genesis", "jws"}
Texts == Seq(Byte)
Times == 0 .. MaxTime

NonceEnvelopes == [kind : {"nonce"}, envelope_version : Byte, nonce : Texts, did : Texts,
                   audience : Texts, purpose : Texts, issued_at : Times, expires_at : Times,
                   issuer : Texts]
Replies == [kind : {"reply"}, context : Texts, shares : Texts]
Makers == [kind : {"maker"}, model : Texts, firmware : Texts]
Statuses == [kind : {"status"}, nonce : [1 .. NonceLen -> Byte], device_did : Texts,
             owner_did : Texts, adoption_kind : Texts, adoption_hash : Texts]
Encoded == [kind : {"manifest", "genesis", "jws"}, bytes : Texts]

VARIABLES
    signed,  \* history: who signed which message
    sigs,    \* the signatures in circulation
    tokens   \* history: who was asked to sign in, and with which token

vars == <<signed, sigs, tokens>>

-----------------------------------------------------------------------------
(* The bytes that are signed. *)

\* A length in front of the text it is meant to be the length of.
Framed(n, s) == Be16[n] \o s

\* setup, status: a longer text is an error, see Signable.
Lp(s) == Framed(Len(s), s)

\* kms: a longer text counts as MaxLen.
LpSaturated(s) == Framed(IF Len(s) > MaxLen THEN MaxLen ELSE Len(s), s)

\* manifest: a longer text's length is cut to 16 bits.
LpCut(s) == Framed(Len(s) % (MaxLen + 1), s)

NonceBytes(c) ==
    <<c.envelope_version>> \o (LpSaturated(c.nonce) \o (LpSaturated(c.did)
    \o (LpSaturated(c.audience) \o (LpSaturated(c.purpose)
    \o (Be64[c.issued_at] \o (Be64[c.expires_at] \o LpSaturated(c.issuer)))))))

ReplyBytes(c) == Lp(c.context) \o c.shares

MakerBytes(c) == LpCut(c.model) \o LpCut(c.firmware)

StatusBytes(c) ==
    <<StatusVersion>> \o (c.nonce \o (Lp(c.device_did) \o (Lp(c.owner_did)
    \o (Lp(c.adoption_kind) \o c.adoption_hash))))

Body(c) ==
    CASE c.kind = "nonce" -> NonceBytes(c)
      [] c.kind = "reply" -> ReplyBytes(c)
      [] c.kind = "maker" -> MakerBytes(c)
      [] c.kind = "status" -> StatusBytes(c)
      [] OTHER -> c.bytes

Canonical(c) == Domain[c.kind] \o Body(c)

-----------------------------------------------------------------------------
(* Which messages are signed. *)

Short(s) == Len(s) <= MaxLen

\* (variant: lengths are left to the framing)
ValidAnyLength(c) ==
    /\ c.envelope_version = EnvelopeVersion
    /\ Len(c.nonce) = NonceLen
    /\ ParseDid(c.did) # NoKey
    /\ c.issued_at < c.expires_at /\ c.expires_at - c.issued_at <= MaxTtl

\* NonceEnvelopeRef::validate.
Valid(c) ==
    /\ c.envelope_version = EnvelopeVersion
    /\ Len(c.nonce) = NonceLen
    /\ ParseDid(c.did) # NoKey
    /\ c.issued_at < c.expires_at /\ c.expires_at - c.issued_at <= MaxTtl
    /\ Short(c.did) /\ Short(c.audience) /\ Short(c.purpose) /\ Short(c.issuer)

\* Some caller gets its signature; the others an error, or there is none.
Signable(c) ==
    CASE c.kind = "nonce" -> Valid(c)
      [] c.kind = "reply" -> Short(c.context)
      [] c.kind = "status" -> Short(c.device_did) /\ Short(c.owner_did) /\ Short(c.adoption_kind)
      [] OTHER -> TRUE

-----------------------------------------------------------------------------
(* Signing in: a token and the genesis roster inside it. *)

\* (variant: the end of the window wraps)
TokenOfWrapping(r) ==
    [did |-> r.did, audience |-> r.audience, nonce |-> r.nonce, iat |-> r.iat,
     exp |-> (r.iat + r.ttl) % (MaxTime + 1), signed_at |-> IF r.iat <= 1 THEN 1 ELSE r.iat - 1]

\* (variant: the end of the window has no width)
TokenOfWide(r) ==
    [did |-> r.did, audience |-> r.audience, nonce |-> r.nonce, iat |-> r.iat,
     exp |-> r.iat + r.ttl, signed_at |-> IF r.iat <= 1 THEN 1 ELSE r.iat - 1]

TokenOf(r) ==
    [did |-> r.did, audience |-> r.audience, nonce |-> r.nonce, iat |-> r.iat,
     exp |-> IF r.iat + r.ttl > MaxTime THEN MaxTime ELSE r.iat + r.ttl,
     signed_at |-> IF r.iat <= 1 THEN 1 ELSE r.iat - 1]

Tokens == {TokenOf(r) : r \in Requests}

\* The roster has one verification method: the DID's own key.
RosterOf(t) == [did |-> t.did, signed_at |-> t.signed_at]
Rosters == {RosterOf(t) : t \in Tokens}

GenesisClaim(t) == [kind |-> "genesis", bytes |-> Roster[RosterOf(t)]]
JwsClaim(t) == [kind |-> "jws", bytes |-> Json[t]]

Claimable == Claims \cup {GenesisClaim(t) : t \in Tokens} \cup {JwsClaim(t) : t \in Tokens}

-----------------------------------------------------------------------------
ASSUME NumbersAssumption ==
    /\ Byte \subseteq Nat
    /\ MaxLen \in Nat /\ MaxTime \in Nat \ {0} /\ NonceLen \in 0 .. MaxLen
    /\ Be16 \in [0 .. MaxLen -> [1 .. 2 -> Byte]]
    /\ \A m, n \in 0 .. MaxLen : Be16[m] = Be16[n] => m = n
    /\ Be64 \in [Times -> Texts]
    /\ \A m, n \in Times : Len(Be64[m]) = Len(Be64[n])
    /\ \A m, n \in Times : Be64[m] = Be64[n] => m = n
    /\ EnvelopeVersion \in Byte /\ StatusVersion \in Byte

\* No domain begins another.
ASSUME DomainAssumption ==
    /\ Domain \in [Kinds -> Texts]
    /\ \A j, k \in Kinds : j # k =>
           \E i \in (DOMAIN Domain[j]) \cap (DOMAIN Domain[k]) : Domain[j][i] # Domain[k][i]

\* Other than for a token this crate builds no JWS and no roster.
ASSUME ClaimsAssumption ==
    /\ Claims \subseteq NonceEnvelopes \cup Replies \cup Makers \cup Statuses \cup Encoded
    /\ \A c \in Claims : c.kind \notin {"genesis", "jws"}
    /\ Requests \subseteq [did : Texts, audience : Texts, nonce : Texts,
                           iat : Times, ttl : Times]

ASSUME EncodersAssumption ==
    /\ Roster \in [Rosters -> Texts] /\ Json \in [Tokens -> Texts]
    /\ \A t, u \in Tokens : Json[t] = Json[u] => t = u

-----------------------------------------------------------------------------
Low(k, c) == [by |-> k, over |-> Canonical(c), high |-> FALSE]

Init == signed = {} /\ sigs = {} /\ tokens = {}

\* kms sign, sign_reply, sign_manifest, StatusProof::sign, a maker's tool.
Sign(k, c) ==
    /\ Signable(c) /\ Cardinality(signed) < MaxSigned
    /\ signed' = signed \cup {<<k, c>>}
    /\ sigs' = sigs \cup {Low(k, c)}
    /\ UNCHANGED tokens

\* build_self_issued_token: did is its caller's word.
BuildToken(k, r) ==
    /\ r.audience # <<>> /\ r.nonce # <<>> /\ r.ttl # 0
    /\ Cardinality(signed) < MaxSigned
    /\ LET t == TokenOf(r)
       IN  /\ tokens' = tokens \cup {<<k, t>>}
           /\ signed' = signed \cup {<<k, GenesisClaim(t)>>, <<k, JwsClaim(t)>>}
           /\ sigs' = sigs \cup {Low(k, GenesisClaim(t)), Low(k, JwsClaim(t))}

\* The other scalar of a signature seen.
Twin(s) ==
    /\ sigs' = sigs \cup {[s EXCEPT !.high = ~s.high]}
    /\ UNCHANGED <<signed, tokens>>

Next ==
    \/ \E k \in Keys : \/ \E c \in Claims : Sign(k, c)
                       \/ \E r \in Requests : BuildToken(k, r)
    \/ \E s \in sigs : Twin(s)

Spec == Init /\ [][Next]_vars

-----------------------------------------------------------------------------
(* Verifying. *)

\* (variant: either scalar, as upstream's verifiers take)
VerifyPrehashEither(k, bytes, s) == s.by = k /\ s.over = bytes

\* verify_prehash.
VerifyPrehash(k, bytes, s) == s.by = k /\ s.over = bytes /\ ~s.high

\* verify_reply, verify_manifest, verify_maker and StatusProof::verify are
\* this crate's; gateways and relying parties run upstream's, which takes both.
\* A reply or a status that cannot be laid out has nothing to verify.
Takes(k, c, s) ==
    /\ c.kind \in {"reply", "status"} => Signable(c)
    /\ IF c.kind \in {"reply", "manifest", "maker", "status"} THEN VerifyPrehash(k, Canonical(c), s)
       ELSE s.by = k /\ s.over = Canonical(c)

\* The claim has the 16-bit lengths its format provides.
Within(c) ==
    CASE c.kind = "nonce" -> Short(c.nonce) /\ Short(c.did) /\ Short(c.audience)
                             /\ Short(c.purpose) /\ Short(c.issuer)
      [] c.kind = "maker" -> Short(c.model) /\ Short(c.firmware)
      [] OTHER -> TRUE

\* A relying party (mid-verify): token and roster under the DID's own key.
Believes(t) ==
    \E k \in Keys, s, g \in sigs : /\ ParseDid(t.did) = k
                                   /\ Takes(k, JwsClaim(t), s) /\ Takes(k, GenesisClaim(t), g)

-----------------------------------------------------------------------------
(* Properties. *)

TypeOK ==
    /\ signed \subseteq Keys \X Claimable
    /\ sigs \subseteq [by : Keys, over : Texts, high : BOOLEAN]
    /\ tokens \subseteq Keys \X [did : Texts, audience : Texts, nonce : Texts, iat : Times,
                                 exp : Times, signed_at : Times]

\* Whatever a verifier takes a signature for, its signer signed that very
\* message: of that kind, and field by field, whatever else the same key
\* signs and wherever in the bytes the fields' borders could be moved to.
\* Messages past the formats' lengths are signed by makers' tools
\* (maker_prehash narrows the length); they pass for no other within them.
AcceptedWasMeant ==
    \A s \in sigs, k \in Keys, c \in Claimable :
        Takes(k, c, s) /\ Within(c) => <<k, c>> \in signed

\* "rejecting high-s, the malleability defence every Janus verifier applies":
\* of all signatures in circulation one verifies for a message of this family.
NotMalleable ==
    \A s, t \in sigs, k \in Keys, c \in Claims :
        c.kind # "nonce" /\ Takes(k, c, s) /\ Takes(k, c, t) => s = t

\* An identity has one spelling: owners, devices and envelopes are compared
\* by the texts of their DIDs, and two texts that parse are never one key.
OneSpelling ==
    \A a, b \in signed :
        a[2].kind = "nonce" /\ b[2].kind = "nonce" /\ ParseDid(a[2].did) = ParseDid(b[2].did)
        => a[2].did = b[2].did

\* A token that a relying party believes is one its key was asked for, with
\* that audience and nonce, and does not end before it begins even where the
\* clock's sum overflows.
SignInsWereAsked ==
    \A t \in Tokens : Believes(t) =>
        /\ <<ParseDid(t.did), t>> \in tokens
        /\ t.audience # <<>> /\ t.nonce # <<>>
        /\ t.iat < MaxTime => t.iat < t.exp
=============================================================================
