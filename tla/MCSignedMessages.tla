--------------------------- MODULE MCSignedMessages ---------------------------
(* Two-byte keys under numerals of base 3, texts of at most 8 bytes under   *)
(* two-byte lengths, times 0 to 3.  Domains that begin alike; messages      *)
(* whose fields' borders another message of the same kind has elsewhere;    *)
(* fields one byte too long.                                                *)
EXTENDS SignedMessages

MCByte == 0 .. 16
MCCurve == {<<2, 0>>, <<2, 2>>, <<3, 1>>, <<1, 2>>}
MCKeys == {<<2, 0>>, <<3, 1>>}
MCPrefix == <<9>>
MCBe16 == [n \in 0 .. MaxLen |-> <<n \div 3, n % 3>>]
MCBe64 == [t \in Times |-> <<t>>]
MCDomain == [nonce |-> <<10>>, reply |-> <<11, 1>>, manifest |-> <<11, 2>>, maker |-> <<11, 3>>,
             status |-> <<11, 4, 1>>, genesis |-> <<12>>, jws |-> <<13>>]

Zeros == [i \in 1 .. 8 |-> 0]

Envelope(did, audience, purpose, issued, expires) ==
    [kind |-> "nonce", envelope_version |-> 1, nonce |-> <<1>>, did |-> did, audience |-> audience,
     purpose |-> purpose, issued_at |-> issued, expires_at |-> expires, issuer |-> <<>>]
Reply(context, shares) == [kind |-> "reply", context |-> context, shares |-> shares]
Maker(model, firmware) == [kind |-> "maker", model |-> model, firmware |-> firmware]
Status(device, owner, kind) ==
    [kind |-> "status", nonce |-> <<1>>, device_did |-> device, owner_did |-> owner,
     adoption_kind |-> kind, adoption_hash |-> <<4>>]

A == <<9, 2, 2>>

MCClaims == {
    Envelope(A, <<1>>, <<0, 1, 2>>, 1, 3),
    Envelope(A, <<1, 0, 0>>, <<2>>, 1, 3),
    \* an audience of nine bytes, and the one of eight with the same bytes behind it
    Envelope(A, Append(Zeros, 1), <<0, 0>>, 1, 2),
    Envelope(A, Zeros, <<2, 0, 0>>, 1, 2),
    \* other spellings, another identity, no point, no digit
    Envelope(<<9, 2>>, <<1>>, <<2>>, 0, 1),
    Envelope(<<9, 0, 2, 2>>, <<1>>, <<2>>, 0, 1),
    Envelope(<<9, 1, 1, 1>>, <<1>>, <<2>>, 0, 1),
    Envelope(<<9, 5>>, <<1>>, <<2>>, 0, 1),
    \* never valid, valid too long; another version; another nonce length
    Envelope(A, <<1>>, <<2>>, 1, 1),
    Envelope(A, <<1>>, <<2>>, 0, 3),
    [Envelope(A, <<1>>, <<2>>, 0, 1) EXCEPT !.envelope_version = 2],
    [Envelope(A, <<1>>, <<2>>, 0, 1) EXCEPT !.nonce = <<1, 1>>],
    Reply(<<1, 1>>, <<3, 3>>), Reply(<<1>>, <<1, 3, 3>>), Reply(Append(Zeros, 0), <<3>>),
    \* a model of nine bytes counts as none
    Maker(<<1, 0, 0>>, <<>>), Maker(<<1>>, <<0>>),
    Maker(<<0, 1, 7, 7, 7, 7, 7, 7, 7>>, <<7>>), Maker(<<>>, <<7, 7, 7, 7, 7, 7, 7, 0, 1, 7>>),
    Status(A, <<1>>, <<0, 0>>), Status(A, <<1, 0, 1>>, <<>>), Status(A, Append(Zeros, 0), <<>>),
    [kind |-> "manifest", bytes |-> <<0, 1, 1, 3, 3>>],
    [kind |-> "manifest", bytes |-> <<>>]}

Request(did, audience, nonce, iat, ttl) ==
    [did |-> did, audience |-> audience, nonce |-> nonce, iat |-> iat, ttl |-> ttl]

MCRequests == {
    Request(A, <<1>>, <<2>>, 1, 1), Request(A, <<1>>, <<2>>, 0, 3), Request(A, <<1>>, <<2>>, 2, 3),
    Request(A, <<1>>, <<2>>, 3, 1), Request(<<9, 1, 1, 1>>, <<2>>, <<1>>, 1, 1),
    Request(A, <<>>, <<2>>, 1, 1), Request(A, <<1>>, <<>>, 1, 1), Request(A, <<1>>, <<2>>, 1, 0)}

MCRoster == [r \in Rosters |-> r.did \o <<r.signed_at>>]
MCJson == [t \in Tokens |-> t.did \o <<14>> \o t.audience \o <<14>> \o t.nonce
                            \o <<14, t.iat, t.exp, t.signed_at>>]
=============================================================================
