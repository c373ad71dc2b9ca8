-------------------------- MODULE StatusProof_proofs --------------------------
(***************************************************************************)
(* StatusProof for any number of devices, grants and nonces, and any       *)
(* number of messages on the network.                                      *)
(*                                                                         *)
(* AcceptedWasHeld holds because a signature carries the nonce and every   *)
(* claim: each answer on the network was made for a nonce already asked,   *)
(* from a holding of the device since then (Honest), and a body a verifier *)
(* takes for a nonce makes the claims that were signed for that nonce.     *)
(***************************************************************************)
EXTENDS StatusProof, TLAPS

\* The answer was made for a nonce in ns, from what the device held since.
MadeSince(b, ns, since) ==
    \E d \in Devices, n \in ns, a \in Holdings, x \in Extras :
        b = Document(d, a, n, x) /\ <<d, a>> \in since[n]

Honest ==
    /\ \A d \in Devices :
           serving[d] # None =>
               /\ serving[d].nonce \in asked
               /\ <<d, serving[d].grant>> \in heldSince[serving[d].nonce]
    /\ \A b \in bodies : MadeSince(b, asked, heldSince)
    /\ \A d \in Devices, n \in asked : <<d, held[d]>> \in heldSince[n]
    /\ \A n \in Nonces : accepted[n] # None => n \in asked

IInv == TypeOK /\ Honest /\ AcceptedWasHeld

\* More nonces and more held since make no answer worse.
LEMMA MadeSinceGrows ==
    ASSUME NEW b, NEW ns, NEW ms, NEW since, NEW later, ns \subseteq ms,
           \A n \in ns : since[n] \subseteq later[n],
           MadeSince(b, ns, since)
    PROVE  MadeSince(b, ms, later)
<1>1. PICK d \in Devices, n \in ns, a \in Holdings, x \in Extras :
          b = Document(d, a, n, x) /\ <<d, a>> \in since[n]
  BY ZenonT(30) DEF MadeSince
<1>2. n \in ms /\ <<d, a>> \in later[n]
  BY <1>1
<1> QED
  BY <1>1, <1>2, ZenonT(30) DEF MadeSince

\* signed: no other field stands where a contract's field is absent, so the
\* body carries exactly the claims that were signed.
LEMMA DocumentFields ==
    ASSUME NEW d, NEW a, NEW n, NEW x
    PROVE  LET b == Document(d, a, n, x)
           IN  /\ b.device_did = d
               /\ a = None => b.owner_did = None /\ b.adoption_kind = None /\ b.adoption = None
               /\ a # None => b.owner_did = a.owner /\ b.adoption_kind = a.kind
                              /\ b.adoption = a.bytes
               /\ b.pair = b.owner_did
               /\ b.device_sig = Sign(d, Message(n, d, b.owner_did, b.adoption_kind, b.adoption))
<1>1. \A f \in FIELDS : OtherOr(f, x) = None
  BY DEF OtherOr, Served
<1>2. "owner_did" \in FIELDS /\ "adoption_kind" \in FIELDS /\ "adoption" \in FIELDS
  BY DEF FIELDS
<1>3. CASE a = None
  BY <1>1, <1>2, <1>3 DEF Document, Proof
<1>4. CASE a # None
  BY <1>4 DEF Document, Proof
<1> QED
  BY <1>3, <1>4

\* What a verifier reads off an answer it takes for nonce n is what the
\* device signed for n.
LEMMA VerifiedIsSigned ==
    ASSUME NEW d \in Devices, NEW a \in Holdings, NEW n \in Nonces, NEW x \in Extras,
           NEW m \in Nonces, Verifies(m, Document(d, a, n, x))
    PROVE  m = n /\ Claimed(Document(d, a, n, x)) = a
<1> DEFINE b == Document(d, a, n, x)
<1>1. b.device_sig = Sign(d, Message(n, d, b.owner_did, b.adoption_kind, b.adoption))
  BY DocumentFields
<1>2. b.device_sig = Sign(b.device_did, Message(m, b.device_did, b.owner_did, b.adoption_kind, b.adoption))
  BY DEF Verifies
<1> HIDE DEF b
<1>3. b.device_sig.over.nonce = n /\ b.device_sig.over.nonce = m
  <2>1. b.device_sig.over.nonce = n
    BY <1>1 DEF Sign, Message
  <2>2. b.device_sig.over.nonce = m
    BY <1>2 DEF Sign, Message
  <2> QED
    BY <2>1, <2>2
<1>4. Claimed(b) = a
  <2>1. CASE a = None
    BY <2>1, DocumentFields DEF Claimed, b
  <2>2. CASE a # None
    <3>1. a \in Grants
      BY <2>2 DEF Holdings
    <3>2. a = [owner |-> a.owner, kind |-> a.kind, bytes |-> a.bytes] /\ a.bytes # None
      BY <3>1, ConstantsAssumption
    <3>3. b.owner_did = a.owner /\ b.adoption_kind = a.kind /\ b.adoption = a.bytes
      BY <2>2, DocumentFields DEF b
    <3> QED
      BY <3>2, <3>3 DEF Claimed
  <2> QED
    BY <2>1, <2>2
<1> QED
  BY <1>3, <1>4 DEF b

LEMMA DocumentType ==
    ASSUME NEW d \in Devices, NEW a \in Holdings, NEW n \in Nonces, NEW x \in Extras
    PROVE  Document(d, a, n, x) \in Bodies
<1> DEFINE own == IF a = None THEN None ELSE a.owner
           kind == IF a = None THEN None ELSE a.kind
           byt == IF a = None THEN None ELSE a.bytes
<1>1. own \in Owners /\ kind \in Kinds /\ byt \in Bytes
  BY DEF Holdings, Owners, Kinds, Bytes
<1>2. Document(d, a, n, x) =
          [pair |-> own, device_did |-> d, owner_did |-> own, adoption_kind |-> kind,
           adoption |-> byt, device_sig |-> Sign(d, Message(n, d, own, kind, byt))]
  <2>1. OtherOr("owner_did", x) = None /\ OtherOr("adoption_kind", x) = None
        /\ OtherOr("adoption", x) = None
    BY DEF OtherOr, Served, FIELDS
  <2>2. CASE a = None
    BY <2>1, <2>2 DEF Document, Proof
  <2>3. CASE a # None
    BY <2>3 DEF Document, Proof
  <2> QED
    BY <2>2, <2>3
<1> HIDE DEF own, kind, byt
<1>3. Sign(d, Message(n, d, own, kind, byt)) \in [signer : Devices, over : Messages]
  BY <1>1 DEF Sign, Message, Messages
<1> QED
  BY <1>1, <1>2, <1>3 DEF Bodies

-----------------------------------------------------------------------------
\* StatusDocument::signed: each answer under way was made from what its device
\* held since the nonce in it was drawn.
THEOREM Invariance == Spec => []IInv
<1>1. Init => IInv
  <2> SUFFICES ASSUME Init PROVE IInv
    OBVIOUS
  <2>1. TypeOK
    BY DEF Init, TypeOK, Holdings
  <2>2. Honest /\ AcceptedWasHeld
    BY DEF Init, Honest, AcceptedWasHeld
  <2> QED
    BY <2>1, <2>2 DEF IInv
<1>2. IInv /\ [Next]_vars => IInv'
  <2> SUFFICES ASSUME IInv, [Next]_vars PROVE IInv'
    OBVIOUS
  <2> USE DEF IInv
  <2>1. ASSUME NEW d \in Devices, NEW a \in Holdings, Hold(d, a) PROVE IInv'
    <3>1. \A n \in Nonces : heldSince[n] \subseteq heldSince'[n]
                            /\ (n \in asked => <<d, a>> \in heldSince'[n])
      BY <2>1 DEF Hold
    <3>2. TypeOK'
      <4>1. heldSince' \in [Nonces -> SUBSET (Devices \X Holdings)]
        BY <2>1 DEF Hold, TypeOK
      <4> QED
        BY <2>1, <4>1 DEF Hold, TypeOK
    <3>3. \A e \in Devices, n \in asked' : <<e, held'[e]>> \in heldSince'[n]
      BY <2>1, <3>1 DEF Hold, Honest, TypeOK
    <3>4. Honest'
      <4>1. \A e \in Devices : serving'[e] # None =>
               /\ serving'[e].nonce \in asked'
               /\ <<e, serving'[e].grant>> \in heldSince'[serving'[e].nonce]
        BY <2>1, <3>1 DEF Hold, Honest, TypeOK
      <4>2. \A b \in bodies' : MadeSince(b, asked', heldSince')
        <5>1. bodies' = bodies /\ asked' = asked /\ asked \subseteq Nonces
          BY <2>1 DEF Hold, TypeOK
        <5>2. \A n \in asked : heldSince[n] \subseteq heldSince'[n]
          BY <3>1, <5>1
        <5> QED
          BY <5>1, <5>2, MadeSinceGrows DEF Honest
      <4>3. \A n \in Nonces : accepted'[n] # None => n \in asked'
        BY <2>1 DEF Hold, Honest
      <4> QED
        BY <3>3, <4>1, <4>2, <4>3 DEF Honest
    <3>5. AcceptedWasHeld'
      BY <2>1, <3>1 DEF Hold, AcceptedWasHeld
    <3> QED
      BY <3>2, <3>4, <3>5
  <2>2. ASSUME NEW n \in Nonces, Ask(n) PROVE IInv'
    <3>1. heldSince' = [heldSince EXCEPT ![n] = {<<d, held[d]>> : d \in Devices}]
          /\ n \notin asked /\ asked' = asked \cup {n}
          /\ UNCHANGED <<held, serving, bodies, accepted>>
      BY <2>2 DEF Ask
    <3>2. \A m \in asked : heldSince'[m] = heldSince[m]
      BY <3>1 DEF TypeOK
    <3>3. TypeOK'
      BY <3>1 DEF TypeOK
    <3>4. Honest'
      <4>1. \A e \in Devices : serving'[e] # None =>
               /\ serving'[e].nonce \in asked'
               /\ <<e, serving'[e].grant>> \in heldSince'[serving'[e].nonce]
        BY <3>1, <3>2 DEF Honest
      <4>2. \A b \in bodies' : MadeSince(b, asked', heldSince')
        BY <3>1, <3>2, MadeSinceGrows DEF Honest
      <4>3. \A e \in Devices, m \in asked' : <<e, held'[e]>> \in heldSince'[m]
        BY <3>1, <3>2 DEF Honest, TypeOK
      <4>4. \A m \in Nonces : accepted'[m] # None => m \in asked'
        BY <3>1 DEF Honest
      <4> QED
        BY <4>1, <4>2, <4>3, <4>4 DEF Honest
    <3>5. AcceptedWasHeld'
      <4> SUFFICES ASSUME NEW m \in Nonces, accepted[m] # None
                   PROVE accepted[m] \in heldSince'[m]
        BY <3>1 DEF AcceptedWasHeld
      <4>1. m \in asked
          BY DEF AcceptedWasHeld, Honest
      <4> QED
        BY <3>2, <4>1 DEF AcceptedWasHeld
    <3> QED
      BY <3>3, <3>4, <3>5
  <2>3. ASSUME NEW d \in Devices, NEW n \in Nonces, Receive(d, n) PROVE IInv'
    <3>1. TypeOK'
      BY <2>3 DEF Receive, TypeOK, Requests
    <3>2. Honest'
      BY <2>3 DEF Receive, Honest, TypeOK
    <3> QED
      BY <2>3, <3>1, <3>2 DEF Receive, AcceptedWasHeld
  <2>4. ASSUME NEW d \in Devices, NEW x \in Extras, Answer(d, x) PROVE IInv'
    <3>1. serving[d] \in Requests
      BY <2>4 DEF Answer, TypeOK
    <3> DEFINE n == serving[d].nonce
               a == serving[d].grant
    <3>2. n \in Nonces /\ n \in asked /\ a \in Holdings /\ <<d, a>> \in heldSince[n]
      BY <2>4, <3>1 DEF Answer, Honest, Requests
    <3>3. /\ bodies' = bodies \cup {Document(d, a, n, x)}
          /\ serving' = [serving EXCEPT ![d] = None]
          /\ UNCHANGED <<held, asked, accepted, heldSince>>
      BY <2>4 DEF Answer
    <3> HIDE DEF n, a
    <3>4. TypeOK'
      <4>1. Document(d, a, n, x) \in Bodies
        BY <3>2, DocumentType
      <4> QED
        BY <3>3, <4>1 DEF TypeOK
    <3>5. Honest'
      <4>1. \A b \in bodies' : MadeSince(b, asked', heldSince')
        <5>1. MadeSince(Document(d, a, n, x), asked, heldSince)
          BY <3>2, ZenonT(30) DEF MadeSince
        <5> QED
          BY <3>3, <5>1 DEF Honest
      <4>2. \A e \in Devices : serving'[e] # None => serving'[e] = serving[e]
        BY <3>3 DEF TypeOK
      <4> QED
        BY <3>3, <4>1, <4>2 DEF Honest
    <3> QED
      BY <3>3, <3>4, <3>5 DEF AcceptedWasHeld
  <2>5. ASSUME NEW d \in Devices, PowerCut(d) PROVE IInv'
    <3>1. \A e \in Devices : serving'[e] # None => serving'[e] = serving[e]
      BY <2>5 DEF PowerCut, TypeOK
    <3>2. TypeOK'
      BY <2>5 DEF PowerCut, TypeOK
    <3> QED
      BY <2>5, <3>1, <3>2 DEF PowerCut, Honest, AcceptedWasHeld
  <2>6. ASSUME NEW m \in Nonces, NEW b \in bodies, Verify(m, b) PROVE IInv'
    <3>1. PICK d \in Devices, n \in asked, a \in Holdings, x \in Extras :
              b = Document(d, a, n, x) /\ <<d, a>> \in heldSince[n]
      <4>1. MadeSince(b, asked, heldSince)
        BY DEF Honest
      <4> QED
        BY <4>1, ZenonT(30) DEF MadeSince
    <3>2. n \in Nonces
      BY DEF TypeOK
    <3>3. m = n /\ Claimed(b) = a
      BY <2>6, <3>1, <3>2, VerifiedIsSigned DEF Verify
    <3>4. b.device_did = d
      BY <3>1, DocumentFields
    <3>5. accepted' = [accepted EXCEPT ![m] = <<d, a>>]
          /\ UNCHANGED <<held, asked, serving, bodies, heldSince>>
      BY <2>6, <3>3, <3>4 DEF Verify
    <3>6. TypeOK'
      BY <3>5 DEF TypeOK
    <3>7. AcceptedWasHeld'
      BY <3>1, <3>3, <3>5 DEF AcceptedWasHeld, TypeOK
    <3>8. \A k \in Nonces : accepted'[k] # None => k \in asked
      BY <2>6, <3>5 DEF Verify, Honest, TypeOK
    <3>9. Honest'
      BY <3>5, <3>8 DEF Honest
    <3> QED
      BY <3>6, <3>7, <3>9
  <2>7. ASSUME NEW b \in bodies, Lose(b) PROVE IInv'
    BY <2>7 DEF Lose, TypeOK, Honest, AcceptedWasHeld
  <2>8. CASE UNCHANGED vars
    BY <2>8 DEF vars, TypeOK, Honest, AcceptedWasHeld
  <2> QED
    BY <2>1, <2>2, <2>3, <2>4, <2>5, <2>6, <2>7, <2>8 DEF Next
<1> QED
  BY <1>1, <1>2, PTL DEF Spec

\* StatusDocument::write: the answers on the network are documents, and what
\* a verifier believes is a device and a holding.
THEOREM TypeCorrect == Spec => []TypeOK
<1>1. IInv => TypeOK
  BY DEF IInv
<1> QED
  BY <1>1, Invariance, PTL

\* A verifier believes of a device only what it held since the verifier
\* asked (StatusProof::verify over prehash, with the nonce in the message).
THEOREM BeliefsAreFresh == Spec => []AcceptedWasHeld
<1>1. IInv => AcceptedWasHeld
  BY DEF IInv
<1> QED
  BY <1>1, Invariance, PTL

\* Every answer bears out its own signature, whatever other fields a
\* firmware serves (StatusDocument::signed).
THEOREM AnswersBearOut == Spec => []AnswersVerify
<1>1. IInv => AnswersVerify
  <2> SUFFICES ASSUME IInv, NEW b \in bodies
               PROVE (\E n \in asked : Verifies(n, b)) /\ b.pair = b.owner_did
    BY DEF AnswersVerify
  <2>1. PICK d \in Devices, n \in asked, a \in Holdings, x \in Extras : b = Document(d, a, n, x)
    <3>1. MadeSince(b, asked, heldSince)
      BY DEF IInv, Honest
    <3> QED
      BY <3>1, ZenonT(30) DEF MadeSince
  <2>2. /\ b.device_did = d
        /\ b.device_sig = Sign(d, Message(n, d, b.owner_did, b.adoption_kind, b.adoption))
        /\ b.pair = b.owner_did
    BY <2>1, DocumentFields
  <2>3. b.adoption = None \/ \E g \in Grants : g.bytes = b.adoption /\ g.owner = b.owner_did
    <3>1. CASE a = None
      BY <2>1, <3>1, DocumentFields
    <3>2. CASE a # None
      BY <2>1, <3>2, DocumentFields DEF Holdings
    <3> QED
      BY <3>1, <3>2
  <2> QED
    BY <2>2, <2>3 DEF Verifies
<1> QED
  BY <1>1, Invariance, PTL
=============================================================================
