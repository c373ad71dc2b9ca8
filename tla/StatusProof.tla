------------------------------ MODULE StatusProof ------------------------------
(***************************************************************************)
(* The signed status: a verifier on the local network asks                 *)
(* /v1/status?nonce=, a device answers with what its identity store        *)
(* presents (settings_adoption::stored) and a signature over StatusProof.  *)
(* Requests and answers are lost, repeated, delayed and overtake one       *)
(* another; meanwhile devices are adopted and forget their owners.         *)
(*                                                                         *)
(* SHA-256 tells all byte strings apart, and a signature is the signer     *)
(* with the message it covers.  The verifier is not in this repository: it *)
(* is what status.rs says one checks, and takes one answer per nonce.      *)
(***************************************************************************)
EXTENDS Naturals, FiniteSets

CONSTANTS
    Devices,   \* device DIDs
    Grants,    \* adoptions: [owner, kind, bytes]
    Nonces,    \* what verifiers draw, each once
    Extras,    \* the other fields a firmware serves: sets of field names
    Other,     \* the value of such a field
    MaxBodies, \* bound: answers on the network at a time
    None       \* an absent field, an empty string, the zero hash

ASSUME ConstantsAssumption ==
    /\ None \notin Grants
    /\ \A g \in Grants : None \notin {g.owner, g.kind, g.bytes}
    /\ \A g \in Grants : g = [owner |-> g.owner, kind |-> g.kind, bytes |-> g.bytes]
    /\ \A x \in Extras : x \subseteq STRING
    /\ \A g \in Grants : Other \notin {g.owner, g.kind, g.bytes}
    /\ Other # None /\ MaxBodies \in Nat

Holdings == Grants \cup {None}
Requests == [nonce : Nonces, grant : Holdings]

ASSUME NoneAssumption == None \notin Requests /\ None \notin Devices \X Holdings

VARIABLES
    held,      \* what each device's identity store presents
    asked,     \* the nonces verifiers have sent out
    serving,   \* RAM of each device: the request in hand, with what stored returned
    bodies,    \* answers on the network
    accepted,  \* for each nonce the device and the grant the verifier believes
    heldSince  \* history: what each device held at some time since a nonce was drawn

vars == <<held, asked, serving, bodies, accepted, heldSince>>

-----------------------------------------------------------------------------
(* The message and the document. *)

\* (variant: the same nonce in every message)
MessageOneNonce(nonce, device, owner, kind, bytes) ==
    [nonce |-> CHOOSE n \in Nonces : TRUE, device_did |-> device, owner_did |-> owner,
     adoption_kind |-> kind, adoption_hash |-> bytes]

\* What is hashed and signed; the hash of bytes stands for itself.
Message(nonce, device, owner, kind, bytes) ==
    [nonce |-> nonce, device_did |-> device, owner_did |-> owner,
     adoption_kind |-> kind, adoption_hash |-> bytes]

\* StatusProof::unadopted and ::adopted.
Proof(nonce, device, a) ==
    IF a = None THEN Message(nonce, device, None, None, None)
    ELSE Message(nonce, device, a.owner, a.kind, a.bytes)

Owners == {g.owner : g \in Grants} \cup {None}
Kinds == {g.kind : g \in Grants} \cup {None}
Bytes == {g.bytes : g \in Grants} \cup {None}

Sign(device, message) == [signer |-> device, over |-> message]

\* The contract's own fields that depend on what the device holds.
FIELDS == {"pair", "device_did", "owner_did", "adoption_kind", "adoption", "device_sig"}

\* (variant: any other field is served)
ServedAll(extra) == extra

\* The other fields that are served.
Served(extra) == extra \ FIELDS

OtherOr(f, extra) == IF f \in Served(extra) THEN Other ELSE None

\* StatusDocument::signed: the other fields first, the contract's over them.
Document(device, a, nonce, extra) ==
    [pair |-> IF a = None THEN None ELSE a.owner,
     device_did |-> device,
     owner_did |-> IF a = None THEN OtherOr("owner_did", extra) ELSE a.owner,
     adoption_kind |-> IF a = None THEN OtherOr("adoption_kind", extra) ELSE a.kind,
     adoption |-> IF a = None THEN OtherOr("adoption", extra) ELSE a.bytes,
     device_sig |-> Sign(device, Proof(nonce, device, a))]

\* The verifier's check of a body against its nonce: the device's signature
\* over the claims as the body makes them, and the adoption's owner.
Verifies(nonce, b) ==
    /\ b.device_sig = Sign(b.device_did, Message(nonce, b.device_did, b.owner_did,
                                                 b.adoption_kind, b.adoption))
    /\ b.adoption = None \/ \E g \in Grants : g.bytes = b.adoption /\ g.owner = b.owner_did

Claimed(b) == IF b.adoption = None THEN None
              ELSE [owner |-> b.owner_did, kind |-> b.adoption_kind, bytes |-> b.adoption]

-----------------------------------------------------------------------------
Init ==
    /\ held = [d \in Devices |-> None]
    /\ asked = {}
    /\ serving = [d \in Devices |-> None]
    /\ bodies = {}
    /\ accepted = [n \in Nonces |-> None]
    /\ heldSince = [n \in Nonces |-> {}]

\* A device is adopted, follows its owner's newer grant or forgets.
Hold(d, a) ==
    /\ held' = [held EXCEPT ![d] = a]
    /\ heldSince' = [n \in Nonces |-> heldSince[n] \cup IF n \in asked THEN {<<d, a>>} ELSE {}]
    /\ UNCHANGED <<asked, serving, bodies, accepted>>

Ask(n) ==
    /\ n \notin asked
    /\ asked' = asked \cup {n}
    /\ heldSince' = [heldSince EXCEPT ![n] = {<<d, held[d]>> : d \in Devices}]
    /\ UNCHANGED <<held, serving, bodies, accepted>>

\* A request arrives, for the first time or again, soon or late: the device
\* reads what it holds.
Receive(d, n) ==
    /\ n \in asked /\ serving[d] = None
    /\ serving' = [serving EXCEPT ![d] = [nonce |-> n, grant |-> held[d]]]
    /\ UNCHANGED <<held, asked, bodies, accepted, heldSince>>

\* It signs and answers, what it holds having changed or not.
Answer(d, extra) ==
    /\ serving[d] # None
    /\ Cardinality(bodies) < MaxBodies
    /\ bodies' = bodies \cup {Document(d, serving[d].grant, serving[d].nonce, extra)}
    /\ serving' = [serving EXCEPT ![d] = None]
    /\ UNCHANGED <<held, asked, accepted, heldSince>>

PowerCut(d) ==
    /\ serving[d] # None
    /\ serving' = [serving EXCEPT ![d] = None]
    /\ UNCHANGED <<held, asked, bodies, accepted, heldSince>>

\* An answer reaches whoever waits for a nonce, and stays to be repeated.
Verify(n, b) ==
    /\ n \in asked /\ accepted[n] = None
    /\ Verifies(n, b)
    /\ accepted' = [accepted EXCEPT ![n] = <<b.device_did, Claimed(b)>>]
    /\ UNCHANGED <<held, asked, serving, bodies, heldSince>>

Lose(b) == bodies' = bodies \ {b} /\ UNCHANGED <<held, asked, serving, accepted, heldSince>>

Next ==
    \/ \E d \in Devices :
           \/ \E a \in Holdings : Hold(d, a)
           \/ \E n \in Nonces : Receive(d, n)
           \/ \E extra \in Extras : Answer(d, extra)
           \/ PowerCut(d)
    \/ \E n \in Nonces : Ask(n) \/ \E b \in bodies : Verify(n, b)
    \/ \E b \in bodies : Lose(b)

Spec == Init /\ [][Next]_vars

-----------------------------------------------------------------------------
(* Properties. *)

Messages == [nonce : Nonces, device_did : Devices, owner_did : Owners,
             adoption_kind : Kinds, adoption_hash : Bytes]
Bodies == [pair : Owners, device_did : Devices, owner_did : Owners, adoption_kind : Kinds,
           adoption : Bytes, device_sig : [signer : Devices, over : Messages]]

\* A field of the contract never holds another field's value.
TypeOK ==
    /\ held \in [Devices -> Holdings]
    /\ asked \subseteq Nonces
    /\ serving \in [Devices -> Requests \cup {None}]
    /\ bodies \subseteq Bodies
    /\ accepted \in [Nonces -> (Devices \X Holdings) \cup {None}]
    /\ heldSince \in [Nonces -> SUBSET (Devices \X Holdings)]

\* "answer to a verifier's fresh nonce": a device a verifier believes to
\* belong to an owner held that very grant at some time after the verifier
\* asked, however late, repeated or crossed the messages were and whatever
\* was adopted or forgotten meanwhile.
AcceptedWasHeld == \A n \in Nonces : accepted[n] # None => accepted[n] \in heldSince[n]

\* An answer bears itself out: the claims the body makes are the ones that
\* were signed, whatever other fields the firmware serves, so that no
\* verifier refuses what a device honestly answered, and what a reader of
\* the discovery fields sees is what a verifier sees.
AnswersVerify ==
    \A b \in bodies : (\E n \in asked : Verifies(n, b)) /\ b.pair = b.owner_did
=============================================================================
