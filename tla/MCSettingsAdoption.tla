------------------------- MODULE MCSettingsAdoption -------------------------
(* Instances of SettingsAdoption: two owners, two devices, three roster     *)
(* versions, one expiry.                                                    *)
EXTENDS SettingsAdoption, TLC

CONSTANTS ann, bob, me, other

MCOwners == {ann, bob}
MCDevices == {me, other}

Container(form, device, owner, version, expires, signed) ==
    [form |-> form, device |-> device, owner |-> owner,
     version |-> version, expires |-> expires, signed |-> signed]

\* Every owner's statement for this device at every version, one for another
\* device, a malformed one, one that is too long, and an envelope, which the
\* settings do not take.
MCDeliverable ==
    {Container("statement", me, o, v, 0, FALSE) : o \in MCOwners, v \in 0 .. MaxVersion}
    \cup {Container("statement", other, o, 1, 0, TRUE) : o \in MCOwners}
    \cup {Container("malformed", me, o, 1, 0, TRUE) : o \in MCOwners}
    \cup {Container("too_long", me, o, 1, 0, TRUE) : o \in MCOwners}
    \cup {Container("v1", me, o, 1, 0, TRUE) : o \in MCOwners}

\* What the mesh brings: good envelopes, one for another device, one whose
\* signature fails and one that expires.
MCEnvelopes ==
    {Container("v1", me, o, v, 0, TRUE) : o \in MCOwners, v \in 1 .. MaxVersion}
    \cup {Container("v1", other, o, 1, 0, TRUE) : o \in MCOwners}
    \cup {Container("v1", me, o, 1, 0, FALSE) : o \in MCOwners}
    \cup {Container("v1", me, o, 1, 1, TRUE) : o \in MCOwners}

NoEnvelopes == {}

Symmetry == Permutations(MCOwners)
=============================================================================
