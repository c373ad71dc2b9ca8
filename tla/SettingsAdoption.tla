-------------------------- MODULE SettingsAdoption --------------------------
(***************************************************************************)
(* The device's owner record: an adoption delivered with the settings and  *)
(* taken into the identity store at boot (apply), an adoption brought by   *)
(* the mesh (Adoption::accept and the mesh's own writes), giving the       *)
(* device away (forget), and what the device presents (stored).            *)
(*                                                                         *)
(* Every key is one variable and every put or remove is one action, so     *)
(* that the power may fail between any two writes.  A replace keeps the    *)
(* old value until the new one is in (AtomicReplace) or loses both when    *)
(* the power fails inside it, as the Track B store documents.              *)
(***************************************************************************)
EXTENDS Naturals

CONSTANTS
    Owners,         \* the owners' genesis keys
    Devices, Me,    \* device DIDs, and this device's
    MaxVersion,     \* roster versions are 0..MaxVersion (u32)
    MaxTime,        \* times are 0..MaxTime (u64 seconds); an expiry of 0 is never
    None,           \* an absent key
    Deliverable,    \* what a deployer may write to the settings key
    Envelopes,      \* what the mesh may bring
    AtomicReplace,  \* a put over a stored value never loses the stored one
    SettingsHeld,   \* the deployer rewrites the settings only once they were taken
    Faults          \* a read or a write may fail

Versions == 0 .. MaxVersion
Times == 0 .. MaxTime
Pins == [owner : Owners, version : Versions]

\* Adoption bytes, as far as the code tells them apart.  "malformed" stands
\* for every structural defect check_statement refuses, the issuer that is
\* not the owner among them; "too_long" for more than ADOPT_MAX bytes.
Forms == {"statement", "v1", "malformed", "too_long"}
Containers == [form : Forms, device : Devices, owner : Owners,
               version : Versions, expires : Times, signed : BOOLEAN]

ASSUME ConstantsAssumption ==
    /\ Me \in Devices
    /\ MaxVersion \in Nat /\ MaxTime \in Nat
    /\ None \notin Pins /\ None \notin Containers /\ None \notin Owners
    /\ None \notin Times
    /\ Deliverable \subseteq Containers
    /\ Envelopes \subseteq {e \in Containers : e.form = "v1"}
    /\ AtomicReplace \in BOOLEAN /\ SettingsHeld \in BOOLEAN /\ Faults \in BOOLEAN

ApplyWrites == {"put_adopt", "put_kind", "put_owner", "put_prov", "clear", "refuse"}
ForgetWrites == {"forget_adopt", "forget_kind", "forget_prov", "forget_owner"}
MeshWrites == {"mesh_kind", "mesh_adopt", "mesh_owner"}
Steps == {"off", "apply", "running"} \cup ApplyWrites \cup ForgetWrites \cup MeshWrites

Outcomes == {"none", "nothing", "adopted", "rehomed", "refused", "error"}

VARIABLES
    adopt,           \* settings: the delivered container
    mid_adopt,       \* identity: the stored grant
    mid_adopt_kind,  \* identity: the kind key says mata-statement
    mid_owner,       \* identity: the owner pin
    mid_owner_prov,  \* identity: the provisional mark
    pc,              \* where the device is
    taking,          \* RAM: the container being stored
    pinned,          \* RAM: apply read a pin before it wrote
    outcome,         \* what the last boot's apply returned
    claimed          \* history: the first owner pinned since the last forget

settings == <<adopt>>
identity == <<mid_adopt, mid_adopt_kind, mid_owner, mid_owner_prov>>
ram == <<taking, pinned>>
vars == <<adopt, mid_adopt, mid_adopt_kind, mid_owner, mid_owner_prov,
          pc, taking, pinned, outcome, claimed>>

-----------------------------------------------------------------------------
(* The checks. *)

\* The structural check: no signature, no expiry.
CheckStatement(c) == c.form = "statement" /\ c.device = Me

\* (variant: the version one too high)
PinOfNextVersion(c) == [owner |-> c.owner, version |-> c.version + 1]

PinOf(c) == [owner |-> c.owner, version |-> c.version]

\* (variants: the owner not compared, the version not compared, the same
\* version refused)
FitsPinAnyOwner(c, pin) == pin # None => c.version >= pin.version
FitsPinAnyVersion(c, pin) == pin # None => c.owner = pin.owner
FitsPinNewerOnly(c, pin) == pin # None => c.owner = pin.owner /\ c.version > pin.version

\* Trust on first use, then the same key and a roster version not older.
FitsPin(c, pin) == pin # None => c.owner = pin.owner /\ c.version >= pin.version

Admits(c, pin) == CheckStatement(c) /\ FitsPin(c, pin)

\* Adoption::accept at `now`, which is None on a device without a clock.
Accept(e, pin, now) ==
    /\ e.device = Me
    /\ e.signed
    /\ FitsPin(e, pin)
    /\ now # None /\ e.expires # 0 => now < e.expires

\* What /v1/status presents of the identity store: the grant, or None.
Stored ==
    IF mid_adopt = None THEN None
    ELSE IF /\ mid_adopt.device = Me
            /\ mid_adopt.form = IF mid_adopt_kind THEN "statement" ELSE "v1"
         THEN mid_adopt ELSE None

Provisional == mid_owner_prov

-----------------------------------------------------------------------------
Init ==
    /\ adopt = None
    /\ mid_adopt = None /\ mid_adopt_kind = FALSE
    /\ mid_owner = None /\ mid_owner_prov = FALSE
    /\ pc = "off" /\ taking = None /\ pinned = FALSE
    /\ outcome = "none" /\ claimed = None

Goto(from, to) == pc = from /\ pc' = to

\* The deployer rewrites the settings image over the cable, with an adoption
\* in it or without; the identity store is another partition.
Deliver(c) ==
    /\ pc = "off"
    /\ SettingsHeld => adopt = None
    /\ adopt' = c
    /\ UNCHANGED <<identity, pc, ram, outcome, claimed>>

Boot == Goto("off", "apply") /\ UNCHANGED <<settings, identity, ram, outcome, claimed>>

ApplyNothing ==
    /\ Goto("apply", "running")
    /\ adopt = None
    /\ outcome' = "nothing"
    /\ UNCHANGED <<settings, identity, ram, claimed>>

ApplyRefuse ==
    /\ Goto("apply", "refuse")
    /\ adopt # None /\ ~Admits(adopt, mid_owner)
    /\ UNCHANGED <<settings, identity, ram, outcome, claimed>>

\* (variant: the settings cleared before the grant is stored)
ApplyAdmitClearsFirst ==
    /\ Goto("apply", "put_adopt")
    /\ adopt # None /\ Admits(adopt, mid_owner)
    /\ taking' = adopt /\ pinned' = (mid_owner # None) /\ adopt' = None
    /\ UNCHANGED <<identity, outcome, claimed>>

ApplyAdmit ==
    /\ Goto("apply", "put_adopt")
    /\ adopt # None /\ Admits(adopt, mid_owner)
    /\ taking' = adopt /\ pinned' = (mid_owner # None)
    /\ UNCHANGED <<settings, identity, outcome, claimed>>

\* (variant: a refused container is left in the settings)
RefuseKeeps ==
    /\ Goto("refuse", "running")
    /\ outcome' = "refused"
    /\ UNCHANGED <<settings, identity, ram, claimed>>

\* settings.remove on a refusal.
RefuseClear ==
    /\ Goto("refuse", "running")
    /\ adopt' = None /\ outcome' = "refused"
    /\ UNCHANGED <<identity, ram, claimed>>

PutAdoption ==
    /\ Goto("put_adopt", "put_kind")
    /\ mid_adopt' = taking
    /\ UNCHANGED <<settings, mid_adopt_kind, mid_owner, mid_owner_prov, ram, outcome, claimed>>

PutKind ==
    /\ Goto("put_kind", "put_owner")
    /\ mid_adopt_kind' = TRUE
    /\ UNCHANGED <<settings, mid_adopt, mid_owner, mid_owner_prov, ram, outcome, claimed>>

Claim(owner) == claimed' = IF claimed = None THEN owner ELSE claimed

\* (variant: the provisional mark forgotten)
PutOwnerUnmarked ==
    /\ Goto("put_owner", "clear")
    /\ mid_owner' = PinOf(taking)
    /\ Claim(taking.owner)
    /\ UNCHANGED <<settings, mid_adopt, mid_adopt_kind, mid_owner_prov, ram, outcome>>

PutOwner ==
    /\ Goto("put_owner", "put_prov")
    /\ mid_owner' = PinOf(taking)
    /\ Claim(taking.owner)
    /\ UNCHANGED <<settings, mid_adopt, mid_adopt_kind, mid_owner_prov, ram, outcome>>

PutProv ==
    /\ Goto("put_prov", "clear")
    /\ mid_owner_prov' = TRUE
    /\ UNCHANGED <<settings, mid_adopt, mid_adopt_kind, mid_owner, ram, outcome, claimed>>

\* settings.remove after the writes, and the outcome.
ClearSettings ==
    /\ Goto("clear", "running")
    /\ adopt' = None /\ taking' = None
    /\ outcome' = IF pinned THEN "rehomed" ELSE "adopted"
    /\ UNCHANGED <<identity, pinned, claimed>>

-----------------------------------------------------------------------------
(* forget: a hand on the device, while it runs. *)

Forget == Goto("running", "forget_adopt") /\ UNCHANGED <<settings, identity, ram, outcome, claimed>>

ForgetAdoption ==
    /\ Goto("forget_adopt", "forget_kind")
    /\ mid_adopt' = None
    /\ UNCHANGED <<settings, mid_adopt_kind, mid_owner, mid_owner_prov, ram, outcome, claimed>>

ForgetKind ==
    /\ Goto("forget_kind", "forget_prov")
    /\ mid_adopt_kind' = FALSE
    /\ UNCHANGED <<settings, mid_adopt, mid_owner, mid_owner_prov, ram, outcome, claimed>>

ForgetProv ==
    /\ Goto("forget_prov", "forget_owner")
    /\ mid_owner_prov' = FALSE
    /\ UNCHANGED <<settings, mid_adopt, mid_adopt_kind, mid_owner, ram, outcome, claimed>>

ForgetOwner ==
    /\ Goto("forget_owner", "running")
    /\ mid_owner' = None /\ claimed' = None
    /\ UNCHANGED <<settings, mid_adopt, mid_adopt_kind, mid_owner_prov, ram, outcome>>

-----------------------------------------------------------------------------
(* The mesh's adoption.  accept is this crate's; the writes are the        *)
(* caller's: it leaves no kind key, stores the envelope, then the pin      *)
(* accept returned.                                                        *)

MeshAccept(e, now) ==
    /\ Goto("running", "mesh_kind")
    /\ Accept(e, mid_owner, now)
    /\ taking' = e
    /\ UNCHANGED <<settings, identity, pinned, outcome, claimed>>

MeshKind ==
    /\ Goto("mesh_kind", "mesh_adopt")
    /\ mid_adopt_kind' = FALSE
    /\ UNCHANGED <<settings, mid_adopt, mid_owner, mid_owner_prov, ram, outcome, claimed>>

MeshAdoption ==
    /\ Goto("mesh_adopt", "mesh_owner")
    /\ mid_adopt' = taking
    /\ UNCHANGED <<settings, mid_adopt_kind, mid_owner, mid_owner_prov, ram, outcome, claimed>>

MeshOwner ==
    /\ Goto("mesh_owner", "running")
    /\ mid_owner' = PinOf(taking) /\ taking' = None
    /\ Claim(taking.owner)
    /\ UNCHANGED <<settings, mid_adopt, mid_adopt_kind, mid_owner_prov, pinned, outcome>>

-----------------------------------------------------------------------------
(* What the stores and the power do. *)

\* A get, put or remove that returns an error ends the call it was made in.
AccessFails ==
    /\ Faults
    /\ pc \in {"apply"} \cup ApplyWrites \cup ForgetWrites \cup MeshWrites
    /\ pc' = "running" /\ taking' = None
    /\ outcome' = IF pc \in {"apply"} \cup ApplyWrites THEN "error" ELSE outcome
    /\ UNCHANGED <<settings, identity, pinned, claimed>>

PowerGone == pc' = "off" /\ taking' = None /\ pinned' = FALSE /\ outcome' = "none"

PowerCut ==
    /\ pc # "off"
    /\ PowerGone
    /\ UNCHANGED <<settings, identity, claimed>>

\* The power fails inside a put over a stored value: the old entry is gone,
\* the new one is not in yet.
CutInReplace ==
    /\ ~AtomicReplace
    /\ \/ /\ pc \in {"put_adopt", "mesh_adopt"} /\ mid_adopt # None
          /\ mid_adopt' = None
          /\ UNCHANGED <<mid_adopt_kind, mid_owner, mid_owner_prov>>
       \/ /\ pc = "put_kind" /\ mid_adopt_kind
          /\ mid_adopt_kind' = FALSE
          /\ UNCHANGED <<mid_adopt, mid_owner, mid_owner_prov>>
       \/ /\ pc \in {"put_owner", "mesh_owner"} /\ mid_owner # None
          /\ mid_owner' = None
          /\ UNCHANGED <<mid_adopt, mid_adopt_kind, mid_owner_prov>>
       \/ /\ pc = "put_prov" /\ mid_owner_prov
          /\ mid_owner_prov' = FALSE
          /\ UNCHANGED <<mid_adopt, mid_adopt_kind, mid_owner>>
    /\ PowerGone
    /\ UNCHANGED <<settings, claimed>>

-----------------------------------------------------------------------------
Apply == \/ ApplyNothing \/ ApplyRefuse \/ ApplyAdmit \/ RefuseClear
         \/ PutAdoption \/ PutKind \/ PutOwner \/ PutProv \/ ClearSettings

Forgetting == ForgetAdoption \/ ForgetKind \/ ForgetProv \/ ForgetOwner

MeshStoring == MeshKind \/ MeshAdoption \/ MeshOwner

Next ==
    \/ \E c \in Deliverable \cup {None} : Deliver(c)
    \/ Boot
    \/ Apply
    \/ Forget
    \/ Forgetting
    \/ \E e \in Envelopes, now \in Times \cup {None} : MeshAccept(e, now)
    \/ MeshStoring
    \/ AccessFails
    \/ PowerCut
    \/ CutInReplace

Spec == Init /\ [][Next]_vars

\* The device runs what it started and a device without power gets it back;
\* nobody owes a delivery, a request to forget or a mesh adoption.
Fairness == WF_vars(Boot) /\ WF_vars(Apply) /\ WF_vars(Forgetting) /\ WF_vars(MeshStoring)

FairSpec == Spec /\ Fairness

-----------------------------------------------------------------------------
(* Properties. *)

TypeOK ==
    /\ adopt \in Containers \cup {None}
    /\ mid_adopt \in Containers \cup {None}
    /\ mid_adopt_kind \in BOOLEAN
    /\ mid_owner \in Pins \cup {None}
    /\ mid_owner_prov \in BOOLEAN
    /\ pc \in Steps
    /\ taking \in Containers \cup {None}
    /\ pinned \in BOOLEAN
    /\ outcome \in Outcomes
    /\ claimed \in Owners \cup {None}

\* The pin, seen as the abstract binding: with a store whose replace is
\* atomic, no interleaving of boots, cuts, errors, reflashes and mesh
\* adoptions moves it except as OwnerBinding allows.
Abstract == INSTANCE OwnerBinding WITH bound <- mid_owner, asked <- pc \in ForgetWrites
ImplementsBinding == Abstract!Spec

\* Grant and pin are two keys written one after the other.  Whatever was cut
\* short, a device that holds both holds a grant of the pinned owner and not
\* one older than the pin (apply: grant first, pin second; forget: pin last).
GrantBacksPin ==
    mid_adopt # None /\ mid_owner # None =>
        mid_adopt.owner = mid_owner.owner /\ mid_adopt.version >= mid_owner.version

\* A statement whose storing was interrupted is never refused when the next
\* boot finds it in the settings again.
RedoAdmitted ==
    pc = "refuse" /\ adopt = mid_adopt => adopt.form # "statement"

\* "Never silently rebound": between two completed forgets every pin names
\* the owner of the first.
NeverSilentlyRebound == mid_owner # None => mid_owner.owner = claimed

\* "whatever happens to it, removes it from the settings": once apply has
\* returned nothing is left to be read twice, or to re-adopt a device whose
\* owner was forgotten meanwhile.
SettingsClearedByBoot == pc \in {"running"} \cup ForgetWrites => adopt = None

\* A grant and a pin taken on a structural check are marked provisional by
\* the time apply has returned.
StatementPinMarked ==
    pc = "running" /\ Stored # None /\ mid_owner # None =>
        (mid_adopt_kind => mid_owner_prov)

\* forget: the device is "never left pinned to an owner it holds no grant
\* from without saying so".
NeverPinnedSilently == pc = "running" /\ mid_owner # None => Stored # None

\* The stored grant of an owner who is pinned never gets older.
GrantNeverGoesBack ==
    [][mid_owner # None /\ mid_adopt # None /\ mid_adopt' # None =>
           mid_adopt'.version >= mid_adopt.version]_vars

InForce(c) == /\ mid_adopt = c /\ mid_owner = PinOf(c) /\ mid_owner_prov
              /\ Stored = c /\ adopt = None

CutsStop == <>[][~(PowerCut \/ CutInReplace)]_vars

\* Once the first write of a grant has been started, then however often the
\* power fails, if it at last stays on, the grant comes fully into force:
\* stored, presentable, pinned, marked and gone from the settings.
BegunIsCompleted ==
    CutsStop => \A c \in Deliverable : (pc = "put_adopt" /\ taking = c) ~> InForce(c)

\* Every delivered adoption is at last gone from the settings.
SettingsEmptied == CutsStop => (adopt # None ~> adopt = None)
=============================================================================
