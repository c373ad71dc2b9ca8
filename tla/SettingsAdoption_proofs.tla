----------------------- MODULE SettingsAdoption_proofs -----------------------
(***************************************************************************)
(* SettingsAdoption for every set of owners, every version and every       *)
(* schedule of boots, cuts, errors, deliveries and mesh adoptions.         *)
(*                                                                         *)
(* GrantBacksPin is not inductive: a step that stores what the device is   *)
(* taking keeps it only because that was compared with the pin before the  *)
(* first write and nothing has moved the pin since.  Taken says so, step   *)
(* by step, and Refused says why a container is being removed.             *)
(***************************************************************************)
EXTENDS SettingsAdoption, TLAPS

\* What the device holds in RAM, at every point between two writes.
Taken ==
    /\ pc \in ApplyWrites \ {"refuse"} => taking \in Containers /\ CheckStatement(taking)
    /\ pc \in MeshWrites => taking \in Containers /\ taking.device = Me
    /\ pc \in {"put_adopt", "put_kind", "put_owner"} \cup MeshWrites => FitsPin(taking, mid_owner)
    /\ pc \in {"put_kind", "put_owner", "put_prov", "clear", "mesh_owner"} => mid_adopt = taking

Refused == pc = "refuse" => adopt # None /\ ~Admits(adopt, mid_owner)

\* A stored grant names this device.
StoredIsMine == mid_adopt # None => mid_adopt.device = Me

IInv == TypeOK /\ Taken /\ Refused /\ StoredIsMine /\ GrantBacksPin

\* With a store that never loses a value, the first pin since the last
\* forget is still there unless it was never taken.
ClaimedIsPinned ==
    /\ mid_owner # None => claimed = mid_owner.owner
    /\ mid_owner = None => claimed = None

\* apply reads the settings once and only its last write empties them; the
\* pin it wrote is there until it returns.
Storing ==
    /\ pc \in ApplyWrites \ {"refuse"} => adopt = taking
    /\ pc \in {"put_prov", "clear"} => mid_owner = PinOf(taking)

\* A device that runs, unless a store failed under apply, has been through it.
TakenOnce == pc \in {"running"} \cup ForgetWrites \cup MeshWrites => adopt = None

\* The grant was a statement and its mark is not there: what would write the
\* mark is still in the settings, and will not be refused.
MarkDue ==
    /\ mid_adopt_kind /\ ~mid_owner_prov => adopt # None /\ Admits(adopt, mid_owner)
    /\ pc = "clear" => mid_owner_prov
    /\ pc \in {"forget_prov", "forget_owner", "mesh_adopt", "mesh_owner"} => ~mid_adopt_kind

\* A pin that a cut took away is still in the settings, of the same owner.
ClaimWaits ==
    /\ mid_owner # None => claimed = mid_owner.owner
    /\ mid_owner = None /\ claimed # None =>
           adopt # None /\ CheckStatement(adopt) /\ adopt.owner = claimed

\* A grant newer than the pin is still in the settings.
GrantAhead ==
    /\ mid_adopt # None => CheckStatement(mid_adopt)
    /\ mid_adopt # None /\ mid_owner # None =>
           mid_adopt.version = mid_owner.version \/ mid_adopt = adopt

-----------------------------------------------------------------------------
(* The checks. *)

\* A container's pin is a pin, never the absent marker.
LEMMA PinOfType == ASSUME NEW c \in Containers
                   PROVE  PinOf(c) \in Pins /\ PinOf(c) # None
BY ConstantsAssumption DEF Containers, Pins, PinOf, Versions

\* A container that fits the pin still fits it after the pin moved to it.
LEMMA FitsOwnPin == ASSUME NEW c \in Containers PROVE FitsPin(c, PinOf(c))
BY ConstantsAssumption DEF FitsPin, PinOf, Containers, Versions

-----------------------------------------------------------------------------
(* Every step keeps the state well typed. *)

LEMMA TypeInit == Init => TypeOK
BY ConstantsAssumption DEF Init, TypeOK, Steps, Outcomes

LEMMA TypeNext == TypeOK /\ Taken /\ [Next]_vars => TypeOK'
<1> SUFFICES ASSUME TypeOK, Taken, [Next]_vars PROVE TypeOK'
    OBVIOUS
<1> USE ConstantsAssumption DEF TypeOK, Goto, settings, identity, ram, Steps,
        ApplyWrites, ForgetWrites, MeshWrites, Outcomes
<1>1. ASSUME NEW c \in Deliverable \cup {None}, Deliver(c) PROVE TypeOK'
    BY <1>1 DEF Deliver
<1>2. CASE Boot
    BY <1>2 DEF Boot
<1>3. CASE Apply
    <2>1. CASE ApplyNothing
        BY <2>1 DEF ApplyNothing
    <2>2. CASE ApplyRefuse
        BY <2>2 DEF ApplyRefuse
    <2>3. CASE ApplyAdmit
        BY <2>3 DEF ApplyAdmit
    <2>4. CASE RefuseClear
        BY <2>4 DEF RefuseClear
    <2>5. CASE PutAdoption
        BY <2>5 DEF PutAdoption
    <2>6. CASE PutKind
        BY <2>6 DEF PutKind
    <2>7. CASE PutOwner
        <3>1. taking \in Containers
            BY <2>7 DEF PutOwner, Taken
        <3>2. PinOf(taking) \in Pins /\ taking.owner \in Owners
            BY <3>1, PinOfType DEF Containers
        <3> QED
            BY <2>7, <3>2 DEF PutOwner, Claim
    <2>8. CASE PutProv
        BY <2>8 DEF PutProv
    <2>9. CASE ClearSettings
        BY <2>9 DEF ClearSettings
    <2> QED
        BY <1>3, <2>1, <2>2, <2>3, <2>4, <2>5, <2>6, <2>7, <2>8, <2>9 DEF Apply
<1>4. CASE Forget
    BY <1>4 DEF Forget
<1>5. CASE Forgetting
    BY <1>5 DEF Forgetting, ForgetAdoption, ForgetKind, ForgetProv, ForgetOwner
<1>6. ASSUME NEW e \in Envelopes, NEW now \in Times \cup {None}, MeshAccept(e, now)
      PROVE  TypeOK'
    BY <1>6 DEF MeshAccept
<1>7. CASE MeshStoring
    <2>1. CASE MeshKind
        BY <2>1 DEF MeshKind
    <2>2. CASE MeshAdoption
        BY <2>2 DEF MeshAdoption
    <2>3. CASE MeshOwner
        <3>1. taking \in Containers
            BY <2>3 DEF MeshOwner, Taken
        <3>2. PinOf(taking) \in Pins /\ taking.owner \in Owners
            BY <3>1, PinOfType DEF Containers
        <3> QED
            BY <2>3, <3>2 DEF MeshOwner, Claim
    <2> QED
        BY <1>7, <2>1, <2>2, <2>3 DEF MeshStoring
<1>8. CASE AccessFails
    BY <1>8 DEF AccessFails
<1>9. CASE PowerCut
    BY <1>9 DEF PowerCut, PowerGone
<1>10. CASE CutInReplace
    BY <1>10 DEF CutInReplace, PowerGone
<1>11. CASE UNCHANGED vars
    BY <1>11 DEF vars
<1> QED
    BY <1>1, <1>2, <1>3, <1>4, <1>5, <1>6, <1>7, <1>8, <1>9, <1>10, <1>11 DEF Next

-----------------------------------------------------------------------------
(* The rest of the inductive invariant. *)

LEMMA RestInit == Init => Taken /\ Refused /\ StoredIsMine /\ GrantBacksPin
BY DEF Init, Taken, Refused, StoredIsMine, GrantBacksPin, ApplyWrites, MeshWrites

LEMMA RestNext == IInv /\ [Next]_vars => Taken' /\ Refused' /\ StoredIsMine' /\ GrantBacksPin'
<1> SUFFICES ASSUME IInv, [Next]_vars
             PROVE  Taken' /\ Refused' /\ StoredIsMine' /\ GrantBacksPin'
    OBVIOUS
<1> DEFINE Rest == Taken /\ Refused /\ StoredIsMine /\ GrantBacksPin
<1> USE ConstantsAssumption DEF IInv, Taken, Refused, StoredIsMine, GrantBacksPin,
        Goto, settings, identity, ram, ApplyWrites, MeshWrites, CheckStatement
<1>1. ASSUME NEW c \in Deliverable \cup {None}, Deliver(c) PROVE Rest'
    BY <1>1 DEF Deliver
<1>2. CASE Boot
    BY <1>2 DEF Boot
<1>3. CASE Apply
    <2>1. CASE ApplyNothing
        BY <2>1 DEF ApplyNothing
    <2>2. CASE ApplyRefuse
        BY <2>2 DEF ApplyRefuse
    <2>3. CASE ApplyAdmit
        BY <2>3 DEF ApplyAdmit, Admits, TypeOK
    <2>4. CASE RefuseClear
        BY <2>4 DEF RefuseClear
    <2>5. CASE PutAdoption
        BY <2>5 DEF PutAdoption, FitsPin
    <2>6. CASE PutKind
        BY <2>6 DEF PutKind
    <2>7. CASE PutOwner
        <3>1. taking \in Containers /\ mid_adopt = taking
            BY <2>7 DEF PutOwner
        <3> QED
            BY <2>7, <3>1 DEF PutOwner, PinOf, Containers, Versions
    <2>8. CASE PutProv
        BY <2>8 DEF PutProv
    <2>9. CASE ClearSettings
        BY <2>9 DEF ClearSettings
    <2> QED
        BY <1>3, <2>1, <2>2, <2>3, <2>4, <2>5, <2>6, <2>7, <2>8, <2>9 DEF Apply
<1>4. CASE Forget
    BY <1>4 DEF Forget
<1>5. CASE Forgetting
    BY <1>5 DEF Forgetting, ForgetAdoption, ForgetKind, ForgetProv, ForgetOwner
<1>6. ASSUME NEW e \in Envelopes, NEW now \in Times \cup {None}, MeshAccept(e, now)
      PROVE  Rest'
    BY <1>6 DEF MeshAccept, Accept
<1>7. CASE MeshStoring
    <2>1. CASE MeshKind
        BY <2>1 DEF MeshKind
    <2>2. CASE MeshAdoption
        BY <2>2 DEF MeshAdoption, FitsPin
    <2>3. CASE MeshOwner
        <3>1. taking \in Containers /\ mid_adopt = taking
            BY <2>3 DEF MeshOwner
        <3> QED
            BY <2>3, <3>1 DEF MeshOwner, PinOf, Containers, Versions
    <2> QED
        BY <1>7, <2>1, <2>2, <2>3 DEF MeshStoring
<1>8. CASE AccessFails
    BY <1>8 DEF AccessFails
<1>9. CASE PowerCut
    BY <1>9 DEF PowerCut, PowerGone
<1>10. CASE CutInReplace
    BY <1>10 DEF CutInReplace, PowerGone
<1>11. CASE UNCHANGED vars
    BY <1>11 DEF vars
<1> QED
    BY <1>1, <1>2, <1>3, <1>4, <1>5, <1>6, <1>7, <1>8, <1>9, <1>10, <1>11 DEF Next

\* The inductive invariant holds of every schedule.
THEOREM Invariance == Spec => []IInv
<1>1. Init => IInv
    BY TypeInit, RestInit DEF IInv
<1>2. IInv /\ [Next]_vars => IInv'
    BY TypeNext, RestNext DEF IInv
<1> QED
    BY <1>1, <1>2, PTL DEF Spec

\* The state is well typed: in particular the pin is always a whole pin.
THEOREM TypeCorrect == Spec => []TypeOK
<1>1. IInv => TypeOK
    BY DEF IInv
<1> QED
    BY <1>1, Invariance, PTL

\* settings_adoption.rs, adoption.rs: a device holding a grant and a pin
\* holds a grant of the pinned owner, not older than the pin, after any
\* sequence of cuts and errors, on stores with and without atomic replace.
THEOREM GrantAlwaysBacksPin == Spec => []GrantBacksPin
<1>1. IInv => GrantBacksPin
    BY DEF IInv
<1> QED
    BY <1>1, Invariance, PTL

\* settings_adoption.rs, the comment in apply: what a cut interrupted is not
\* refused when it is found again.
THEOREM RedoNeverRefused == Spec => []RedoAdmitted
<1>1. IInv => RedoAdmitted
    <2> SUFFICES ASSUME IInv, pc = "refuse", adopt = mid_adopt, adopt.form = "statement"
                 PROVE  FALSE
        BY DEF RedoAdmitted
    <2>1. mid_adopt # None /\ ~Admits(mid_adopt, mid_owner)
        BY DEF IInv, Refused
    <2>2. FitsPin(mid_adopt, mid_owner)
        BY <2>1 DEF IInv, GrantBacksPin, FitsPin
    <2> QED
        BY <2>1, <2>2 DEF IInv, StoredIsMine, Admits, CheckStatement
<1> QED
    BY <1>1, Invariance, PTL

-----------------------------------------------------------------------------
(* With an atomic replace the record implements the abstract binding, and   *)
(* the owner never changes between two completed forgets.                   *)

LEMMA BindingInit == Init => Abstract!Init
BY DEF Init, Abstract!Init, ForgetWrites

LEMMA BindingNext ==
    ASSUME AtomicReplace, IInv, IInv', [Next]_vars
    PROVE  [Abstract!Next]_(Abstract!vars)
<1> USE ConstantsAssumption DEF IInv, Taken, Goto, settings, identity, ram,
        ApplyWrites, ForgetWrites, MeshWrites, Abstract!vars
<1> DEFINE Stutters == mid_owner' = mid_owner /\ (pc' \in ForgetWrites <=> pc \in ForgetWrites)
<1>s. Stutters => UNCHANGED Abstract!vars
    OBVIOUS
<1>p. ASSUME pc \notin ForgetWrites, pc' \notin ForgetWrites, taking \in Containers,
             mid_owner' = PinOf(taking), FitsPin(taking, mid_owner)
      PROVE  Abstract!Next
    <2>1. PinOf(taking) \in Abstract!Pins /\ PinOf(taking) # None
        BY <1>p, PinOfType DEF Abstract!Pins, Abstract!Versions, Pins, Versions
    <2>2. CASE mid_owner = None
        BY <1>p, <2>1, <2>2 DEF Abstract!Next, Abstract!Bind
    <2>3. CASE mid_owner # None
        BY <1>p, <2>1, <2>3 DEF Abstract!Next, Abstract!Renew, FitsPin, PinOf
    <2> QED
        BY <2>2, <2>3
<1>1. ASSUME NEW c \in Deliverable \cup {None}, Deliver(c) PROVE Stutters
    BY <1>1 DEF Deliver
<1>2. CASE Boot
    BY <1>s, <1>2 DEF Boot
<1>3. CASE Apply
    <2>1. CASE PutOwner
        BY <1>p, <2>1 DEF PutOwner
    <2>2. CASE ~PutOwner
        BY <1>s, <1>3, <2>2 DEF Apply, ApplyNothing, ApplyRefuse, ApplyAdmit, RefuseClear,
           PutAdoption, PutKind, PutProv, ClearSettings
    <2> QED
        BY <2>1, <2>2
<1>4. CASE Forget
    BY <1>4 DEF Forget, Abstract!Next, Abstract!Ask
<1>5. CASE Forgetting
    <2>1. CASE ForgetOwner
        BY <2>1 DEF ForgetOwner, Abstract!Next, Abstract!Release
    <2>2. CASE ~ForgetOwner
        BY <1>s, <1>5, <2>2 DEF Forgetting, ForgetAdoption, ForgetKind, ForgetProv
    <2> QED
        BY <2>1, <2>2
<1>6. ASSUME NEW e \in Envelopes, NEW now \in Times \cup {None}, MeshAccept(e, now)
      PROVE  Stutters
    BY <1>6 DEF MeshAccept
<1>7. CASE MeshStoring
    <2>1. CASE MeshOwner
        BY <1>p, <2>1 DEF MeshOwner
    <2>2. CASE ~MeshOwner
        BY <1>s, <1>7, <2>2 DEF MeshStoring, MeshKind, MeshAdoption
    <2> QED
        BY <2>1, <2>2
<1>8. CASE AccessFails
    BY <1>8 DEF AccessFails, Abstract!Next, Abstract!Withdraw
<1>9. CASE PowerCut
    BY <1>9 DEF PowerCut, PowerGone, Abstract!Next, Abstract!Withdraw
<1>10. CASE CutInReplace
    BY <1>10 DEF CutInReplace
<1>11. CASE UNCHANGED vars
    BY <1>s, <1>11 DEF vars
<1> QED
    BY <1>s, <1>1, <1>2, <1>3, <1>4, <1>5, <1>6, <1>7, <1>8, <1>9, <1>10, <1>11 DEF Next

\* settings_adoption.rs, adoption.rs: on a store whose replace is atomic the
\* pin moves only as the abstract binding allows - taken on first use,
\* renewed by the same owner at a version not older, released only by forget.
THEOREM Binding == ASSUME AtomicReplace PROVE Spec => ImplementsBinding
<1>1. Init => Abstract!Init
    BY BindingInit
<1>2. IInv /\ IInv' /\ [Next]_vars => [Abstract!Next]_(Abstract!vars)
    BY BindingNext
<1> QED
    BY <1>1, <1>2, Invariance, PTL DEF Spec, ImplementsBinding, Abstract!Spec

\* The history variable and the pin agree on an atomic store.
LEMMA ClaimedNext ==
    ASSUME AtomicReplace, IInv, ClaimedIsPinned, [Next]_vars
    PROVE  ClaimedIsPinned'
<1> USE ConstantsAssumption DEF IInv, Taken, ClaimedIsPinned, Goto, settings, identity, ram,
        ApplyWrites, MeshWrites
<1>p. ASSUME taking \in Containers, mid_owner' = PinOf(taking), Claim(taking.owner),
             FitsPin(taking, mid_owner)
      PROVE  ClaimedIsPinned'
    <2>1. PinOf(taking) # None /\ PinOf(taking).owner = taking.owner /\ taking.owner # None
        BY <1>p, PinOfType DEF PinOf, Containers
    <2> QED
        BY <1>p, <2>1 DEF Claim, FitsPin
<1>1. CASE PutOwner
    BY <1>p, <1>1 DEF PutOwner
<1>2. CASE MeshOwner
    BY <1>p, <1>2 DEF MeshOwner
<1>3. CASE ForgetOwner
    BY <1>3 DEF ForgetOwner
<1>4. CASE UNCHANGED <<mid_owner, claimed>>
    BY <1>4
<1>5. PutOwner \/ MeshOwner \/ ForgetOwner \/ UNCHANGED <<mid_owner, claimed>>
    BY DEF Next, vars, Deliver, Boot, Apply, ApplyNothing, ApplyRefuse, ApplyAdmit, RefuseClear,
       PutAdoption, PutKind, PutProv, ClearSettings, Forget, Forgetting, ForgetAdoption,
       ForgetKind, ForgetProv, MeshAccept, MeshStoring, MeshKind, MeshAdoption,
       AccessFails, PowerCut, PowerGone, CutInReplace
<1> QED
    BY <1>1, <1>2, <1>3, <1>4, <1>5

\* settings_adoption.rs "Never silently rebound", on an atomic store.
THEOREM Rebinding == ASSUME AtomicReplace PROVE Spec => []NeverSilentlyRebound
<1>1. Init => ClaimedIsPinned
    BY DEF Init, ClaimedIsPinned
<1>2. IInv /\ ClaimedIsPinned /\ [Next]_vars => ClaimedIsPinned'
    BY ClaimedNext
<1>3. ClaimedIsPinned => NeverSilentlyRebound
    BY DEF ClaimedIsPinned, NeverSilentlyRebound
<1> QED
    BY <1>1, <1>2, <1>3, Invariance, PTL DEF Spec
-----------------------------------------------------------------------------
(* What the settings hold until it is in force.  With a deployer who lets   *)
(* the device take what was written, a store may lose a value in a replace. *)

LEMMA StoringInit == Init => Storing
BY DEF Init, Storing, ApplyWrites

LEMMA StoringNext == Storing /\ [Next]_vars => Storing'
<1> SUFFICES ASSUME Storing, [Next]_vars PROVE Storing'
    OBVIOUS
<1> USE DEF Storing, Goto, settings, identity, ram, ApplyWrites, ForgetWrites, MeshWrites, PinOf
<1>1. ASSUME NEW c \in Deliverable \cup {None}, Deliver(c) PROVE Storing'
    BY <1>1 DEF Deliver
<1>2. CASE Boot
    BY <1>2 DEF Boot
<1>3. CASE Apply
    BY <1>3 DEF Apply, ApplyNothing, ApplyRefuse, ApplyAdmit, RefuseClear, PutAdoption, PutKind,
       PutOwner, PutProv, ClearSettings
<1>4. CASE Forget \/ Forgetting
    BY <1>4 DEF Forget, Forgetting, ForgetAdoption, ForgetKind, ForgetProv, ForgetOwner
<1>5. ASSUME NEW e \in Envelopes, NEW now \in Times \cup {None}, MeshAccept(e, now)
      PROVE  Storing'
    BY <1>5 DEF MeshAccept
<1>6. CASE MeshStoring
    BY <1>6 DEF MeshStoring, MeshKind, MeshAdoption, MeshOwner
<1>7. CASE AccessFails \/ PowerCut \/ CutInReplace
    BY <1>7 DEF AccessFails, PowerCut, CutInReplace, PowerGone
<1>8. CASE UNCHANGED vars
    BY <1>8 DEF vars
<1> QED
    BY <1>1, <1>2, <1>3, <1>4, <1>5, <1>6, <1>7, <1>8 DEF Next

\* settings_adoption.rs apply: at every write of a storing the settings
\* still hold what is being stored.
THEOREM SettingsHoldWhatIsStored == Spec => []Storing
BY StoringInit, StoringNext, PTL DEF Spec

LEMMA TakenOnceNext ==
    ASSUME ~Faults, TakenOnce, [Next]_vars
    PROVE  TakenOnce'
<1> USE DEF TakenOnce, Goto, settings, identity, ram, ApplyWrites, ForgetWrites, MeshWrites
<1>1. ASSUME NEW c \in Deliverable \cup {None}, Deliver(c) PROVE TakenOnce'
    BY <1>1 DEF Deliver
<1>2. CASE Boot
    BY <1>2 DEF Boot
<1>3. CASE Apply
    BY <1>3 DEF Apply, ApplyNothing, ApplyRefuse, ApplyAdmit, RefuseClear, PutAdoption, PutKind,
       PutOwner, PutProv, ClearSettings
<1>4. CASE Forget \/ Forgetting
    BY <1>4 DEF Forget, Forgetting, ForgetAdoption, ForgetKind, ForgetProv, ForgetOwner
<1>5. ASSUME NEW e \in Envelopes, NEW now \in Times \cup {None}, MeshAccept(e, now)
      PROVE  TakenOnce'
    BY <1>5 DEF MeshAccept
<1>6. CASE MeshStoring
    BY <1>6 DEF MeshStoring, MeshKind, MeshAdoption, MeshOwner
<1>7. CASE AccessFails \/ PowerCut \/ CutInReplace
    BY <1>7 DEF AccessFails, PowerCut, CutInReplace, PowerGone
<1>8. CASE UNCHANGED vars
    BY <1>8 DEF vars
<1> QED
    BY <1>1, <1>2, <1>3, <1>4, <1>5, <1>6, <1>7, <1>8 DEF Next

\* settings_adoption.rs "whatever happens to it, removes it from the
\* settings": on a store that returns no error, whatever is cut and whoever
\* delivers, a device that runs has nothing left to take.
THEOREM SettingsAreCleared == ASSUME ~Faults PROVE Spec => []SettingsClearedByBoot
<1>1. Init => TakenOnce
    BY DEF Init, TakenOnce
<1>2. TakenOnce /\ [Next]_vars => TakenOnce'
    BY TakenOnceNext
<1>3. TakenOnce => SettingsClearedByBoot
    BY DEF TakenOnce, SettingsClearedByBoot
<1> QED
    BY <1>1, <1>2, <1>3, PTL DEF Spec
\* What the writes of a storing leave in the settings is admitted by the
\* pin, before and after that pin is written.
LEMMA StoringAdmitted ==
    ASSUME IInv, Storing, pc \in {"put_kind", "put_owner", "put_prov", "clear"}
    PROVE  /\ adopt # None /\ CheckStatement(adopt)
           /\ Admits(adopt, mid_owner) /\ Admits(adopt, PinOf(taking)) /\ Admits(adopt, None)
<1>1. adopt = taking /\ taking \in Containers /\ CheckStatement(taking)
    BY DEF IInv, Taken, Storing, ApplyWrites
<1>2. adopt # None
    BY <1>1, ConstantsAssumption
<1>3. FitsPin(taking, PinOf(taking))
    BY <1>1, FitsOwnPin
<1>4. FitsPin(taking, mid_owner)
    BY <1>3 DEF IInv, Taken, Storing
<1>5. FitsPin(taking, None)
    BY DEF FitsPin
<1> QED
    BY <1>1, <1>2, <1>3, <1>4, <1>5 DEF Admits

LEMMA MarkDueNext ==
    ASSUME SettingsHeld, ~Faults, IInv, Storing, TakenOnce, MarkDue, [Next]_vars
    PROVE  MarkDue'
<1> USE DEF MarkDue, Goto, settings, identity, ram
<1> DEFINE Marks == <<adopt, mid_adopt_kind, mid_owner, mid_owner_prov>>
<1>u. ASSUME UNCHANGED Marks,
             pc' \notin {"clear", "forget_prov", "forget_owner", "mesh_adopt", "mesh_owner"}
      PROVE  MarkDue'
    BY <1>u DEF Admits, FitsPin
<1>1. ASSUME NEW c \in Deliverable \cup {None}, Deliver(c) PROVE MarkDue'
    BY <1>1 DEF Deliver
<1>2. CASE Boot
    BY <1>u, <1>2 DEF Boot
<1>3. CASE Apply
    <2>1. CASE ApplyNothing \/ ApplyRefuse \/ ApplyAdmit
        BY <1>u, <2>1 DEF ApplyNothing, ApplyRefuse, ApplyAdmit
    <2>2. CASE RefuseClear
        BY <2>2 DEF RefuseClear, IInv, Refused
    <2>3. CASE PutAdoption
        BY <1>u, <2>3 DEF PutAdoption
    <2>4. CASE PutKind
        BY <2>4, StoringAdmitted DEF PutKind
    <2>5. CASE PutOwner
        BY <2>5, StoringAdmitted DEF PutOwner
    <2>6. CASE PutProv
        BY <2>6 DEF PutProv
    <2>7. CASE ClearSettings
        BY <2>7 DEF ClearSettings
    <2> QED
        BY <1>3, <2>1, <2>2, <2>3, <2>4, <2>5, <2>6, <2>7 DEF Apply
<1>4. CASE Forget
    BY <1>u, <1>4 DEF Forget
<1>5. CASE Forgetting
    <2>1. CASE ForgetAdoption
        BY <1>u, <2>1 DEF ForgetAdoption
    <2>2. CASE ForgetKind \/ ForgetProv \/ ForgetOwner
        BY <2>2 DEF ForgetKind, ForgetProv, ForgetOwner
    <2> QED
        BY <1>5, <2>1, <2>2 DEF Forgetting
<1>6. ASSUME NEW e \in Envelopes, NEW now \in Times \cup {None}, MeshAccept(e, now)
      PROVE  MarkDue'
    BY <1>u, <1>6 DEF MeshAccept
<1>7. CASE MeshStoring
    BY <1>7 DEF MeshStoring, MeshKind, MeshAdoption, MeshOwner
<1>8. CASE AccessFails
    BY <1>8 DEF AccessFails
<1>9. CASE PowerCut
    BY <1>u, <1>9 DEF PowerCut, PowerGone
<1>10. CASE CutInReplace
    <2>1. CASE pc \in {"put_kind", "put_owner", "put_prov"}
        <3>1. adopt' = adopt /\ pc' = "off"
            BY <1>10 DEF CutInReplace, PowerGone
        <3>2. mid_owner' \in {mid_owner, None}
            BY <1>10 DEF CutInReplace
        <3>3. adopt # None /\ Admits(adopt, mid_owner) /\ Admits(adopt, None)
            BY <2>1, StoringAdmitted
        <3>4. adopt' # None /\ Admits(adopt, mid_owner)'
            BY <3>1, <3>2, <3>3 DEF Admits, FitsPin, CheckStatement
        <3> QED
            BY <3>1, <3>4
    <2>2. CASE pc \in {"put_adopt", "mesh_adopt"}
        BY <1>u, <1>10, <2>2 DEF CutInReplace, PowerGone
    <2>3. CASE pc = "mesh_owner"
        BY <1>10, <2>3 DEF CutInReplace, PowerGone
    <2> QED
        BY <1>10, <2>1, <2>2, <2>3 DEF CutInReplace
<1>11. CASE UNCHANGED vars
    BY <1>11 DEF vars
<1> QED
    BY <1>1, <1>2, <1>3, <1>4, <1>5, <1>6, <1>7, <1>8, <1>9, <1>10, <1>11 DEF Next

\* settings_adoption.rs apply, the provisional mark: with a deployer who
\* lets the device take what was written and a store that returns no error,
\* a device that runs on a statement's grant and pin says so, wherever the
\* storing of them was cut and whatever the cut lost.
THEOREM PinsAreMarked ==
    ASSUME SettingsHeld, ~Faults PROVE Spec => []StatementPinMarked
<1>1. Init => TakenOnce /\ MarkDue
    BY DEF Init, TakenOnce, MarkDue
<1>2. IInv /\ Storing /\ TakenOnce /\ MarkDue /\ [Next]_vars => TakenOnce' /\ MarkDue'
    BY TakenOnceNext, MarkDueNext
<1>3. TakenOnce /\ MarkDue => StatementPinMarked
    BY DEF TakenOnce, MarkDue, StatementPinMarked
<1> QED
    BY <1>1, <1>2, <1>3, Invariance, SettingsHoldWhatIsStored, PTL DEF Spec
-----------------------------------------------------------------------------
(* A device no mesh writes to: its pin and its grant come from statements.  *)

NoMesh == pc \notin MeshWrites

LEMMA NoMeshNext == ASSUME Envelopes = {}, NoMesh, [Next]_vars PROVE NoMesh'
BY DEF NoMesh, MeshWrites, ApplyWrites, ForgetWrites, Goto, Next, vars, Deliver, Boot, Apply,
   ApplyNothing, ApplyRefuse, ApplyAdmit, RefuseClear, PutAdoption, PutKind, PutOwner, PutProv,
   ClearSettings, Forget, Forgetting, ForgetAdoption, ForgetKind, ForgetProv, ForgetOwner,
   MeshStoring, MeshKind, MeshAdoption, MeshOwner, AccessFails, PowerCut, PowerGone, CutInReplace

LEMMA ClaimWaitsNext ==
    ASSUME SettingsHeld, IInv, Storing, NoMesh, ClaimWaits, [Next]_vars
    PROVE  ClaimWaits'
<1> USE DEF ClaimWaits, Goto, settings, identity, ram
<1>1. CASE \E c \in Deliverable \cup {None} : Deliver(c)
    BY <1>1 DEF Deliver
<1>2. CASE RefuseClear
    <2>1. ~Admits(adopt, mid_owner)
        BY <1>2 DEF RefuseClear, IInv, Refused
    <2>2. mid_owner = None => claimed = None
        BY <2>1 DEF Admits, FitsPin
    <2> QED
        BY <1>2, <2>2 DEF RefuseClear
<1>3. CASE PutOwner
    <2>1. taking \in Containers /\ adopt = taking /\ FitsPin(taking, mid_owner)
        BY <1>3 DEF PutOwner, IInv, Taken, Storing, ApplyWrites
    <2>2. PinOf(taking) # None /\ PinOf(taking).owner = taking.owner
        BY <2>1, PinOfType DEF PinOf
    <2>3. claimed # None => claimed = taking.owner
        BY <2>1 DEF FitsPin
    <2> QED
        BY <1>3, <2>2, <2>3 DEF PutOwner, Claim
<1>4. CASE ClearSettings
    <2>1. mid_owner = PinOf(taking) /\ taking \in Containers
        BY <1>4 DEF ClearSettings, IInv, Taken, Storing, ApplyWrites
    <2> QED
        BY <1>4, <2>1, PinOfType DEF ClearSettings
<1>5. CASE ForgetOwner
    BY <1>5 DEF ForgetOwner
<1>6. CASE CutInReplace /\ pc = "put_owner"
    <2>1. taking \in Containers /\ adopt = taking /\ FitsPin(taking, mid_owner)
        BY <1>6 DEF IInv, Taken, Storing, ApplyWrites
    <2>2. adopt # None /\ CheckStatement(adopt)
        BY <1>6, <2>1, ConstantsAssumption DEF IInv, Taken, ApplyWrites
    <2>3. mid_owner # None /\ claimed = adopt.owner
        BY <1>6, <2>1 DEF CutInReplace, FitsPin
    <2> QED
        BY <1>6, <2>2, <2>3 DEF CutInReplace, PowerGone, CheckStatement
<1>7. CASE UNCHANGED <<adopt, mid_owner, claimed>>
    BY <1>7 DEF CheckStatement
<1> QED
    BY <1>1, <1>2, <1>3, <1>4, <1>5, <1>6, <1>7 DEF Next, vars, NoMesh, MeshWrites, Boot, Apply,
       ApplyNothing, ApplyRefuse, ApplyAdmit, PutAdoption, PutKind, PutProv, Forget, Forgetting,
       ForgetAdoption, ForgetKind, ForgetProv, MeshAccept, MeshStoring, MeshKind, MeshAdoption,
       MeshOwner, AccessFails, PowerCut, PowerGone, CutInReplace

\* settings_adoption.rs "Never silently rebound", on a store that may lose a
\* pin while it replaces it: with a deployer who lets the device take what
\* was written, the lost pin's statement waits in the settings, and the next
\* owner pinned is the one it names.
THEOREM HeldIsNeverRebound ==
    ASSUME SettingsHeld, Envelopes = {} PROVE Spec => []NeverSilentlyRebound
<1>1. Init => NoMesh /\ ClaimWaits
    BY DEF Init, NoMesh, MeshWrites, ClaimWaits
<1>2. NoMesh /\ [Next]_vars => NoMesh'
    BY NoMeshNext
<1>3. IInv /\ Storing /\ NoMesh /\ ClaimWaits /\ [Next]_vars => ClaimWaits'
    BY ClaimWaitsNext
<1>4. ClaimWaits => NeverSilentlyRebound
    BY DEF ClaimWaits, NeverSilentlyRebound
<1> QED
    BY <1>1, <1>2, <1>3, <1>4, Invariance, SettingsHoldWhatIsStored, PTL DEF Spec

LEMMA GrantAheadNext ==
    ASSUME SettingsHeld, IInv, Storing, NoMesh, GrantAhead, [Next]_vars
    PROVE  GrantAhead'
<1> USE DEF GrantAhead, CheckStatement, Goto, settings, identity, ram
<1>1. CASE \E c \in Deliverable \cup {None} : Deliver(c)
    BY <1>1 DEF Deliver
<1>2. CASE RefuseClear
    <2>1. ~Admits(adopt, mid_owner) /\ GrantBacksPin
        BY <1>2 DEF RefuseClear, IInv, Refused
    <2>2. mid_adopt # None => mid_adopt # adopt \/ mid_owner = None
        BY <2>1 DEF Admits, FitsPin, GrantBacksPin
    <2> QED
        BY <1>2, <2>2 DEF RefuseClear
<1>3. CASE PutAdoption
    <2>1. adopt = taking /\ CheckStatement(taking)
        BY <1>3 DEF PutAdoption, IInv, Taken, Storing, ApplyWrites
    <2> QED
        BY <1>3, <2>1 DEF PutAdoption
<1>4. CASE PutOwner
    <2>1. mid_adopt = taking
        BY <1>4 DEF PutOwner, IInv, Taken
    <2> QED
        BY <1>4, <2>1 DEF PutOwner, PinOf
<1>5. CASE ClearSettings
    <2>1. mid_adopt = taking /\ mid_owner = PinOf(taking)
        BY <1>5 DEF ClearSettings, IInv, Taken, Storing
    <2> QED
        BY <1>5, <2>1 DEF ClearSettings, PinOf
<1>6. CASE UNCHANGED adopt /\ mid_adopt' \in {mid_adopt, None} /\ mid_owner' \in {mid_owner, None}
    BY <1>6
<1> QED
    BY <1>1, <1>2, <1>3, <1>4, <1>5, <1>6 DEF Next, vars, NoMesh, MeshWrites, Boot, Apply,
       ApplyNothing, ApplyRefuse, ApplyAdmit, PutKind, PutProv, Forget, Forgetting, ForgetAdoption,
       ForgetKind, ForgetProv, ForgetOwner, MeshAccept, MeshStoring, MeshKind, MeshAdoption,
       MeshOwner, AccessFails, PowerCut, PowerGone, CutInReplace

\* A write over the grant of a pinned owner is of what the settings hold: of
\* a version not older than the pin, and so than the grant it replaces.
LEMMA GrantStep ==
    ASSUME IInv, Storing, NoMesh, GrantAhead, [Next]_vars,
           mid_owner # None, mid_adopt # None, mid_adopt' # None
    PROVE  mid_adopt'.version >= mid_adopt.version
<1> USE DEF Goto, settings, identity, ram
<1>0. mid_adopt.version \in Nat /\ mid_owner.version \in Nat
    BY ConstantsAssumption DEF IInv, TypeOK, Containers, Pins, Versions
<1>1. CASE PutAdoption
    <2>1. adopt = taking /\ taking \in Containers /\ FitsPin(taking, mid_owner)
        BY <1>1 DEF PutAdoption, IInv, Taken, Storing, ApplyWrites
    <2>2. taking.version \in Nat /\ taking.version >= mid_owner.version
        BY <2>1, ConstantsAssumption DEF FitsPin, Containers, Versions
    <2>3. mid_adopt.version = mid_owner.version \/ mid_adopt = taking
        BY <2>1 DEF GrantAhead
    <2> QED
        BY <1>0, <1>1, <2>2, <2>3 DEF PutAdoption
<1>2. CASE mid_adopt' = mid_adopt
    BY <1>0, <1>2
<1> QED
    BY <1>1, <1>2 DEF Next, vars, NoMesh, MeshWrites, Deliver, Boot, Apply, ApplyNothing,
       ApplyRefuse, ApplyAdmit, RefuseClear, PutKind, PutOwner, PutProv, ClearSettings, Forget,
       Forgetting, ForgetAdoption, ForgetKind, ForgetProv, ForgetOwner, MeshAccept, MeshStoring,
       MeshKind, MeshAdoption, MeshOwner, AccessFails, PowerCut, PowerGone, CutInReplace

\* settings_adoption.rs apply, the version rule: with a deployer who lets the
\* device take what was written, the grant of a pinned owner never gets
\* older, though it is compared with the pin alone and the pin may be behind.
THEOREM GrantsOnlyAdvance ==
    ASSUME SettingsHeld, Envelopes = {} PROVE Spec => GrantNeverGoesBack
<1>1. Init => NoMesh /\ GrantAhead
    BY DEF Init, NoMesh, MeshWrites, GrantAhead
<1>2. NoMesh /\ [Next]_vars => NoMesh'
    BY NoMeshNext
<1>3. IInv /\ Storing /\ NoMesh /\ GrantAhead /\ [Next]_vars => GrantAhead'
    BY GrantAheadNext
<1>4. IInv /\ Storing /\ NoMesh /\ GrantAhead /\ [Next]_vars =>
          [mid_owner # None /\ mid_adopt # None /\ mid_adopt' # None =>
               mid_adopt'.version >= mid_adopt.version]_vars
    BY GrantStep
<1> QED
    BY <1>1, <1>2, <1>3, <1>4, Invariance, SettingsHoldWhatIsStored, PTL DEF Spec, GrantNeverGoesBack
=============================================================================
