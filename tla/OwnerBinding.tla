---------------------------- MODULE OwnerBinding ----------------------------
(***************************************************************************)
(* What adoption promises, without stores, boots or power cuts: a device   *)
(* belongs to nobody or to one owner at a roster version.  It takes its    *)
(* first owner on trust, afterwards follows only that owner and only       *)
(* forwards, and lets go only while a hand on the device asks for it.      *)
(***************************************************************************)
EXTENDS Naturals

CONSTANTS
    Owners,     \* the owners' genesis keys
    MaxVersion, \* the largest roster version (u32::MAX in the code)
    None        \* no owner

Versions == 0 .. MaxVersion
Pins == [owner : Owners, version : Versions]

VARIABLES
    bound,  \* the pin the device follows, or None
    asked   \* somebody at the device is asking it to forget its owner

vars == <<bound, asked>>

Init == bound = None /\ asked = FALSE

\* Trust on first use.
Bind(p) == /\ bound = None /\ ~asked
           /\ bound' = p
           /\ UNCHANGED asked

\* A newer grant of the same owner; the same version again is allowed.
Renew(p) == /\ bound # None /\ ~asked
            /\ p.owner = bound.owner /\ p.version >= bound.version
            /\ bound' = p
            /\ UNCHANGED asked

\* The request to forget begins, or ends without having been served.
Ask == ~asked /\ asked' = TRUE /\ UNCHANGED bound
Withdraw == asked /\ asked' = FALSE /\ UNCHANGED bound

\* The request is served.
Release == asked /\ bound' = None /\ asked' = FALSE

Next == \/ \E p \in Pins : Bind(p) \/ Renew(p)
        \/ Ask \/ Withdraw \/ Release

Spec == Init /\ [][Next]_vars
=============================================================================
