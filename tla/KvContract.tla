------------------------------- MODULE KvContract -------------------------------
(***************************************************************************)
(* What a store promises to the records kept in it: a read gives the value *)
(* last put.  A put under way may give up or lose its power, and leaves    *)
(* the old value or none: none only where the value was not the device's   *)
(* own.  Nothing else changes but by the hand of a computer, or by wear,   *)
(* while the power is off.                                                 *)
(***************************************************************************)
CONSTANTS Keys, Values, None

VARIABLES
    kv,       \* the value a read gives, by key
    own,      \* the keys whose values the device put
    putting,  \* the put under way, or None
    powered

vars == <<kv, own, putting, powered>>

Stores == [Keys -> Values \cup {None}]

Init == kv \in Stores /\ own \subseteq Keys /\ putting = None /\ powered = FALSE

Begin(k, v) ==
    /\ powered /\ putting = None
    /\ putting' = <<k, v>>
    /\ UNCHANGED <<kv, own, powered>>

Drop ==
    /\ putting # None /\ putting[1] \notin own
    /\ kv' = [kv EXCEPT ![putting[1]] = None]
    /\ UNCHANGED <<own, putting, powered>>

Finish ==
    /\ putting # None
    /\ kv' = [kv EXCEPT ![putting[1]] = putting[2]]
    /\ own' = own \cup {putting[1]}
    /\ putting' = None
    /\ UNCHANGED powered

GiveUp == putting # None /\ putting' = None /\ UNCHANGED <<kv, own, powered>>

Remove(k) ==
    /\ powered /\ putting = None
    /\ kv' = [kv EXCEPT ![k] = None]
    /\ own' = own \ {k}
    /\ UNCHANGED <<putting, powered>>

Power ==
    /\ powered' = ~powered
    /\ putting' = None
    /\ UNCHANGED <<kv, own>>

Rewrite ==
    /\ ~powered
    /\ kv' \in Stores /\ own' \subseteq Keys
    /\ UNCHANGED <<putting, powered>>

Next ==
    \/ \E k \in Keys : Remove(k) \/ \E v \in Values : Begin(k, v)
    \/ Drop \/ Finish \/ GiveUp \/ Power \/ Rewrite

Spec == Init /\ [][Next]_vars
=============================================================================
