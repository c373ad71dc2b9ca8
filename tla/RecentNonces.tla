---------------------------- MODULE RecentNonces ----------------------------
(***************************************************************************)
(* What a nonce window promises: it remembers the nonces it accepted, in   *)
(* order, the last Capacity of them, and accepts a nonce exactly when it   *)
(* does not remember it.                                                   *)
(***************************************************************************)
EXTENDS Naturals, Sequences

CONSTANTS Nonces, Capacity

VARIABLES
    recent,  \* the remembered nonces, oldest first
    answer   \* the last answer: was the nonce fresh?

vars == <<recent, answer>>

Init == recent = <<>> /\ answer = FALSE

Remembered == {recent[i] : i \in DOMAIN recent}

Accept(n) ==
    /\ Capacity > 0 /\ n \notin Remembered
    /\ recent' = Append(IF Len(recent) = Capacity THEN Tail(recent) ELSE recent, n)
    /\ answer' = TRUE

Refuse(n) == (Capacity = 0 \/ n \in Remembered) /\ answer' = FALSE /\ UNCHANGED recent

Forget == recent' = <<>> /\ UNCHANGED answer

Next == (\E n \in Nonces : Accept(n) \/ Refuse(n)) \/ Forget

Spec == Init /\ [][Next]_vars
=============================================================================
