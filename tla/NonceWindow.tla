----------------------------- MODULE NonceWindow -----------------------------
(***************************************************************************)
(* The single-use nonce window: a ring of N slots, never wiped, of which   *)
(* only the first `len` count, overwritten at `next`.                      *)
(***************************************************************************)
EXTENDS Integers

CONSTANTS
    Nonces,
    ZeroNonce,  \* [0; 32], what the slots hold at first
    N           \* the capacity, a const generic; 0 is a window that refuses everything

ASSUME ConstantsAssumption == ZeroNonce \in Nonces /\ N \in Nat

Slots == 0 .. N - 1

VARIABLES
    seen, len, next,
    fresh,  \* what check_and_insert last answered
    age     \* history: nonces accepted since this one was, at most N; N for
            \* a nonce not accepted since the last clear

vars == <<seen, len, next, fresh, age>>

Init ==
    /\ seen = [i \in Slots |-> ZeroNonce] /\ len = 0 /\ next = 0
    /\ fresh = FALSE /\ age = [n \in Nonces |-> N]

\* (variant: the whole array searched)
ContainsAnySlot(n) == \E i \in Slots : seen[i] = n

Contains(n) == \E i \in Slots : i < len /\ seen[i] = n

Aged(n) == [m \in Nonces |-> IF m = n THEN 0 ELSE IF age[m] < N THEN age[m] + 1 ELSE N]

\* (variant: the slot after the next one is the next)
InsertSkipping(n) ==
    /\ N # 0 /\ ~Contains(n)
    /\ seen' = [seen EXCEPT ![next] = n]
    /\ next' = (next + 2) % N
    /\ len' = IF len < N THEN len + 1 ELSE len
    /\ fresh' = TRUE /\ age' = Aged(n)

Insert(n) ==
    /\ N # 0 /\ ~Contains(n)
    /\ seen' = [seen EXCEPT ![next] = n]
    /\ next' = (next + 1) % N
    /\ len' = IF len < N THEN len + 1 ELSE len
    /\ fresh' = TRUE /\ age' = Aged(n)

Reject(n) ==
    /\ N = 0 \/ Contains(n)
    /\ fresh' = FALSE
    /\ UNCHANGED <<seen, len, next, age>>

CheckAndInsert(n) == Insert(n) \/ Reject(n)

Clear ==
    /\ len' = 0 /\ next' = 0 /\ age' = [n \in Nonces |-> N]
    /\ UNCHANGED <<seen, fresh>>

Next == (\E n \in Nonces : CheckAndInsert(n)) \/ Clear

Spec == Init /\ [][Next]_vars

-----------------------------------------------------------------------------
(* Properties. *)

TypeOK ==
    /\ seen \in [Slots -> Nonces]
    /\ len \in 0 .. N
    /\ next \in Nat /\ (N # 0 => next < N) /\ (N = 0 => next = 0)
    /\ fresh \in BOOLEAN
    /\ age \in [Nonces -> 0 .. N]

\* A nonce is in the window exactly while fewer than N others were accepted
\* after it: it cannot be used twice before that, and an old slot left behind
\* by clear or by a window not yet full is never taken for a nonce seen.
RemembersLastN == \A n \in Nonces : Contains(n) <=> age[n] < N

\* Where the nonce accepted k acceptances ago lies.
SlotBefore(cursor, k) == IF k < cursor THEN cursor - 1 - k ELSE cursor + N - 1 - k
SlotOf(k) == SlotBefore(next, k)

Queue == [i \in 1 .. len |-> seen[SlotOf(len - i)]]

\* The ring is a queue of the last N nonces.
Recent == INSTANCE RecentNonces WITH Capacity <- N, recent <- Queue, answer <- fresh
IsQueue == Recent!Spec
=============================================================================
