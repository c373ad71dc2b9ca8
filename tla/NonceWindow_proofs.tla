-------------------------- MODULE NonceWindow_proofs --------------------------
(***************************************************************************)
(* NonceWindow for every capacity, zero included, and every set of         *)
(* nonces.                                                                 *)
(*                                                                         *)
(* RemembersLastN follows from the shape of the ring: a nonce accepted k   *)
(* acceptances ago lies k + 1 slots before the cursor, the valid prefix    *)
(* [0, len) holds exactly the last len nonces, and a ring that is not full *)
(* has its cursor at its end (Ring).  The same shape makes the ring the    *)
(* queue of RecentNonces: an insertion appends the nonce and, where the    *)
(* ring was full, drops the oldest.                                        *)
(***************************************************************************)
EXTENDS NonceWindow, Sequences, TLAPS

Ring ==
    /\ len < N => next = len
    /\ \A n \in Nonces : age[n] < N => age[n] < len /\ seen[SlotOf(age[n])] = n
    /\ \A i \in Slots : i < len => age[seen[i]] < N /\ SlotOf(age[seen[i]]) = i

IInv == TypeOK /\ Ring

\* The cursor after an insertion.
LEMMA Successor == ASSUME NEW i \in Nat, i < N PROVE (i + 1) % N = IF i + 1 = N THEN 0 ELSE i + 1
BY ConstantsAssumption

LEMMA Initially == Init => IInv
<1> SUFFICES ASSUME Init PROVE IInv
    OBVIOUS
<1>1. TypeOK
    <2>1. 0 \in 0 .. N /\ N \in 0 .. N /\ 0 \in Nat
        BY ConstantsAssumption
    <2>2. seen \in [Slots -> Nonces] /\ age \in [Nonces -> 0 .. N]
        BY <2>1, ConstantsAssumption DEF Init
    <2>3. N # 0 => next < N
        BY ConstantsAssumption DEF Init
    <2> QED
        BY <2>1, <2>2, <2>3 DEF Init, TypeOK
<1>2. Ring
    <2>1. \A n \in Nonces : ~(age[n] < N)
        <3>1. ~(N < N)
            BY ConstantsAssumption
        <3>2. \A n \in Nonces : age[n] = N
            BY DEF Init
        <3> QED
            BY <3>1, <3>2
    <2>2. \A i \in Slots : ~(i < len)
        BY ConstantsAssumption DEF Init, Slots
    <2> QED
        BY <2>1, <2>2 DEF Init, Ring
<1> QED
    BY <1>1, <1>2 DEF IInv

\* The slots of the remembered ages are the valid prefix of the ring.
LEMMA SlotOfRange ==
    ASSUME TypeOK, len < N => next = len, NEW k \in Nat, k < len
    PROVE  SlotOf(k) \in Slots /\ SlotOf(k) < len
<1>1. N \in Nat /\ len \in Nat /\ len <= N /\ next \in Nat /\ next < N
    BY ConstantsAssumption DEF TypeOK
<1>2. CASE len < N
    BY <1>1, <1>2 DEF SlotOf, SlotBefore, Slots
<1>3. CASE len = N
    BY <1>1, <1>3 DEF SlotOf, SlotBefore, Slots
<1> QED
    BY <1>1, <1>2, <1>3

\* The ring answers as the history says.
LEMMA RingRemembers == IInv => RemembersLastN
<1> SUFFICES ASSUME IInv, NEW n \in Nonces PROVE Contains(n) <=> age[n] < N
    BY DEF RemembersLastN
<1>1. ASSUME Contains(n) PROVE age[n] < N
    BY <1>1 DEF IInv, Ring, Contains
<1>2. ASSUME age[n] < N PROVE Contains(n)
    <2>1. age[n] \in Nat /\ age[n] < len
        BY <1>2, ConstantsAssumption DEF IInv, Ring, TypeOK
    <2>2. SlotOf(age[n]) \in Slots /\ SlotOf(age[n]) < len
        BY <2>1, SlotOfRange DEF IInv, Ring
    <2> QED
        BY <1>2, <2>2 DEF IInv, Ring, Contains
<1> QED
    BY <1>1, <1>2

\* An insertion moves every remembered nonce one step away from the cursor
\* and lets go of the one it overwrites, if the ring was full.
LEMMA InsertKeeps == ASSUME IInv, NEW n \in Nonces, Insert(n) PROVE IInv'
<1>1. /\ N \in Nat /\ N # 0 /\ len \in Nat /\ len <= N /\ next \in Nat /\ next < N
      /\ len < N => next = len
      /\ seen \in [Slots -> Nonces] /\ age \in [Nonces -> 0 .. N]
    BY ConstantsAssumption DEF IInv, TypeOK, Ring, Insert
<1>2. /\ seen' = [seen EXCEPT ![next] = n]
      /\ next' = IF next + 1 = N THEN 0 ELSE next + 1
      /\ len' = IF len < N THEN len + 1 ELSE len
      /\ age' = Aged(n)
    BY <1>1, Successor DEF Insert
<1>3. next \in Slots
    BY <1>1 DEF Slots
<1>4. ~(age[n] < N)
    BY RingRemembers DEF Insert, RemembersLastN
<1>5. TypeOK'
    <2>1. seen' \in [Slots -> Nonces]
        BY <1>1, <1>2, <1>3
    <2>2. len' \in 0 .. N /\ next' \in Nat /\ next' < N
        BY <1>1, <1>2
    <2>3. age' \in [Nonces -> 0 .. N]
        BY <1>1, <1>2 DEF Aged
    <2> QED
        BY <1>1, <2>1, <2>2, <2>3 DEF TypeOK, Insert
<1>6. len' < N => next' = len'
    BY <1>1, <1>2
<1>7. ASSUME NEW m \in Nonces, age'[m] < N
      PROVE  age'[m] < len' /\ seen'[SlotBefore(next', age'[m])] = m
    <2>1. CASE m = n
        <3>1. age'[m] = 0
            BY <2>1, <1>2 DEF Aged
        <3>2. SlotBefore(next', 0) = next /\ 0 < len'
            BY <1>1, <1>2 DEF SlotOf, SlotBefore
        <3> QED
            BY <1>1, <1>2, <1>3, <2>1, <3>1, <3>2 DEF SlotOf, SlotBefore
    <2>2. CASE m # n
        <3>1. age[m] \in Nat /\ age[m] < N /\ age'[m] = age[m] + 1 /\ age[m] + 1 < N
            BY <1>1, <1>2, <1>7, <2>2 DEF Aged
        <3>2. age[m] < len /\ seen[SlotOf(age[m])] = m
            BY <3>1 DEF IInv, Ring
        <3>3. SlotBefore(next', age'[m]) = SlotOf(age[m]) /\ SlotOf(age[m]) # next
            BY <1>1, <1>2, <3>1, <3>2 DEF SlotOf, SlotBefore
        <3>4. age'[m] < len'
            BY <1>1, <1>2, <3>1, <3>2
        <3>5. SlotOf(age[m]) \in Slots
            BY <3>1, <3>2, SlotOfRange DEF IInv, Ring
        <3> QED
            BY <1>1, <1>2, <3>2, <3>3, <3>4, <3>5
    <2> QED
        BY <2>1, <2>2
<1>8. ASSUME NEW i \in Slots, i < len'
      PROVE  age'[seen'[i]] < N /\ SlotBefore(next', age'[seen'[i]]) = i
    <2>1. CASE i = next
        <3>1. seen'[i] = n /\ age'[n] = 0
            BY <1>1, <1>2, <1>3, <2>1 DEF Aged
        <3>2. SlotBefore(next', 0) = next
            BY <1>1, <1>2 DEF SlotOf, SlotBefore
        <3> QED
            BY <1>1, <2>1, <3>1, <3>2 DEF SlotOf, SlotBefore
    <2>2. CASE i # next
        <3> DEFINE m == seen[i]
        <3>1. i < len /\ m \in Nonces /\ seen'[i] = m
            BY <1>1, <1>2, <1>8, <2>2 DEF Slots
        <3>2. age[m] \in Nat /\ age[m] < N /\ SlotOf(age[m]) = i /\ age[m] < len
            BY <1>1, <3>1 DEF IInv, Ring
        <3>3. m # n
            BY <1>4, <3>2
        <3>4. age'[m] = age[m] + 1
            BY <1>2, <3>1, <3>2, <3>3 DEF Aged
        <3>5. age[m] + 1 < N
            BY <1>1, <2>2, <3>2 DEF SlotOf, SlotBefore
        <3>6. SlotBefore(next', age'[m]) = SlotOf(age[m])
            BY <1>1, <1>2, <3>2, <3>4, <3>5 DEF SlotOf, SlotBefore
        <3> QED
            BY <3>1, <3>2, <3>4, <3>5, <3>6
    <2> QED
        BY <2>1, <2>2
<1> QED
    BY <1>5, <1>6, <1>7, <1>8 DEF IInv, Ring, SlotOf

LEMMA Inductive == IInv /\ [Next]_vars => IInv'
<1> SUFFICES ASSUME IInv, [Next]_vars PROVE IInv'
    OBVIOUS
<1>1. ASSUME NEW n \in Nonces, CheckAndInsert(n) PROVE IInv'
    <2>1. CASE Insert(n)
        BY <2>1, InsertKeeps
    <2>2. CASE Reject(n)
        BY <2>2 DEF Reject, IInv, TypeOK, Ring, SlotOf, SlotBefore
    <2> QED
        BY <1>1, <2>1, <2>2 DEF CheckAndInsert
<1>2. CASE Clear
    <2>1. N \in Nat /\ age' \in [Nonces -> 0 .. N] /\ \A n \in Nonces : ~(age'[n] < N)
        BY <1>2, ConstantsAssumption DEF Clear
    <2>2. \A i \in Slots : ~(i < len')
        BY <1>2, ConstantsAssumption DEF Clear, Slots
    <2>3. len' \in 0 .. N /\ next' \in Nat /\ (N # 0 => next' < N) /\ (N = 0 => next' = 0)
          /\ len' = next'
        BY <1>2, <2>1 DEF Clear
    <2> QED
        BY <1>2, <2>1, <2>2, <2>3 DEF Clear, IInv, TypeOK, Ring
<1>3. CASE UNCHANGED vars
    BY <1>3 DEF vars, IInv, TypeOK, Ring, SlotOf, SlotBefore
<1> QED
    BY <1>1, <1>2, <1>3 DEF Next

\* The inductive invariant holds of every sequence of calls.
THEOREM Invariance == Spec => []IInv
BY Initially, Inductive, PTL DEF Spec

\* nonce.rs: a nonce is in the window exactly while fewer than N others were
\* accepted after it, for every N.
THEOREM WindowRemembersLastN == Spec => []RemembersLastN
BY Invariance, RingRemembers, PTL

\* nonce.rs NonceWindow: len never passes the capacity, next stays in the ring.
THEOREM TypeCorrect == Spec => []TypeOK
<1>1. IInv => TypeOK
    BY DEF IInv
<1> QED
    BY <1>1, Invariance, PTL

-----------------------------------------------------------------------------
(* The refinement of RecentNonces. *)

\* The queue the ring stands for, and what it remembers.
LEMMA QueueIs ==
    ASSUME IInv
    PROVE  /\ len \in Nat /\ Len(Queue) = len /\ DOMAIN Queue = 1 .. len
           /\ Queue \in Seq(Nonces)
           /\ \A n \in Nonces : n \in Recent!Remembered <=> Contains(n)
<1>1. len \in Nat /\ N \in Nat /\ next \in Nat /\ len <= N /\ seen \in [Slots -> Nonces]
    BY ConstantsAssumption DEF IInv, TypeOK
<1>2. \A i \in 1 .. len : SlotOf(len - i) \in Slots /\ SlotOf(len - i) < len
    BY <1>1, SlotOfRange DEF IInv, Ring
<1>3. Queue \in [1 .. len -> Nonces]
    BY <1>1, <1>2 DEF Queue
<1>4. Queue \in Seq(Nonces) /\ Len(Queue) = len /\ DOMAIN Queue = 1 .. len
    BY <1>1, <1>3
<1>5. ASSUME NEW n \in Nonces, n \in Recent!Remembered PROVE Contains(n)
    <2>1. PICK i \in 1 .. len : Queue[i] = n
        BY <1>4, <1>5 DEF Recent!Remembered
    <2> QED
        BY <1>2, <2>1 DEF Queue, Contains
<1>6. ASSUME NEW n \in Nonces, Contains(n) PROVE n \in Recent!Remembered
    <2>1. PICK i \in Slots : i < len /\ seen[i] = n
        BY <1>6 DEF Contains
    <2>2. age[n] \in Nat /\ age[n] < len /\ SlotOf(age[n]) = i
        BY <1>1, <2>1 DEF IInv, Ring, TypeOK
    <2>3. len - age[n] \in 1 .. len /\ len - (len - age[n]) = age[n]
        BY <1>1, <2>2
    <2>4. Queue[len - age[n]] = n
        BY <2>1, <2>2, <2>3 DEF Queue
    <2> QED
        BY <1>4, <2>3, <2>4 DEF Recent!Remembered
<1> QED
    BY <1>1, <1>4, <1>5, <1>6

\* A function over 1 .. L that agrees with a sequence below L and ends in n
\* is that sequence with n appended.
LEMMA AppendIs ==
    ASSUME NEW S, NEW s \in Seq(S), NEW n \in S, NEW L \in Nat, L >= 1, Len(s) = L - 1,
           NEW g, g = [i \in 1 .. L |-> g[i]],
           g[L] = n, \A i \in 1 .. L - 1 : g[i] = s[i]
    PROVE  g = Append(s, n)
<1>1. /\ Append(s, n) \in Seq(S) /\ Len(Append(s, n)) = L
      /\ \A i \in 1 .. L - 1 : Append(s, n)[i] = s[i]
      /\ Append(s, n)[L] = n
    OBVIOUS
<1>2. Append(s, n) \in [1 .. L -> S]
    <2> DEFINE t == Append(s, n)
    <2>1. t \in Seq(S) /\ Len(t) = L
        BY <1>1
    <2> HIDE DEF t
    <2>2. t \in [1 .. L -> S]
        BY <2>1
    <2> QED
        BY <2>2 DEF t
<1>3. ASSUME NEW i \in 1 .. L PROVE g[i] = Append(s, n)[i]
    <2>1. i = L \/ i \in 1 .. L - 1
        OBVIOUS
    <2> QED
        BY <1>1, <2>1
<1> DEFINE t == Append(s, n)
<1>4. t = [i \in 1 .. L |-> t[i]]
    BY <1>2
<1>5. \A i \in 1 .. L : g[i] = t[i]
    BY <1>3
<1> HIDE DEF t
<1>6. g = t
    BY <1>4, <1>5
<1> QED
    BY <1>6 DEF t

\* An insertion is an append, after the oldest made room in a full ring.
LEMMA InsertAppends ==
    ASSUME IInv, NEW n \in Nonces, Insert(n)
    PROVE  Queue' = Append(IF Len(Queue) = N THEN Tail(Queue) ELSE Queue, n)
<1>1. /\ N \in Nat /\ N # 0 /\ len \in Nat /\ len <= N /\ next \in Nat /\ next < N
      /\ len < N => next = len
      /\ seen \in [Slots -> Nonces]
    BY ConstantsAssumption DEF IInv, TypeOK, Ring, Insert
<1>2. /\ seen' = [seen EXCEPT ![next] = n]
      /\ next' = IF next + 1 = N THEN 0 ELSE next + 1
      /\ len' = IF len < N THEN len + 1 ELSE len
    BY <1>1, Successor DEF Insert
<1>3. next \in Slots
    BY <1>1 DEF Slots
<1> DEFINE before == IF Len(Queue) = N THEN Tail(Queue) ELSE Queue
<1>4. /\ Queue \in Seq(Nonces) /\ Len(Queue) = len
      /\ \A i \in 1 .. len : Queue[i] = seen[SlotOf(len - i)]
    BY QueueIs DEF Queue
<1>5. /\ before \in Seq(Nonces) /\ Len(before) = len' - 1
      /\ len = N => \A i \in 1 .. len' - 1 : before[i] = Queue[i + 1]
      /\ len < N => \A i \in 1 .. len' - 1 : before[i] = Queue[i]
    BY <1>1, <1>2, <1>4
<1>6. Queue' = [i \in 1 .. len' |-> seen'[SlotBefore(next', len' - i)]]
    BY DEF Queue, SlotOf
<1>7. seen'[SlotBefore(next', len' - len')] = n
    <2>1. SlotBefore(next', 0) = next
        BY <1>1, <1>2 DEF SlotBefore
    <2>2. len' - len' = 0
        BY <1>1, <1>2
    <2> QED
        BY <1>1, <1>2, <1>3, <2>1, <2>2
<1>8. ASSUME NEW i \in 1 .. len' - 1
      PROVE  seen'[SlotBefore(next', len' - i)] = before[i]
    <2>1. /\ len' - i \in Nat /\ len' - i >= 1 /\ len' - i - 1 \in Nat /\ len' - i - 1 < len
          /\ len' - i < N
        BY <1>1, <1>2
    <2>2. SlotBefore(next', len' - i) = SlotOf(len' - i - 1) /\ SlotOf(len' - i - 1) # next
        BY <1>1, <1>2, <2>1 DEF SlotOf, SlotBefore
    <2>3. SlotOf(len' - i - 1) \in Slots
        BY <2>1, SlotOfRange DEF IInv, Ring
    <2>4. seen'[SlotBefore(next', len' - i)] = seen[SlotOf(len' - i - 1)]
        BY <1>1, <1>2, <2>2, <2>3
    <2>5. CASE len = N
        <3>1. len' - i - 1 = len - (i + 1) /\ i + 1 \in 1 .. len
            BY <1>1, <1>2, <2>5
        <3> QED
            BY <1>4, <1>5, <2>4, <2>5, <3>1
    <2>6. CASE len < N
        <3>1. len' - i - 1 = len - i /\ i \in 1 .. len
            BY <1>1, <1>2, <2>6
        <3> QED
            BY <1>4, <1>5, <2>4, <2>6, <3>1
    <2>7. len = N \/ len < N
        BY <1>1
    <2> QED
        BY <2>5, <2>6, <2>7
<1>9. len' \in Nat /\ len' >= 1
    BY <1>1, <1>2
<1> HIDE DEF before
<1>10. /\ Queue' = [i \in 1 .. len' |-> Queue'[i]]
       /\ \A i \in 1 .. len' : Queue'[i] = seen'[SlotBefore(next', len' - i)]
    BY <1>6
<1>11. Queue'[len'] = n /\ \A i \in 1 .. len' - 1 : Queue'[i] = before[i]
    <2>1. len' \in 1 .. len'
        BY <1>9
    <2>2. ASSUME NEW i \in 1 .. len' - 1 PROVE Queue'[i] = before[i]
        <3> \A L \in Nat : \A j \in 1 .. L - 1 : j \in 1 .. L
            OBVIOUS
        <3>1. i \in 1 .. len'
            BY <1>9, ZenonT(20)
        <3> QED
            BY <1>8, <1>10, <3>1
    <2> QED
        BY <1>7, <1>10, <2>1, <2>2
<1>12. Queue' = Append(before, n)
    BY <1>5, <1>9, <1>10, <1>11, AppendIs
<1> QED
    BY <1>12 DEF before

\* nonce.rs check_and_insert, clear: for every capacity and every set of
\* nonces the ring implements the memory of the last N nonces.
THEOREM RingIsQueue == Spec => IsQueue
<1>1. Init => Recent!Init
    <2> SUFFICES ASSUME Init PROVE Recent!Init
        OBVIOUS
    <2>1. Queue = <<>>
        BY DEF Init, Queue
    <2> QED
        BY <2>1 DEF Init, Recent!Init
<1>2. IInv /\ [Next]_vars => [Recent!Next]_(Recent!vars)
    <2> SUFFICES ASSUME IInv, [Next]_vars PROVE Recent!Next \/ UNCHANGED Recent!vars
        OBVIOUS
    <2>1. ASSUME NEW n \in Nonces, Insert(n) PROVE Recent!Accept(n)
        <3>1. N \in Nat /\ N > 0
            BY <2>1, ConstantsAssumption DEF Insert
        <3>2. n \notin Recent!Remembered
            BY <2>1, QueueIs DEF Insert
        <3>3. Queue' = Append(IF Len(Queue) = N THEN Tail(Queue) ELSE Queue, n)
            BY <2>1, InsertAppends
        <3>4. fresh' = TRUE
            BY <2>1 DEF Insert
        <3> QED
            BY <3>1, <3>2, <3>3, <3>4 DEF Recent!Accept
    <2>2. ASSUME NEW n \in Nonces, Reject(n) PROVE Recent!Refuse(n)
        <3>1. Queue' = Queue
            BY <2>2 DEF Reject, Queue, SlotOf, SlotBefore
        <3> QED
            BY <2>2, <3>1, QueueIs DEF Recent!Refuse, Reject
    <2>3. ASSUME Clear PROVE Recent!Forget
        <3>1. Queue' = <<>>
            BY <2>3 DEF Clear, Queue
        <3> QED
            BY <2>3, <3>1 DEF Clear, Recent!Forget
    <2>4. CASE UNCHANGED vars
        BY <2>4 DEF vars, Recent!vars, Queue, SlotOf, SlotBefore
    <2> QED
        BY <2>1, <2>2, <2>3, <2>4 DEF Next, CheckAndInsert, Recent!Next
<1> QED
    BY <1>1, <1>2, Invariance, PTL DEF Spec, IsQueue, Recent!Spec
=============================================================================
