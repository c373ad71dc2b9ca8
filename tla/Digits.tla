-------------------------------- MODULE Digits --------------------------------
(* Numbers and their digits in base b, the first digit the most significant. *)
EXTENDS Integers, Sequences

\* The number that digits stand for.
Number(s, b) ==
    LET value[i \in 0 .. Len(s)] == IF i = 0 THEN 0 ELSE value[i - 1] * b + s[i]
    IN  value[Len(s)]

\* The digits of n, none of them a leading zero.
Numeral(n, b) ==
    LET digits[m \in 0 .. n] == IF m = 0 THEN <<>> ELSE Append(digits[m \div b], m % b)
    IN  digits[n]

\* n in k digits; what does not fit is lost.
BigEndian(n, k, b) ==
    LET high[j \in 0 .. k] == IF j = 0 THEN n ELSE high[j - 1] \div b
    IN  [i \in 1 .. k |-> high[k - i] % b]

\* The numbers that k digits hold.
Width(k, b) == {Number(s, b) : s \in [1 .. k -> 0 .. b - 1]}
=============================================================================
