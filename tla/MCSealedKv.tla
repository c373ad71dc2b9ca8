----------------------------- MODULE MCSealedKv -----------------------------
(* Two keys; this chip's block, another chip's, and one not burned; values  *)
(* at the ends of the ranges the code tells apart.                          *)
EXTENDS SealedKv

CONSTANTS devkey, psk, chip, otherchip, a, b

MCNames == {devkey, psk}
MCBlocks == {[purpose |-> "HMAC_UP", key |-> chip], [purpose |-> "HMAC_UP", key |-> otherchip],
             [purpose |-> "USER", key |-> chip]}

\* Both keys, one, one twice, none.
MCLists == {<<devkey, psk>>, <<psk, devkey>>, <<psk>>, <<devkey, psk, devkey>>, <<>>}

Value(id, len, magic) == [id |-> id, len |-> len, magic |-> magic]

\* Sealable at both ends of the range.
Sealable == {Value(a, 0, FALSE), Value(b, MaxValue, FALSE)}
\* One byte too long to seal, and one too long for the read buffer.
Overlong == {Value(a, MaxValue + 1, FALSE), Value(b, MaxValue + Overhead + 1, FALSE)}
\* A value that happens to begin as a sealed one does.
Lookalike == {Value(a, 36, TRUE)}

MCValues == Sealable \cup Overlong \cup Lookalike
=============================================================================
