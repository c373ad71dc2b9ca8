--------------------------- MODULE Messages_proofs ---------------------------
(***************************************************************************)
(* SignedMessages and AdoptionWire, for all values of their constants.     *)
(*                                                                         *)
(* Signed messages: equal bytes are read apart from the left.  The domains *)
(* differ somewhere, so the kind is the same; then each length prefix      *)
(* fixes the border of the field behind it, as long as it is the field's   *)
(* length.  A maker's lengths are cut, and there the sum of the two        *)
(* lengths decides.                                                        *)
(*                                                                         *)
(* Identities: a key and its text are the digits of one number.            *)
(*                                                                         *)
(* The adoption: a grant is encoded as pieces laid one behind the other    *)
(* and decoded as parts found one behind the other.  Each piece is a part, *)
(* and the end of each part is fixed by its bytes alone, so pieces and     *)
(* parts are the same stretches of the wire, in both directions.           *)
(*                                                                         *)
(* The models' recursive functions are unfolded by induction over sets of  *)
(* numbers (Everywhere), from the least number that is not in the set.     *)
(***************************************************************************)
EXTENDS SignedMessages, AdoptionWire, SequenceTheorems, WellFoundedInduction, TLAPS

\* Two texts one behind the other, and three; a text by its bytes.
LEMMA Joining ==
    ASSUME NEW s \in Texts, NEW t \in Texts
    PROVE  /\ s \o t \in Texts
           /\ Len(s \o t) = Len(s) + Len(t)
           /\ \A i \in 1 .. Len(s) : (s \o t)[i] = s[i]
           /\ \A i \in 1 .. Len(t) : (s \o t)[Len(s) + i] = t[i]
BY SMT DEF Texts

LEMMA Assoc ==
    ASSUME NEW s \in Texts, NEW t \in Texts, NEW u \in Texts
    PROVE  (s \o t) \o u = s \o (t \o u)
BY ConcatAssociative DEF Texts

LEMMA SameText ==
    ASSUME NEW s \in Texts, NEW t \in Texts,
           Len(s) = Len(t), \A i \in 1 .. Len(s) : s[i] = t[i]
    PROVE  s = t
BY SeqEqual DEF Texts

\* What stands in front and has one length can be taken off.
LEMMA Cancel ==
    ASSUME NEW a \in Texts, NEW b \in Texts, NEW x \in Texts, NEW y \in Texts,
           Len(a) = Len(b), a \o x = b \o y
    PROVE  a = b /\ x = y
<1>1. \A i \in 1 .. Len(a) : a[i] = b[i]
  BY Joining
<1>2. a = b
  BY <1>1, SameText
<1>3. Len(a) \in Nat /\ Len(x) \in Nat /\ Len(y) \in Nat
  BY DEF Texts
<1>4. Len(x) = Len(y)
  <2>1. Len(a) + Len(x) = Len(b) + Len(y)
    <3>1. Len(a \o x) = Len(a) + Len(x)
      BY Joining
    <3>2. Len(b \o y) = Len(b) + Len(y)
      BY Joining
    <3> QED
      BY <3>1, <3>2
  <2> QED
    BY <1>3, <2>1
<1>5. \A i \in 1 .. Len(x) : x[i] = y[i]
  <2> SUFFICES ASSUME NEW i \in 1 .. Len(x) PROVE x[i] = y[i]
    OBVIOUS
  <2>1. (a \o x)[Len(a) + i] = x[i]
    BY Joining
  <2>2. (b \o y)[Len(b) + i] = y[i]
    <3>1. i \in 1 .. Len(y)
      BY <1>4
    <3> QED
      BY <3>1, Joining
  <2> QED
    BY <2>1, <2>2
<1> QED
  BY <1>2, <1>4, <1>5, SameText

LEMMA Be16Type == \A n \in 0 .. MaxLen : Be16[n] \in Texts /\ Len(Be16[n]) = 2
<1> SUFFICES ASSUME NEW n \in 0 .. MaxLen PROVE Be16[n] \in Texts /\ Len(Be16[n]) = 2
  OBVIOUS
<1>1. Be16[n] \in [1 .. 2 -> Byte]
  BY NumbersAssumption
<1>2. 2 \in Nat /\ Be16[n] = [i \in 1 .. 2 |-> Be16[n][i]]
  BY <1>1
<1>3. Be16[n] \in Seq(Byte)
  BY <1>1, <1>2
<1>4. Len(Be16[n]) = 2
  BY <1>1, <1>3, LenProperties
<1> QED
  BY <1>3, <1>4 DEF Texts

LEMMA FramedType ==
    ASSUME NEW n \in 0 .. MaxLen, NEW s \in Texts
    PROVE  Framed(n, s) \in Texts /\ Len(Framed(n, s)) = 2 + Len(s)
<1> DEFINE a == Be16[n]
<1>1. a \in Texts /\ Len(a) = 2 /\ Framed(n, s) = a \o s
  BY Be16Type DEF Framed
<1> HIDE DEF a
<1>2. a \o s \in Texts /\ Len(a \o s) = Len(a) + Len(s)
  BY <1>1, Joining
<1> QED
  BY <1>1, <1>2

LEMMA FramedOpen ==
    ASSUME NEW i \in 0 .. MaxLen, NEW s \in Texts, NEW x \in Texts
    PROVE  /\ Framed(i, s) \o x = Be16[i] \o (s \o x)
           /\ Be16[i] \in Texts /\ Len(Be16[i]) = 2
           /\ s \o x \in Texts
<1> DEFINE a == Be16[i]
<1>1. a \in Texts /\ Len(a) = 2
  BY Be16Type
<1>2. Framed(i, s) = a \o s
  BY DEF Framed
<1> HIDE DEF a
<1>3. (a \o s) \o x = a \o (s \o x)
  BY <1>1, Assoc
<1>4. s \o x \in Texts
  BY Joining
<1> QED
  BY <1>1, <1>2, <1>3, <1>4 DEF a

LEMMA LpType ==
    ASSUME NEW s \in Texts, Short(s)
    PROVE  Lp(s) \in Texts /\ LpSaturated(s) = Lp(s)
<1>1. Len(s) \in 0 .. MaxLen
  BY NumbersAssumption DEF Texts, Short
<1>2. LpSaturated(s) = Lp(s)
  <2>1. (IF Len(s) > MaxLen THEN MaxLen ELSE Len(s)) = Len(s)
    BY <1>1, NumbersAssumption
  <2> QED
    BY <2>1 DEF Lp, LpSaturated
<1> QED
  BY <1>1, <1>2, FramedType DEF Lp

\* A length prefix fixes where its field ends.
LEMMA LpApart ==
    ASSUME NEW s \in Texts, NEW t \in Texts, NEW x \in Texts, NEW y \in Texts,
           Short(s), Short(t), Lp(s) \o x = Lp(t) \o y
    PROVE  s = t /\ x = y
<1> DEFINE i == Len(s)
           j == Len(t)
           a == Be16[i]
           b == Be16[j]
           u == s \o x
           v == t \o y
<1>2. i \in 0 .. MaxLen /\ j \in 0 .. MaxLen
  BY NumbersAssumption DEF Texts, Short
<1>3. Framed(i, s) \o x = Framed(j, t) \o y
  BY DEF Lp
<1> HIDE DEF i, j
<1>4. Framed(i, s) \o x = a \o u /\ a \in Texts /\ Len(a) = 2 /\ u \in Texts
  BY <1>2, FramedOpen
<1>5. Framed(j, t) \o y = b \o v /\ b \in Texts /\ Len(b) = 2 /\ v \in Texts
  BY <1>2, FramedOpen
<1> HIDE DEF a, b, u, v
<1>6. a \o u = b \o v
  BY <1>3, <1>4, <1>5
<1>7. Len(a) = Len(b)
  BY <1>4, <1>5
<1>8. a = b /\ u = v
  BY <1>4, <1>5, <1>6, <1>7, Cancel
<1>9. i = j
  BY <1>2, <1>8, NumbersAssumption DEF a, b
<1>10. s \o x = t \o y
  BY <1>8 DEF u, v
<1>11. Len(s) = Len(t)
  BY <1>9 DEF i, j
<1> QED
  BY <1>10, <1>11, Cancel

\* A domain in front tells the kinds apart.
LEMMA DomainsApart ==
    ASSUME NEW j \in Kinds, NEW k \in Kinds, NEW x \in Texts, NEW y \in Texts,
           Domain[j] \o x = Domain[k] \o y
    PROVE  j = k
<1> SUFFICES ASSUME j # k PROVE FALSE
  OBVIOUS
<1>1. Domain[j] \in Texts /\ Domain[k] \in Texts
  BY DomainAssumption
<1>2. PICK i \in (DOMAIN Domain[j]) \cap (DOMAIN Domain[k]) : Domain[j][i] # Domain[k][i]
  BY DomainAssumption
<1>3. i \in 1 .. Len(Domain[j]) /\ i \in 1 .. Len(Domain[k])
  BY <1>1, <1>2 DEF Texts
<1>4. (Domain[j] \o x)[i] = Domain[j][i]
  BY <1>1, <1>3, Joining
<1>5. (Domain[k] \o y)[i] = Domain[k][i]
  BY <1>1, <1>3, Joining
<1> QED
  BY <1>2, <1>4, <1>5

LEMMA LpInjective ==
    ASSUME NEW s \in Texts, NEW t \in Texts, Short(s), Short(t), Lp(s) = Lp(t)
    PROVE  s = t
<1>1. <<>> \in Texts
  BY DEF Texts
<1>2. Lp(s) \in Texts /\ Lp(t) \in Texts
  BY LpType
<1>3. Lp(s) \o <<>> = Lp(s) /\ Lp(t) \o <<>> = Lp(t)
  BY <1>2, ConcatEmptySeq DEF Texts
<1> QED
  BY <1>1, <1>3, LpApart

-----------------------------------------------------------------------------
(* Each kind's fields, from the left. *)

Tail7(c) == LpSaturated(c.issuer)
Tail6(c) == Be64[c.expires_at] \o Tail7(c)
Tail5(c) == Be64[c.issued_at] \o Tail6(c)
Tail4(c) == LpSaturated(c.purpose) \o Tail5(c)
Tail3(c) == LpSaturated(c.audience) \o Tail4(c)
Tail2(c) == LpSaturated(c.did) \o Tail3(c)
Tail1(c) == LpSaturated(c.nonce) \o Tail2(c)

LEMMA NonceBytesType ==
    ASSUME NEW c \in NonceEnvelopes, Within(c)
    PROVE  /\ Tail1(c) \in Texts /\ Tail2(c) \in Texts /\ Tail3(c) \in Texts /\ Tail4(c) \in Texts
           /\ Tail5(c) \in Texts /\ Tail6(c) \in Texts /\ Tail7(c) \in Texts
           /\ NonceBytes(c) = <<c.envelope_version>> \o Tail1(c)
           /\ NonceBytes(c) \in Texts
<1>1. /\ c.nonce \in Texts /\ c.did \in Texts /\ c.audience \in Texts /\ c.purpose \in Texts
      /\ c.issuer \in Texts /\ c.issued_at \in Times /\ c.expires_at \in Times
      /\ c.envelope_version \in Byte
  BY DEF NonceEnvelopes
<1>2. Short(c.nonce) /\ Short(c.did) /\ Short(c.audience) /\ Short(c.purpose) /\ Short(c.issuer)
  BY DEF Within, NonceEnvelopes
<1>3. \A s \in {c.nonce, c.did, c.audience, c.purpose, c.issuer} : LpSaturated(s) \in Texts
  BY <1>1, <1>2, LpType
<1>4. Be64[c.issued_at] \in Texts /\ Be64[c.expires_at] \in Texts
  BY <1>1, NumbersAssumption
<1>5. Tail7(c) \in Texts
  BY <1>3 DEF Tail7
<1>6. Tail6(c) \in Texts
  BY <1>4, <1>5, Joining DEF Tail6
<1>7. Tail5(c) \in Texts
  BY <1>4, <1>6, Joining DEF Tail5
<1>8. Tail4(c) \in Texts
  BY <1>3, <1>7, Joining DEF Tail4
<1>9. Tail3(c) \in Texts
  BY <1>3, <1>8, Joining DEF Tail3
<1>10. Tail2(c) \in Texts
  BY <1>3, <1>9, Joining DEF Tail2
<1>11. Tail1(c) \in Texts
  BY <1>3, <1>10, Joining DEF Tail1
<1>12. NonceBytes(c) = <<c.envelope_version>> \o Tail1(c)
  BY DEF NonceBytes, Tail1, Tail2, Tail3, Tail4, Tail5, Tail6, Tail7
<1>13. <<c.envelope_version>> \in Texts
  BY <1>1 DEF Texts
<1> QED
  BY <1>5, <1>6, <1>7, <1>8, <1>9, <1>10, <1>11, <1>12, <1>13, Joining

\* A saturated prefix of short texts is a prefix.
LEMMA SaturatedApart ==
    ASSUME NEW s \in Texts, NEW t \in Texts, NEW x \in Texts, NEW y \in Texts,
           Short(s), Short(t), LpSaturated(s) \o x = LpSaturated(t) \o y
    PROVE  s = t /\ x = y
<1>1. LpSaturated(s) = Lp(s) /\ LpSaturated(t) = Lp(t)
  BY LpType
<1> QED
  BY <1>1, LpApart

LEMMA TimesType ==
    \A m, n \in Times : /\ Be64[m] \in Texts /\ Len(Be64[m]) = Len(Be64[n])
                        /\ Be64[m] = Be64[n] => m = n
BY NumbersAssumption

LEMMA NonceApart ==
    ASSUME NEW c \in NonceEnvelopes, NEW d \in NonceEnvelopes, Within(c), Within(d),
           NonceBytes(c) = NonceBytes(d)
    PROVE  c = d
<1>1. /\ c.nonce \in Texts /\ c.did \in Texts /\ c.audience \in Texts /\ c.purpose \in Texts
      /\ c.issuer \in Texts /\ c.issued_at \in Times /\ c.expires_at \in Times
      /\ Short(c.nonce) /\ Short(c.did) /\ Short(c.audience) /\ Short(c.purpose)
      /\ Short(c.issuer)
      /\ d.nonce \in Texts /\ d.did \in Texts /\ d.audience \in Texts /\ d.purpose \in Texts
      /\ d.issuer \in Texts /\ d.issued_at \in Times /\ d.expires_at \in Times
      /\ Short(d.nonce) /\ Short(d.did) /\ Short(d.audience) /\ Short(d.purpose)
      /\ Short(d.issuer)
  BY DEF NonceEnvelopes, Within
<1>2. c.envelope_version = d.envelope_version /\ Tail1(c) = Tail1(d)
  <2> DEFINE a == <<c.envelope_version>>
             b == <<d.envelope_version>>
  <2>1. a \in Texts /\ b \in Texts /\ Len(a) = Len(b)
    BY DEF Texts, NonceEnvelopes
  <2>2. a \o Tail1(c) = b \o Tail1(d)
    BY NonceBytesType
  <2> HIDE DEF a, b
  <2>3. a = b /\ Tail1(c) = Tail1(d)
    BY <2>1, <2>2, NonceBytesType, Cancel
  <2> QED
    BY <2>3 DEF a, b
<1>3. c.nonce = d.nonce /\ Tail2(c) = Tail2(d)
  <2> DEFINE s == c.nonce
             t == d.nonce
             x == Tail2(c)
             y == Tail2(d)
  <2>1. LpSaturated(s) \o x = LpSaturated(t) \o y
    BY <1>2 DEF Tail1
  <2>2. s \in Texts /\ t \in Texts /\ Short(s) /\ Short(t)
    BY <1>1
  <2>3. x \in Texts /\ y \in Texts
    BY NonceBytesType
  <2> HIDE DEF s, t, x, y
  <2>4. s = t /\ x = y
    BY <2>1, <2>2, <2>3, SaturatedApart
  <2> QED
    BY <2>4 DEF s, t, x, y
<1>4. c.did = d.did /\ Tail3(c) = Tail3(d)
  <2> DEFINE s == c.did
             t == d.did
             x == Tail3(c)
             y == Tail3(d)
  <2>1. LpSaturated(s) \o x = LpSaturated(t) \o y
    BY <1>3 DEF Tail2
  <2>2. s \in Texts /\ t \in Texts /\ Short(s) /\ Short(t)
    BY <1>1
  <2>3. x \in Texts /\ y \in Texts
    BY NonceBytesType
  <2> HIDE DEF s, t, x, y
  <2>4. s = t /\ x = y
    BY <2>1, <2>2, <2>3, SaturatedApart
  <2> QED
    BY <2>4 DEF s, t, x, y
<1>5. c.audience = d.audience /\ Tail4(c) = Tail4(d)
  <2> DEFINE s == c.audience
             t == d.audience
             x == Tail4(c)
             y == Tail4(d)
  <2>1. LpSaturated(s) \o x = LpSaturated(t) \o y
    BY <1>4 DEF Tail3
  <2>2. s \in Texts /\ t \in Texts /\ Short(s) /\ Short(t)
    BY <1>1
  <2>3. x \in Texts /\ y \in Texts
    BY NonceBytesType
  <2> HIDE DEF s, t, x, y
  <2>4. s = t /\ x = y
    BY <2>1, <2>2, <2>3, SaturatedApart
  <2> QED
    BY <2>4 DEF s, t, x, y
<1>6. c.purpose = d.purpose /\ Tail5(c) = Tail5(d)
  <2> DEFINE s == c.purpose
             t == d.purpose
             x == Tail5(c)
             y == Tail5(d)
  <2>1. LpSaturated(s) \o x = LpSaturated(t) \o y
    BY <1>5 DEF Tail4
  <2>2. s \in Texts /\ t \in Texts /\ Short(s) /\ Short(t)
    BY <1>1
  <2>3. x \in Texts /\ y \in Texts
    BY NonceBytesType
  <2> HIDE DEF s, t, x, y
  <2>4. s = t /\ x = y
    BY <2>1, <2>2, <2>3, SaturatedApart
  <2> QED
    BY <2>4 DEF s, t, x, y
<1>7. c.issued_at = d.issued_at /\ Tail6(c) = Tail6(d)
  <2> DEFINE a == Be64[c.issued_at]
             b == Be64[d.issued_at]
             x == Tail6(c)
             y == Tail6(d)
  <2>1. a \o x = b \o y
    BY <1>6 DEF Tail5
  <2>2. a \in Texts /\ b \in Texts /\ Len(a) = Len(b)
    BY <1>1, TimesType
  <2>3. x \in Texts /\ y \in Texts
    BY NonceBytesType
  <2> HIDE DEF a, b, x, y
  <2>4. a = b /\ x = y
    BY <2>1, <2>2, <2>3, Cancel
  <2> QED
    BY <1>1, <2>4, TimesType DEF a, b, x, y
<1>8. c.expires_at = d.expires_at /\ Tail7(c) = Tail7(d)
  <2> DEFINE a == Be64[c.expires_at]
             b == Be64[d.expires_at]
             x == Tail7(c)
             y == Tail7(d)
  <2>1. a \o x = b \o y
    BY <1>7 DEF Tail6
  <2>2. a \in Texts /\ b \in Texts /\ Len(a) = Len(b)
    BY <1>1, TimesType
  <2>3. x \in Texts /\ y \in Texts
    BY NonceBytesType
  <2> HIDE DEF a, b, x, y
  <2>4. a = b /\ x = y
    BY <2>1, <2>2, <2>3, Cancel
  <2> QED
    BY <1>1, <2>4, TimesType DEF a, b, x, y
<1>9. c.issuer = d.issuer
  BY <1>1, <1>8, LpType, LpInjective DEF Tail7
<1> QED
  BY <1>2, <1>3, <1>4, <1>5, <1>6, <1>7, <1>8, <1>9 DEF NonceEnvelopes

LEMMA ReplyBytesType ==
    ASSUME NEW c \in Replies, Short(c.context)
    PROVE  ReplyBytes(c) \in Texts
<1>1. Lp(c.context) \in Texts /\ c.shares \in Texts
  BY LpType DEF Replies
<1> QED
  BY <1>1, Joining DEF ReplyBytes

LEMMA ReplyApart ==
    ASSUME NEW c \in Replies, NEW d \in Replies, Short(c.context), Short(d.context),
           ReplyBytes(c) = ReplyBytes(d)
    PROVE  c = d
<1> DEFINE s == c.context
           t == d.context
           x == c.shares
           y == d.shares
<1>1. s \in Texts /\ t \in Texts /\ x \in Texts /\ y \in Texts
  BY DEF Replies
<1>2. Short(s) /\ Short(t) /\ Lp(s) \o x = Lp(t) \o y
  BY DEF ReplyBytes
<1> HIDE DEF s, t, x, y
<1>3. s = t /\ x = y
  BY <1>1, <1>2, LpApart
<1> QED
  BY <1>3 DEF s, t, x, y, Replies

StatusTail3(c) == Lp(c.adoption_kind) \o c.adoption_hash
StatusTail2(c) == Lp(c.owner_did) \o StatusTail3(c)
StatusTail1(c) == Lp(c.device_did) \o StatusTail2(c)

LEMMA StatusBytesType ==
    ASSUME NEW c \in Statuses, Signable(c)
    PROVE  /\ Short(c.device_did) /\ Short(c.owner_did) /\ Short(c.adoption_kind)
           /\ c.nonce \in Texts /\ Len(c.nonce) = NonceLen
           /\ StatusTail1(c) \in Texts /\ StatusTail2(c) \in Texts /\ StatusTail3(c) \in Texts
           /\ StatusBytes(c) = <<StatusVersion>> \o (c.nonce \o StatusTail1(c))
           /\ StatusBytes(c) \in Texts
<1>1. /\ c.device_did \in Texts /\ c.owner_did \in Texts /\ c.adoption_kind \in Texts
      /\ c.adoption_hash \in Texts /\ c.nonce \in [1 .. NonceLen -> Byte]
  BY DEF Statuses
<1>2. Short(c.device_did) /\ Short(c.owner_did) /\ Short(c.adoption_kind)
  BY DEF Signable, Statuses
<1>3. c.nonce \in Texts /\ Len(c.nonce) = NonceLen
  <2> DEFINE n == c.nonce
  <2>1. n \in [1 .. NonceLen -> Byte] /\ NonceLen \in Nat
    BY <1>1, NumbersAssumption
  <2> HIDE DEF n
  <2>2. n = [i \in 1 .. NonceLen |-> n[i]]
    BY <2>1
  <2>3. n \in Seq(Byte) /\ Len(n) = NonceLen
    BY <2>1, <2>2
  <2> QED
    BY <2>3 DEF n, Texts
<1>4. Lp(c.device_did) \in Texts /\ Lp(c.owner_did) \in Texts /\ Lp(c.adoption_kind) \in Texts
  BY <1>1, <1>2, LpType
<1>5. StatusTail3(c) \in Texts
  BY <1>1, <1>4, Joining DEF StatusTail3
<1>6. StatusTail2(c) \in Texts
  BY <1>4, <1>5, Joining DEF StatusTail2
<1>7. StatusTail1(c) \in Texts
  BY <1>4, <1>6, Joining DEF StatusTail1
<1>8. StatusBytes(c) = <<StatusVersion>> \o (c.nonce \o StatusTail1(c))
  BY DEF StatusBytes, StatusTail1, StatusTail2, StatusTail3
<1>9. <<StatusVersion>> \in Texts
  BY NumbersAssumption DEF Texts
<1> QED
  BY <1>2, <1>3, <1>5, <1>6, <1>7, <1>8, <1>9, Joining

LEMMA StatusApart ==
    ASSUME NEW c \in Statuses, NEW d \in Statuses, Signable(c), Signable(d),
           StatusBytes(c) = StatusBytes(d)
    PROVE  c = d
<1>1. c.nonce = d.nonce /\ StatusTail1(c) = StatusTail1(d)
  <2> DEFINE v == <<StatusVersion>>
             a == c.nonce
             b == d.nonce
             x == StatusTail1(c)
             y == StatusTail1(d)
             u == a \o x
             w == b \o y
  <2>1. a \in Texts /\ b \in Texts /\ Len(a) = Len(b) /\ x \in Texts /\ y \in Texts
    BY StatusBytesType
  <2>2. v \in Texts
    BY NumbersAssumption DEF Texts
  <2>3. v \o u = v \o w
    BY StatusBytesType
  <2> HIDE DEF v, a, b, x, y
  <2>4. u \in Texts /\ w \in Texts
    BY <2>1, Joining
  <2> HIDE DEF u, w
  <2>5. u = w
    BY <2>2, <2>3, <2>4, Cancel
  <2>6. a \o x = b \o y
    BY <2>5 DEF u, w
  <2>7. a = b /\ x = y
    BY <2>1, <2>6, Cancel
  <2> QED
    BY <2>7 DEF a, b, x, y
<1>2. c.device_did = d.device_did /\ StatusTail2(c) = StatusTail2(d)
  <2> DEFINE s == c.device_did
             t == d.device_did
             x == StatusTail2(c)
             y == StatusTail2(d)
  <2>1. Lp(s) \o x = Lp(t) \o y
    BY <1>1 DEF StatusTail1
  <2>2. s \in Texts /\ t \in Texts /\ Short(s) /\ Short(t)
    BY StatusBytesType DEF Statuses
  <2>3. x \in Texts /\ y \in Texts
    BY StatusBytesType DEF Statuses
  <2> HIDE DEF s, t, x, y
  <2>4. s = t /\ x = y
    BY <2>1, <2>2, <2>3, LpApart
  <2> QED
    BY <2>4 DEF s, t, x, y
<1>3. c.owner_did = d.owner_did /\ StatusTail3(c) = StatusTail3(d)
  <2> DEFINE s == c.owner_did
             t == d.owner_did
             x == StatusTail3(c)
             y == StatusTail3(d)
  <2>1. Lp(s) \o x = Lp(t) \o y
    BY <1>2 DEF StatusTail2
  <2>2. s \in Texts /\ t \in Texts /\ Short(s) /\ Short(t)
    BY StatusBytesType DEF Statuses
  <2>3. x \in Texts /\ y \in Texts
    BY StatusBytesType DEF Statuses
  <2> HIDE DEF s, t, x, y
  <2>4. s = t /\ x = y
    BY <2>1, <2>2, <2>3, LpApart
  <2> QED
    BY <2>4 DEF s, t, x, y
<1>4. c.adoption_kind = d.adoption_kind /\ c.adoption_hash = d.adoption_hash
  <2> DEFINE s == c.adoption_kind
             t == d.adoption_kind
             x == c.adoption_hash
             y == d.adoption_hash
  <2>1. Lp(s) \o x = Lp(t) \o y
    BY <1>3 DEF StatusTail3
  <2>2. s \in Texts /\ t \in Texts /\ Short(s) /\ Short(t)
    BY StatusBytesType DEF Statuses
  <2>3. x \in Texts /\ y \in Texts
    BY StatusBytesType DEF Statuses
  <2> HIDE DEF s, t, x, y
  <2>4. s = t /\ x = y
    BY <2>1, <2>2, <2>3, LpApart
  <2> QED
    BY <2>4 DEF s, t, x, y
<1> QED
  BY <1>1, <1>2, <1>3, <1>4 DEF Statuses

LEMMA CutNumber ==
    ASSUME NEW n \in Nat
    PROVE  n % (MaxLen + 1) \in 0 .. MaxLen /\ (n <= MaxLen => n % (MaxLen + 1) = n)
<1>1. MaxLen + 1 \in Nat \ {0} /\ MaxLen \in Nat
  BY NumbersAssumption
<1> QED
  BY <1>1

LEMMA CutType ==
    ASSUME NEW s \in Texts
    PROVE  LpCut(s) \in Texts /\ Len(LpCut(s)) = 2 + Len(s)
<1>1. Len(s) % (MaxLen + 1) \in 0 .. MaxLen
  BY CutNumber DEF Texts
<1> QED
  BY <1>1, FramedType DEF LpCut

\* A length cut to 16 bits leaves at least 65,536 bytes uncounted.
LEMMA CutLength ==
    ASSUME NEW n \in Nat, n > MaxLen
    PROVE  n % (MaxLen + 1) <= n - (MaxLen + 1)
<1>1. \A w \in Nat \ {0} : n >= w => n % w <= n - w
  BY SMT
<1> DEFINE w == MaxLen + 1
<1>2. w \in Nat \ {0} /\ n >= w
  BY NumbersAssumption
<1> HIDE DEF w
<1>3. n % w <= n - w
  BY <1>1, <1>2
<1> QED
  BY <1>3 DEF w

\* What a maker's short fields are written as is what no other two fields
\* are, even when these are too long: the length that one of them hides the
\* other would have to have past its limit.
LEMMA MakerFields ==
    ASSUME NEW m \in Texts, NEW f \in Texts, NEW n \in Texts, NEW g \in Texts,
           Short(m), Short(f), LpCut(m) \o LpCut(f) = LpCut(n) \o LpCut(g)
    PROVE  m = n /\ f = g
<1> DEFINE x == LpCut(f)
           y == LpCut(g)
<1>1. x \in Texts /\ y \in Texts /\ Len(x) = 2 + Len(f) /\ Len(y) = 2 + Len(g)
  BY CutType
<1>2. x = Be16[Len(f) % (MaxLen + 1)] \o f /\ y = Be16[Len(g) % (MaxLen + 1)] \o g
  BY DEF LpCut, Framed
<1> HIDE DEF x, y
<1>3. LpCut(m) \o x = LpCut(n) \o y
  BY DEF x, y
<1>4. Len(m) = Len(n) % (MaxLen + 1) /\ m \o x = n \o y
  <2> DEFINE i == Len(m) % (MaxLen + 1)
             j == Len(n) % (MaxLen + 1)
             a == Be16[i]
             b == Be16[j]
             u == m \o x
             v == n \o y
  <2>1. Len(m) \in Nat /\ Len(n) \in Nat /\ Len(m) <= MaxLen
    BY DEF Texts, Short
  <2>2. i \in 0 .. MaxLen /\ j \in 0 .. MaxLen /\ i = Len(m)
    BY <2>1, CutNumber
  <2>3. Framed(i, m) \o x = Framed(j, n) \o y
    BY <1>3 DEF LpCut
  <2> HIDE DEF i, j
  <2>4. Framed(i, m) \o x = a \o u /\ a \in Texts /\ Len(a) = 2 /\ u \in Texts
    BY <1>1, <2>2, FramedOpen
  <2>5. Framed(j, n) \o y = b \o v /\ b \in Texts /\ Len(b) = 2 /\ v \in Texts
    BY <1>1, <2>2, FramedOpen
  <2> HIDE DEF a, b, u, v
  <2>6. a \o u = b \o v
    BY <2>3, <2>4, <2>5
  <2>7. Len(a) = Len(b)
    BY <2>4, <2>5
  <2>8. a = b /\ u = v
    BY <2>4, <2>5, <2>6, <2>7, Cancel
  <2>9. i = j
    BY <2>2, <2>8, NumbersAssumption DEF a, b
  <2>10. m \o x = n \o y
    BY <2>8 DEF u, v
  <2> QED
    BY <2>2, <2>9, <2>10 DEF j
<1>5. Len(m) + Len(x) = Len(n) + Len(y)
  <2>1. Len(m \o x) = Len(m) + Len(x)
    BY <1>1, Joining
  <2>2. Len(n \o y) = Len(n) + Len(y)
    BY <1>1, Joining
  <2> QED
    BY <1>4, <2>1, <2>2
<1>6. /\ Len(m) \in Nat /\ Len(f) \in Nat /\ Len(n) \in Nat /\ Len(g) \in Nat
      /\ Len(m) <= MaxLen /\ Len(f) <= MaxLen /\ MaxLen \in Nat
  BY NumbersAssumption DEF Texts, Short
<1>7. Len(m) + Len(f) = Len(n) + Len(g)
  BY <1>1, <1>5, <1>6
<1>8. Len(n) <= MaxLen
  <2> SUFFICES ASSUME Len(n) > MaxLen PROVE FALSE
    BY <1>6
  <2>1. Len(m) <= Len(n) - (MaxLen + 1)
    BY <1>4, <1>6, CutLength
  <2> QED
    BY <1>6, <1>7, <2>1
<1>9. Len(m) = Len(n) /\ Len(f) = Len(g)
  <2>1. Len(n) % (MaxLen + 1) = Len(n)
    BY <1>6, <1>8, CutNumber
  <2> QED
    BY <1>4, <1>6, <1>7, <2>1
<1>10. m = n /\ x = y
  <2>1. x \in Texts /\ y \in Texts /\ Len(m) = Len(n)
    BY <1>1, <1>9
  <2>2. m \o x = n \o y
    BY <1>4
  <2> QED
    BY <2>1, <2>2, Cancel
<1>11. f = g
  <2> DEFINE p == Be16[Len(f) % (MaxLen + 1)]
  <2>1. p \in Texts
    BY <1>6, CutNumber, Be16Type
  <2>2. p \o f = p \o g
    BY <1>2, <1>9, <1>10
  <2> HIDE DEF p
  <2> QED
    BY <2>1, <2>2, Cancel
<1> QED
  BY <1>10, <1>11

LEMMA MakerApart ==
    ASSUME NEW c \in Makers, NEW d \in Makers, Within(c), MakerBytes(c) = MakerBytes(d)
    PROVE  c = d
<1> DEFINE m == c.model
           f == c.firmware
           n == d.model
           g == d.firmware
<1>1. m \in Texts /\ f \in Texts /\ n \in Texts /\ g \in Texts /\ Short(m) /\ Short(f)
  BY DEF Makers, Within
<1>2. LpCut(m) \o LpCut(f) = LpCut(n) \o LpCut(g)
  BY DEF MakerBytes
<1> HIDE DEF m, f, n, g
<1>3. m = n /\ f = g
  BY <1>1, <1>2, MakerFields
<1> QED
  BY <1>3 DEF m, f, n, g, Makers

-----------------------------------------------------------------------------
(* All kinds together. *)

Messages == NonceEnvelopes \cup Replies \cup Makers \cup Statuses \cup Encoded

LEMMA TokenType ==
    ASSUME NEW r \in Requests
    PROVE  /\ TokenOf(r) \in [did : Texts, audience : Texts, nonce : Texts, iat : Times,
                              exp : Times, signed_at : Times]
           /\ r.ttl # 0 /\ r.iat < MaxTime => TokenOf(r).iat < TokenOf(r).exp
           /\ TokenOf(r).audience = r.audience /\ TokenOf(r).nonce = r.nonce
<1>1. /\ r.did \in Texts /\ r.audience \in Texts /\ r.nonce \in Texts
      /\ r.iat \in Nat /\ r.ttl \in Nat /\ r.iat <= MaxTime /\ MaxTime \in Nat \ {0}
  BY ClaimsAssumption, NumbersAssumption DEF Times
<1> DEFINE e == IF r.iat + r.ttl > MaxTime THEN MaxTime ELSE r.iat + r.ttl
           a == IF r.iat <= 1 THEN 1 ELSE r.iat - 1
<1>2. e \in Times /\ a \in Times /\ (r.ttl # 0 /\ r.iat < MaxTime => r.iat < e)
  BY <1>1 DEF Times
<1>3. TokenOf(r) = [did |-> r.did, audience |-> r.audience, nonce |-> r.nonce, iat |-> r.iat,
                    exp |-> e, signed_at |-> a]
  BY DEF TokenOf
<1>4. r.iat \in Times
  BY <1>1 DEF Times
<1> HIDE DEF e, a
<1> QED
  BY <1>1, <1>2, <1>3, <1>4

LEMMA ClaimableType ==
    /\ Claimable \subseteq Messages
    /\ \A c \in Messages : c.kind \in Kinds
    /\ \A c \in Claims : c \in Messages /\ c.kind \notin {"genesis", "jws"}
    /\ \A t \in Tokens : /\ GenesisClaim(t) \in Claimable /\ GenesisClaim(t).kind = "genesis"
                         /\ JwsClaim(t) \in Claimable /\ JwsClaim(t).kind = "jws"
<1>1. ASSUME NEW t \in Tokens PROVE GenesisClaim(t) \in Encoded /\ JwsClaim(t) \in Encoded
  <2>1. Json[t] \in Texts /\ Roster[RosterOf(t)] \in Texts
    BY EncodersAssumption DEF Rosters
  <2> QED
    BY <2>1 DEF GenesisClaim, JwsClaim, Encoded
<1>2. Claimable \subseteq Messages
  BY <1>1, ClaimsAssumption DEF Claimable, Messages
<1>3. \A c \in Messages : c.kind \in Kinds
  BY DEF Messages, Kinds, NonceEnvelopes, Replies, Makers, Statuses, Encoded
<1>4. \A t \in Tokens : /\ GenesisClaim(t) \in Claimable /\ GenesisClaim(t).kind = "genesis"
                        /\ JwsClaim(t) \in Claimable /\ JwsClaim(t).kind = "jws"
  BY DEF Claimable, GenesisClaim, JwsClaim
<1> QED
  BY <1>2, <1>3, <1>4, ClaimsAssumption DEF Messages

LEMMA OfItsKind ==
    ASSUME NEW c \in Messages
    PROVE  /\ c.kind = "nonce" => c \in NonceEnvelopes
           /\ c.kind = "reply" => c \in Replies
           /\ c.kind = "maker" => c \in Makers
           /\ c.kind = "status" => c \in Statuses
           /\ c.kind \notin {"nonce", "reply", "maker", "status"} => c \in Encoded
BY DEF Messages, NonceEnvelopes, Replies, Makers, Statuses, Encoded

\* The claims a verifier can write out, read as a signer's message would be.
Laid(c) == Within(c) /\ (c.kind \in {"reply", "status"} => Signable(c))

LEMMA SignableLaid ==
    ASSUME NEW c \in Messages, Signable(c), c.kind # "maker"
    PROVE  Laid(c)
<1>1. CASE c.kind = "nonce"
  <2>1. Valid(c) /\ Len(c.nonce) = NonceLen
    BY <1>1 DEF Signable, Valid
  <2>2. Short(c.nonce)
    BY <2>1, NumbersAssumption DEF Short
  <2> QED
    BY <1>1, <2>1, <2>2 DEF Laid, Within, Valid
<1>2. CASE c.kind # "nonce"
  BY <1>2 DEF Laid, Within
<1> QED
  BY <1>1, <1>2

LEMMA MakerBytesType ==
    ASSUME NEW c \in Makers
    PROVE  MakerBytes(c) \in Texts
<1>1. LpCut(c.model) \in Texts /\ LpCut(c.firmware) \in Texts
  BY CutType DEF Makers
<1> QED
  BY <1>1, Joining DEF MakerBytes

LEMMA BodyType ==
    ASSUME NEW c \in Messages, Laid(c) \/ c.kind = "maker"
    PROVE  Body(c) \in Texts
<1>1. CASE c.kind = "nonce"
  BY <1>1, OfItsKind, NonceBytesType DEF Body, Laid
<1>2. CASE c.kind = "reply"
  BY <1>2, OfItsKind, ReplyBytesType DEF Body, Laid, Signable
<1>3. CASE c.kind = "maker"
  BY <1>3, OfItsKind, MakerBytesType DEF Body
<1>4. CASE c.kind = "status"
  BY <1>4, OfItsKind, StatusBytesType DEF Body, Laid
<1>5. CASE c.kind \notin {"nonce", "reply", "maker", "status"}
  BY <1>5, OfItsKind DEF Body, Encoded
<1> QED
  BY <1>1, <1>2, <1>3, <1>4, <1>5

\* Equal bytes are one message.
LEMMA CanonicalApart ==
    ASSUME NEW c \in Messages, NEW d \in Messages, Laid(c), Signable(d),
           Canonical(c) = Canonical(d)
    PROVE  c = d
<1>1. Laid(d) \/ d.kind = "maker"
  BY SignableLaid
<1>2. c.kind = d.kind /\ Body(c) = Body(d)
  <2> DEFINE j == c.kind
             k == d.kind
             x == Body(c)
             y == Body(d)
  <2>1. j \in Kinds /\ k \in Kinds
    BY ClaimableType
  <2>2. x \in Texts /\ y \in Texts
    BY <1>1, BodyType
  <2>3. Domain[j] \o x = Domain[k] \o y
    BY DEF Canonical
  <2> HIDE DEF j, k, x, y
  <2>4. j = k
    BY <2>1, <2>2, <2>3, DomainsApart
  <2>5. x = y
    <3> DEFINE p == Domain[j]
    <3>1. p \in Texts /\ p \o x = p \o y
      BY <2>1, <2>3, <2>4, DomainAssumption
    <3> HIDE DEF p
    <3> QED
      BY <2>2, <3>1, Cancel
  <2> QED
    BY <2>4, <2>5 DEF j, k, x, y
<1>3. CASE c.kind = "nonce"
  BY <1>1, <1>2, <1>3, OfItsKind, NonceApart DEF Body, Laid
<1>4. CASE c.kind = "reply"
  BY <1>2, <1>4, OfItsKind, ReplyApart DEF Body, Laid, Signable
<1>5. CASE c.kind = "maker"
  BY <1>2, <1>5, OfItsKind, MakerApart DEF Body, Laid
<1>6. CASE c.kind = "status"
  BY <1>2, <1>6, OfItsKind, StatusApart DEF Body, Laid
<1>7. CASE c.kind \notin {"nonce", "reply", "maker", "status"}
  BY <1>2, <1>7, OfItsKind DEF Body, Encoded
<1> QED
  BY <1>3, <1>4, <1>5, <1>6, <1>7

-----------------------------------------------------------------------------
(* The inductive invariant. *)

\* A signature covers a message its key signed, and signed messages are signable.
Backed ==
    /\ \A e \in signed : Signable(e[2])
    /\ \A s \in sigs : \E c \in Claimable : <<s.by, c>> \in signed /\ s.over = Canonical(c)

\* A signed token is one that was asked for.
Asked ==
    /\ \A k \in Keys, t \in Tokens : <<k, JwsClaim(t)>> \in signed => <<k, t>> \in tokens
    /\ \A e \in tokens : \E r \in Requests :
           e[2] = TokenOf(r) /\ r.audience # <<>> /\ r.nonce # <<>> /\ r.ttl # 0

IInv == TypeOK /\ Backed /\ Asked

LEMMA CanonicalType ==
    ASSUME NEW c \in Messages, Signable(c)
    PROVE  Canonical(c) \in Texts
<1>1. Body(c) \in Texts
  BY SignableLaid, BodyType
<1>2. Domain[c.kind] \in Texts
  BY ClaimableType, DomainAssumption
<1> QED
  BY <1>1, <1>2, Joining DEF Canonical

LEMMA LowType ==
    ASSUME NEW k \in Keys, NEW c \in Claimable, Signable(c)
    PROVE  /\ Low(k, c) \in [by : Keys, over : Texts, high : BOOLEAN]
           /\ Low(k, c).by = k /\ Low(k, c).over = Canonical(c)
BY ClaimableType, CanonicalType DEF Low

LEMMA InitInv == Init => IInv
BY DEF Init, IInv, TypeOK, Backed, Asked

LEMMA SignStep ==
    ASSUME IInv, NEW k \in Keys, NEW c \in Claims, Sign(k, c)
    PROVE  IInv'
<1>1. c \in Claimable /\ Signable(c) /\ c.kind # "jws"
  BY ClaimableType DEF Sign, Claimable
<1>2. /\ signed' = signed \cup {<<k, c>>} /\ sigs' = sigs \cup {Low(k, c)}
      /\ tokens' = tokens
  BY DEF Sign
<1>3. TypeOK'
  BY <1>1, <1>2, LowType DEF IInv, TypeOK
<1>4. Backed'
  BY <1>1, <1>2, LowType DEF IInv, Backed
<1>5. Asked'
  <2>1. ASSUME NEW i \in Keys, NEW t \in Tokens, <<i, JwsClaim(t)>> \in signed'
        PROVE  <<i, JwsClaim(t)>> \in signed
    <3>1. JwsClaim(t) # c
      BY <1>1, ClaimableType
    <3> QED
      BY <1>2, <2>1, <3>1
  <2> QED
    BY <1>2, <2>1 DEF IInv, Asked
<1> QED
  BY <1>3, <1>4, <1>5 DEF IInv

LEMMA BuildStep ==
    ASSUME IInv, NEW k \in Keys, NEW r \in Requests, BuildToken(k, r)
    PROVE  IInv'
<1> DEFINE t == TokenOf(r)
           g == GenesisClaim(t)
           j == JwsClaim(t)
<1>1. t \in Tokens
  BY DEF Tokens
<1>2. /\ g \in Claimable /\ g.kind = "genesis" /\ j \in Claimable /\ j.kind = "jws"
  BY <1>1, ClaimableType
<1>3. Signable(g) /\ Signable(j)
  BY <1>2 DEF Signable
<1>4. /\ r.audience # <<>> /\ r.nonce # <<>> /\ r.ttl # 0
      /\ tokens' = tokens \cup {<<k, t>>}
      /\ signed' = signed \cup {<<k, g>>, <<k, j>>}
      /\ sigs' = sigs \cup {Low(k, g), Low(k, j)}
  BY DEF BuildToken
<1>5. t \in [did : Texts, audience : Texts, nonce : Texts, iat : Times, exp : Times,
             signed_at : Times]
  BY TokenType
<1>6. \A u \in Tokens : JwsClaim(u) # g /\ (JwsClaim(u) = j => u = t)
  <2> SUFFICES ASSUME NEW u \in Tokens
               PROVE  JwsClaim(u) # g /\ (JwsClaim(u) = j => u = t)
    OBVIOUS
  <2>1. JwsClaim(u).kind = "jws" /\ JwsClaim(u).bytes = Json[u] /\ j.bytes = Json[t]
    BY DEF JwsClaim
  <2> QED
    BY <1>1, <1>2, <2>1, EncodersAssumption
<1>7. <<k, t>>[2] = TokenOf(r)
  OBVIOUS
<1> HIDE DEF t, g, j
<1>8. TypeOK'
  BY <1>2, <1>3, <1>4, <1>5, LowType DEF IInv, TypeOK
<1>9. Backed'
  BY <1>2, <1>3, <1>4, LowType DEF IInv, Backed
<1>10. Asked'
  <2>1. ASSUME NEW i \in Keys, NEW u \in Tokens, <<i, JwsClaim(u)>> \in signed'
        PROVE  <<i, u>> \in tokens'
    <3>1. CASE <<i, JwsClaim(u)>> \in signed
      BY <1>4, <3>1 DEF IInv, Asked
    <3>2. CASE <<i, JwsClaim(u)>> \notin signed
      <4>1. i = k /\ JwsClaim(u) = j
        BY <1>4, <1>6, <2>1, <3>2
      <4> QED
        BY <1>4, <1>6, <4>1
    <3> QED
      BY <3>1, <3>2
  <2>2. ASSUME NEW e \in tokens'
        PROVE  \E q \in Requests :
                   e[2] = TokenOf(q) /\ q.audience # <<>> /\ q.nonce # <<>> /\ q.ttl # 0
    BY <1>4, <1>7, <2>2 DEF IInv, Asked
  <2> QED
    BY <2>1, <2>2 DEF Asked
<1> QED
  BY <1>8, <1>9, <1>10 DEF IInv

LEMMA TwinStep ==
    ASSUME IInv, NEW s \in sigs, Twin(s)
    PROVE  IInv'
<1> DEFINE w == [s EXCEPT !.high = ~s.high]
<1>1. s \in [by : Keys, over : Texts, high : BOOLEAN]
  BY DEF IInv, TypeOK
<1>2. /\ w \in [by : Keys, over : Texts, high : BOOLEAN]
      /\ w.by = s.by /\ w.over = s.over
  BY <1>1
<1>3. sigs' = sigs \cup {w} /\ signed' = signed /\ tokens' = tokens
  BY DEF Twin
<1> HIDE DEF w
<1>4. TypeOK'
  BY <1>2, <1>3 DEF IInv, TypeOK
<1>5. Backed'
  BY <1>2, <1>3 DEF IInv, Backed
<1>6. Asked'
  BY <1>3 DEF IInv, Asked
<1> QED
  BY <1>4, <1>5, <1>6 DEF IInv

LEMMA StepInv == IInv /\ [Next]_vars => IInv'
<1> SUFFICES ASSUME IInv, [Next]_vars PROVE IInv'
  OBVIOUS
<1>1. CASE UNCHANGED vars
  BY <1>1 DEF vars, IInv, TypeOK, Backed, Asked
<1>2. CASE Next
  BY <1>2, SignStep, BuildStep, TwinStep DEF Next
<1> QED
  BY <1>1, <1>2

\* Signatures are over bytes, tokens within the width of the clock.
THEOREM TypeCorrect == Spec => []TypeOK
<1>1. IInv => TypeOK
  BY DEF IInv
<1> QED
  BY <1>1, InitInv, StepInv, PTL DEF Spec

LEMMA Meant == IInv => AcceptedWasMeant
<1> SUFFICES ASSUME IInv, NEW s \in sigs, NEW k \in Keys, NEW c \in Claimable,
                    Takes(k, c, s), Within(c)
             PROVE  <<k, c>> \in signed
  BY DEF AcceptedWasMeant
<1>1. s.by = k /\ s.over = Canonical(c) /\ Laid(c)
  BY DEF Takes, VerifyPrehash, Laid
<1>2. PICK d \in Claimable : <<s.by, d>> \in signed /\ s.over = Canonical(d)
  BY DEF IInv, Backed
<1>3. Signable(d)
  BY <1>2 DEF IInv, Backed
<1>4. c = d
  BY <1>1, <1>2, <1>3, ClaimableType, CanonicalApart
<1> QED
  BY <1>1, <1>2, <1>4

\* Whatever is verified was signed as that message: no two messages of any
\* kinds have equal bytes, for all domains of which none begins another and
\* whatever the limit of the length prefixes.
THEOREM OnlyMeantIsAccepted == Spec => []AcceptedWasMeant
BY InitInv, StepInv, Meant, PTL DEF Spec

LEMMA Unique == IInv => NotMalleable
<1> SUFFICES ASSUME IInv, NEW s \in sigs, NEW t \in sigs, NEW k \in Keys, NEW c \in Claims,
                    c.kind # "nonce", Takes(k, c, s), Takes(k, c, t)
             PROVE  s = t
  BY DEF NotMalleable
<1>1. c.kind \in Kinds /\ c.kind \notin {"genesis", "jws"}
  BY ClaimableType
<1>2. c.kind \in {"reply", "manifest", "maker", "status"}
  BY <1>1 DEF Kinds
<1>3. /\ s.by = k /\ s.over = Canonical(c) /\ ~s.high
      /\ t.by = k /\ t.over = Canonical(c) /\ ~t.high
  BY <1>2 DEF Takes, VerifyPrehash
<1>4. /\ s \in [by : Keys, over : Texts, high : BOOLEAN]
      /\ t \in [by : Keys, over : Texts, high : BOOLEAN]
  BY DEF IInv, TypeOK
<1> QED
  BY <1>3, <1>4

\* One signature verifies for a message of this family's.
THEOREM SignaturesAreUnique == Spec => []NotMalleable
BY InitInv, StepInv, Unique, PTL DEF Spec

LEMMA SignIns == IInv => SignInsWereAsked
<1> SUFFICES ASSUME IInv, NEW t \in Tokens, Believes(t)
             PROVE  /\ <<ParseDid(t.did), t>> \in tokens
                    /\ t.audience # <<>> /\ t.nonce # <<>>
                    /\ t.iat < MaxTime => t.iat < t.exp
  BY DEF SignInsWereAsked
<1>1. PICK k \in Keys, s \in sigs : ParseDid(t.did) = k /\ Takes(k, JwsClaim(t), s)
  BY DEF Believes
<1>2. JwsClaim(t) \in Claimable /\ Within(JwsClaim(t))
  BY ClaimableType DEF Within
<1>3. <<k, JwsClaim(t)>> \in signed
  BY <1>1, <1>2, Meant DEF AcceptedWasMeant
<1>4. <<k, t>> \in tokens
  BY <1>3 DEF IInv, Asked
<1>5. PICK r \in Requests : t = TokenOf(r) /\ r.audience # <<>> /\ r.nonce # <<>> /\ r.ttl # 0
  BY <1>4 DEF IInv, Asked
<1>6. t.audience = r.audience /\ t.nonce = r.nonce /\ t.iat = r.iat
  BY <1>5 DEF TokenOf
<1>7. t.iat < MaxTime => t.iat < t.exp
  BY <1>5, <1>6, TokenType
<1> QED
  BY <1>1, <1>4, <1>5, <1>6, <1>7

\* A relying party believes only sign-ins that were asked for, and that end
\* after they begin.
THEOREM OnlyAskedSignIns == Spec => []SignInsWereAsked
BY InitInv, StepInv, SignIns, PTL DEF Spec

-----------------------------------------------------------------------------
(* The texts of identities.  Digits in a base are a number and, where the   *)
(* first is not zero, the numeral of that number; leading zeros are kept    *)
(* beside it; so text and key are converted without loss and a text that    *)
(* parses is the only one of its key.  The induction is over sets of        *)
(* numbers, from the least number that is not in the set.                   *)

\* Of some numbers one is the least.
LEMMA Least ==
    ASSUME NEW T, T \subseteq Nat, T # {}
    PROVE  \E x \in T : \A y \in T : x <= y
<1> DEFINE R == OpToRel(<, Nat)
<1>1. IsWellFoundedOn(R, Nat)
  BY NatLessThanWellFounded
<1>2. \A x, y \in Nat : y < x => <<y, x>> \in R
  BY DEF OpToRel
<1> HIDE DEF R
<1>3. PICK x \in T : \A y \in T : ~(<<y, x>> \in R)
  BY <1>1, WFMin
<1>4. \A y \in T : ~(y < x)
  BY <1>2, <1>3
<1>5. \A y \in T : y \in Nat /\ x \in Nat
  BY <1>3
<1> QED
  BY <1>3, <1>4, <1>5

\* Induction: a set with 0 and the successors of its numbers has them all.
LEMMA Everywhere ==
    ASSUME NEW A, 0 \in A, \A n \in Nat : n \in A => n + 1 \in A
    PROVE  Nat \subseteq A
<1> SUFFICES ASSUME Nat \ A # {} PROVE FALSE
  OBVIOUS
<1> DEFINE T == Nat \ A
<1>1. T \subseteq Nat /\ T # {}
  OBVIOUS
<1> HIDE DEF T
<1>2. PICK x \in T : \A y \in T : x <= y
  BY <1>1, Least
<1>3. x \in Nat /\ x \notin A /\ \A y \in Nat : y \notin A => x <= y
  BY <1>2 DEF T
<1>4. x # 0 /\ x - 1 \in Nat
  BY <1>3
<1>5. x - 1 \in A
  BY <1>3, <1>4
<1> QED
  BY <1>3, <1>4, <1>5

\* One step of Number stays among the numbers.
LEMMA Horner == ASSUME NEW x \in Nat, NEW y \in Nat, NEW z \in Nat PROVE x * y + z \in Nat
<1> x * y \in Nat
  OBVIOUS
<1> QED
  OBVIOUS

\* g holds the numbers that the first 0 .. n digits of s stand for.
Values(g, s, b, n) ==
    /\ g \in [0 .. n -> Nat]
    /\ g[0] = 0
    /\ \A i \in 1 .. n : g[i] = g[i - 1] * b + s[i]

\* There are such values.
LEMMA ValuesExist ==
    ASSUME NEW s \in Seq(Nat), NEW b \in Nat
    PROVE  \A n \in 0 .. Len(s) : \E g : Values(g, s, b, n)
<1> DEFINE A == {n \in Nat : n <= Len(s) => \E g : Values(g, s, b, n)}
<1>1. 0 \in A
  <2>1. Values([i \in 0 .. 0 |-> 0], s, b, 0)
    BY DEF Values
  <2> QED
    BY <2>1
<1>2. ASSUME NEW n \in Nat, n \in A PROVE n + 1 \in A
  <2> SUFFICES ASSUME n + 1 <= Len(s) PROVE \E g : Values(g, s, b, n + 1)
    OBVIOUS
  <2>1. PICK g : Values(g, s, b, n)
    BY <1>2
  <2> DEFINE v == g[n] * b + s[n + 1]
             h == [i \in 0 .. n + 1 |-> IF i = n + 1 THEN v ELSE g[i]]
  <2>2. g[n] \in Nat /\ s[n + 1] \in Nat
    BY <2>1 DEF Values
  <2>3. v \in Nat
    BY <2>2, Horner
  <2> HIDE DEF v
  <2>4. h \in [0 .. n + 1 -> Nat] /\ h[0] = 0
    BY <2>1, <2>3 DEF Values
  <2>5. ASSUME NEW i \in 1 .. n + 1 PROVE h[i] = h[i - 1] * b + s[i]
    <3>1. CASE i = n + 1
      <4>1. h[i] = v /\ h[i - 1] = g[n]
        BY <3>1
      <4> QED
        BY <3>1, <4>1 DEF v
    <3>2. CASE i \in 1 .. n
      <4>1. h[i] = g[i] /\ h[i - 1] = g[i - 1]
        BY <3>2
      <4> QED
        BY <2>1, <3>2, <4>1 DEF Values
    <3> QED
      BY <3>1, <3>2
  <2>6. Values(h, s, b, n + 1)
    BY <2>4, <2>5 DEF Values
  <2> QED
    BY <2>6
<1> HIDE DEF A
<1>3. Nat \subseteq A
  BY <1>1, <1>2, Everywhere
<1> QED
  BY <1>3 DEF A

\* They are the same for all that begin with those digits.
LEMMA ValuesUnique ==
    ASSUME NEW s, NEW t, NEW b, NEW g, NEW h, NEW m, NEW n,
           b \in Nat, m \in Nat, n \in Nat, m <= n,
           Values(g, s, b, m), Values(h, t, b, n), \A i \in 1 .. m : s[i] = t[i]
    PROVE  g[m] = h[m]
<1> DEFINE A == {i \in Nat : i <= m => g[i] = h[i]}
<1>1. 0 \in A
  BY DEF Values
<1>2. ASSUME NEW i \in Nat, i \in A PROVE i + 1 \in A
  <2> SUFFICES ASSUME i + 1 <= m PROVE g[i + 1] = h[i + 1]
    OBVIOUS
  <2>1. g[i] = h[i] /\ s[i + 1] = t[i + 1]
    BY <1>2
  <2>2. g[i + 1] = g[(i + 1) - 1] * b + s[i + 1] /\ h[i + 1] = h[(i + 1) - 1] * b + t[i + 1]
    BY DEF Values
  <2>3. (i + 1) - 1 = i
    OBVIOUS
  <2> QED
    BY <2>1, <2>2, <2>3
<1> HIDE DEF A
<1>3. Nat \subseteq A
  BY <1>1, <1>2, Everywhere
<1> QED
  BY <1>3 DEF A

\* The last of them is what Number computes.
LEMMA NumberIs ==
    ASSUME NEW s \in Seq(Nat), NEW b \in Nat, NEW g, Values(g, s, b, Len(s))
    PROVE  Number(s, b) = g[Len(s)]
<1> DEFINE IsValue(f) == f = [i \in 0 .. Len(s) |-> IF i = 0 THEN 0 ELSE f[i - 1] * b + s[i]]
<1>1. ASSUME NEW f, IsValue(f) PROVE f[Len(s)] = g[Len(s)]
  <2> DEFINE A == {i \in Nat : i <= Len(s) => f[i] = g[i]}
  <2>0. /\ f[0] = 0
        /\ \A i \in 1 .. Len(s) : f[i] = f[i - 1] * b + s[i]
    <3> DEFINE e == [i \in 0 .. Len(s) |-> IF i = 0 THEN 0 ELSE f[i - 1] * b + s[i]]
    <3>1. e[0] = 0 /\ \A i \in 1 .. Len(s) : e[i] = f[i - 1] * b + s[i]
      OBVIOUS
    <3>2. f = e
      BY <1>1, Zenon
    <3> QED
      BY <3>1, <3>2, Zenon
  <2>1. 0 \in A
    BY <2>0 DEF Values
  <2>2. ASSUME NEW i \in Nat, i \in A PROVE i + 1 \in A
    <3> SUFFICES ASSUME i + 1 <= Len(s) PROVE f[i + 1] = g[i + 1]
      OBVIOUS
    <3>1. f[i] = g[i]
      BY <2>2
    <3>2. f[i + 1] = f[(i + 1) - 1] * b + s[i + 1] /\ g[i + 1] = g[(i + 1) - 1] * b + s[i + 1]
      BY <2>0 DEF Values
    <3>3. (i + 1) - 1 = i
      OBVIOUS
    <3> QED
      BY <3>1, <3>2, <3>3
  <2> HIDE DEF A
  <2>3. Nat \subseteq A
    BY <2>1, <2>2, Everywhere
  <2>4. Len(s) \in Nat
    OBVIOUS
  <2> QED
    BY <2>3, <2>4 DEF A
<1>2. IsValue(g)
  <2>1. g = [i \in 0 .. Len(s) |-> g[i]]
    BY DEF Values
  <2>2. \A i \in 0 .. Len(s) : g[i] = IF i = 0 THEN 0 ELSE g[i - 1] * b + s[i]
    BY DEF Values
  <2> QED
    BY <2>1, <2>2
<1>3. Number(s, b) = (CHOOSE f : IsValue(f))[Len(s)]
  BY DEF Number
<1> QED
  BY <1>1, <1>2, <1>3

\* Number, unfolded: no digits, and one more.
LEMMA NumberEmpty == ASSUME NEW b \in Nat PROVE Number(<<>>, b) = 0
<1> DEFINE s == <<>>
<1>1. s \in Seq(Nat) /\ Len(s) = 0 /\ 0 \in 0 .. Len(s)
  OBVIOUS
<1> HIDE DEF s
<1>2. PICK g : Values(g, s, b, 0)
  BY <1>1, ValuesExist
<1>3. Number(s, b) = g[0]
  BY <1>1, <1>2, NumberIs
<1> QED
  BY <1>2, <1>3 DEF s, Values

LEMMA NumberNat ==
    ASSUME NEW s \in Seq(Nat), NEW b \in Nat
    PROVE  Number(s, b) \in Nat
<1>1. Len(s) \in 0 .. Len(s)
  OBVIOUS
<1>2. PICK g : Values(g, s, b, Len(s))
  BY <1>1, ValuesExist
<1>3. Number(s, b) = g[Len(s)]
  BY <1>2, NumberIs
<1> QED
  BY <1>1, <1>2, <1>3 DEF Values

LEMMA NumberAppend ==
    ASSUME NEW s \in Seq(Nat), NEW d \in Nat, NEW b \in Nat
    PROVE  Number(Append(s, d), b) = Number(s, b) * b + d
<1>1. /\ Append(s, d) \in Seq(Nat) /\ Len(Append(s, d)) = Len(s) + 1 /\ Len(s) \in Nat
      /\ \A i \in 1 .. Len(s) : s[i] = Append(s, d)[i]
      /\ Append(s, d)[Len(s) + 1] = d
  OBVIOUS
<1>2. ASSUME NEW t \in Seq(Nat), NEW n \in Nat, Len(s) = n, Len(t) = n + 1, t[n + 1] = d,
             \A i \in 1 .. n : s[i] = t[i]
      PROVE  Number(t, b) = Number(s, b) * b + d
  <2>0. n \in 0 .. n /\ n + 1 \in 0 .. n + 1 /\ n + 1 \in Nat /\ n <= n + 1 /\ (n + 1) - 1 = n
        /\ n + 1 \in 1 .. n + 1
    OBVIOUS
  <2>1. PICK g : Values(g, t, b, n + 1)
    BY <1>2, <2>0, ValuesExist
  <2>2. PICK h : Values(h, s, b, n)
    BY <1>2, <2>0, ValuesExist
  <2>3. Number(t, b) = g[n + 1]
    BY <1>2, <2>1, NumberIs
  <2>4. Number(s, b) = h[n]
    BY <1>2, <2>2, NumberIs
  <2>5. h[n] = g[n]
    BY <1>2, <2>0, <2>1, <2>2, ValuesUnique
  <2>6. g[n + 1] = g[n] * b + d
    BY <1>2, <2>0, <2>1 DEF Values
  <2> QED
    BY <2>3, <2>4, <2>5, <2>6
<1> QED
  BY <1>1, <1>2

\* A number by its quotient and remainder; the quotient is less.
LEMMA Division ==
    ASSUME NEW n \in Nat, NEW b \in Nat \ {0, 1}
    PROVE  /\ n \div b \in Nat /\ n % b \in 0 .. b - 1
           /\ n = (n \div b) * b + (n % b)
           /\ n # 0 => n \div b < n
<1>1. n \div b \in Nat /\ n % b \in 0 .. b - 1
  OBVIOUS
<1>2. n = (n \div b) * b + (n % b)
  OBVIOUS
<1>3. n # 0 => n \div b < n
  OBVIOUS
<1> QED
  BY <1>1, <1>2, <1>3

\* A number by a digit more, taken apart again.
LEMMA Quotient ==
    ASSUME NEW v \in Nat, NEW b \in Nat \ {0, 1}, NEW d \in 0 .. b - 1
    PROVE  (v * b + d) \div b = v /\ (v * b + d) % b = d
<1>1. (v * b + d) \div b = v
  OBVIOUS
<1>2. (v * b + d) % b = d
  OBVIOUS
<1> QED
  BY <1>1, <1>2

\* g holds the numerals of 0 .. n.
Numerals(g, n, b) ==
    /\ g \in [0 .. n -> Seq(0 .. b - 1)]
    /\ g[0] = <<>>
    /\ \A m \in 1 .. n : g[m] = Append(g[m \div b], m % b)

\* There are such numerals.
LEMMA NumeralsExist ==
    ASSUME NEW b \in Nat \ {0, 1}
    PROVE  \A n \in Nat : \E g : Numerals(g, n, b)
<1> DEFINE A == {n \in Nat : \E g : Numerals(g, n, b)}
<1>1. 0 \in A
  <2>1. Numerals([i \in 0 .. 0 |-> <<>>], 0, b)
    BY DEF Numerals
  <2> QED
    BY <2>1
<1>2. ASSUME NEW n \in Nat, n \in A PROVE n + 1 \in A
  <2>1. PICK g : Numerals(g, n, b)
    BY <1>2
  <2> DEFINE q == (n + 1) \div b
             r == (n + 1) % b
             v == Append(g[q], r)
             h == [i \in 0 .. n + 1 |-> IF i = n + 1 THEN v ELSE g[i]]
  <2>2. q \in 0 .. n /\ r \in 0 .. b - 1
    <3>1. n + 1 \in Nat /\ n + 1 # 0
      OBVIOUS
    <3>2. q \in Nat /\ r \in 0 .. b - 1 /\ q < n + 1
      BY <3>1, Division
    <3> HIDE DEF q, r
    <3> QED
      BY <3>2
  <2> HIDE DEF q, r
  <2>3. g[q] \in Seq(0 .. b - 1)
    BY <2>1, <2>2 DEF Numerals
  <2>4. v \in Seq(0 .. b - 1)
    BY <2>2, <2>3
  <2> HIDE DEF v
  <2>5. h \in [0 .. n + 1 -> Seq(0 .. b - 1)] /\ h[0] = g[0]
    <3> DEFINE D == Seq(0 .. b - 1)
    <3>1. g \in [0 .. n -> D] /\ v \in D
      BY <2>1, <2>4 DEF Numerals
    <3> HIDE DEF D
    <3>2. \A i \in 0 .. n + 1 : i = n + 1 \/ i \in 0 .. n
      OBVIOUS
    <3>3. h \in [0 .. n + 1 -> D] /\ h[0] = g[0]
      BY <3>1, <3>2
    <3> QED
      BY <3>3 DEF D
  <2>6. ASSUME NEW m \in 1 .. n + 1 PROVE h[m] = Append(h[m \div b], m % b)
    <3> DEFINE k == m \div b
    <3>1. k \in 0 .. n
      <4>1. m \in Nat /\ m # 0 /\ m <= n + 1
        OBVIOUS
      <4>2. k \in Nat /\ k < m
        BY <4>1, Division
      <4> HIDE DEF k
      <4> QED
        BY <4>1, <4>2
    <3> HIDE DEF k
    <3>2. h[k] = g[k]
      BY <3>1
    <3>3. CASE m = n + 1
      <4>1. h[m] = v
        BY <3>3
      <4> HIDE DEF h
      <4>2. k = q /\ m % b = r
        BY <3>3 DEF k, q, r
      <4> QED
        BY <3>2, <4>1, <4>2 DEF v, k
    <3>4. CASE m \in 1 .. n
      <4>1. h[m] = g[m]
        BY <3>4
      <4> HIDE DEF h
      <4>2. g[m] = Append(g[m \div b], m % b)
        BY <2>1, <3>4 DEF Numerals
      <4> QED
        BY <3>2, <4>1, <4>2 DEF k
    <3>5. m = n + 1 \/ m \in 1 .. n
      OBVIOUS
    <3> QED
      BY <3>3, <3>4, <3>5
  <2> HIDE DEF h
  <2>7. Numerals(h, n + 1, b)
    BY <2>1, <2>5, <2>6 DEF Numerals
  <2> QED
    BY <2>7
<1> HIDE DEF A
<1>3. Nat \subseteq A
  BY <1>1, <1>2, Everywhere
<1> QED
  BY <1>3 DEF A

\* Whatever satisfies the recursion is the numeral.
LEMMA NumeralIs ==
    ASSUME NEW n \in Nat, NEW b \in Nat \ {0, 1}, NEW g, NEW m \in 0 .. n, Numerals(g, n, b)
    PROVE  Numeral(m, b) = g[m]
<1> DEFINE IsNumeral(f) ==
        f = [i \in 0 .. m |-> IF i = 0 THEN <<>> ELSE Append(f[i \div b], i % b)]
<1>1. ASSUME NEW f, IsNumeral(f) PROVE f[m] = g[m]
  <2>1. f[0] = <<>> /\ \A i \in 1 .. m : f[i] = Append(f[i \div b], i % b)
    <3> DEFINE e == [i \in 0 .. m |-> IF i = 0 THEN <<>> ELSE Append(f[i \div b], i % b)]
    <3>0. 0 \in 0 .. m /\ \A i \in 1 .. m : i \in 0 .. m /\ i # 0
      OBVIOUS
    <3>1. e[0] = <<>> /\ \A i \in 1 .. m : e[i] = Append(f[i \div b], i % b)
      BY <3>0, Zenon
    <3>2. f = e
      BY <1>1, Zenon
    <3> QED
      BY <3>1, <3>2, Zenon
  <2> HIDE DEF IsNumeral
  <2> DEFINE T == {i \in 0 .. m : f[i] # g[i]}
  <2>2. ASSUME T # {} PROVE FALSE
    <3>1. T \subseteq Nat
      OBVIOUS
    <3> HIDE DEF T
    <3>2. PICK x \in T : \A y \in T : x <= y
      BY <2>2, <3>1, Least
    <3>3. x \in 0 .. m /\ f[x] # g[x] /\ \A y \in 0 .. m : f[y] # g[y] => x <= y
      BY <3>2 DEF T
    <3>4. x # 0
      BY <2>1, <3>3 DEF Numerals
    <3>5. x \div b \in 0 .. m /\ x \div b < x
      BY <3>3, <3>4, Division
    <3>6. f[x \div b] = g[x \div b]
      BY <3>3, <3>5
    <3>7. x \in 1 .. m /\ x \in 1 .. n
      BY <3>3, <3>4
    <3>8. f[x] = Append(f[x \div b], x % b) /\ g[x] = Append(g[x \div b], x % b)
      BY <2>1, <3>7 DEF Numerals
    <3> QED
      BY <3>3, <3>6, <3>8
  <2>3. m \in 0 .. m
    OBVIOUS
  <2> QED
    BY <2>2, <2>3
<1>2. \E f : IsNumeral(f)
  <2> DEFINE f == [i \in 0 .. m |-> g[i]]
  <2>1. ASSUME NEW i \in 1 .. m PROVE i \div b \in 0 .. m
    <3>1. i \in Nat /\ i # 0 /\ i <= m
      OBVIOUS
    <3>2. i \div b \in Nat /\ i \div b < i
      BY <3>1, Division
    <3> DEFINE k == i \div b
    <3> HIDE DEF k
    <3>3. k \in Nat /\ k < i
      BY <3>2 DEF k
    <3>4. k \in 0 .. m
      BY <3>1, <3>3
    <3> QED
      BY <3>4 DEF k
  <2>2. \A i \in 0 .. m : f[i] = IF i = 0 THEN <<>> ELSE Append(f[i \div b], i % b)
    <3> SUFFICES ASSUME NEW i \in 0 .. m
                 PROVE  f[i] = IF i = 0 THEN <<>> ELSE Append(f[i \div b], i % b)
      OBVIOUS
    <3>1. CASE i = 0
      BY <3>1 DEF Numerals
    <3>2. CASE i # 0
      <4>1. i \in 1 .. m /\ i \in 1 .. n
        BY <3>2
      <4>2. f[i \div b] = g[i \div b] /\ f[i] = g[i]
        BY <2>1, <4>1
      <4>3. g[i] = Append(g[i \div b], i % b)
        BY <4>1 DEF Numerals
      <4> QED
        BY <3>2, <4>2, <4>3
    <3> QED
      BY <3>1, <3>2
  <2>3. f = [i \in 0 .. m |-> f[i]]
    OBVIOUS
  <2> HIDE DEF f
  <2>4. IsNumeral(f)
    BY <2>2, <2>3
  <2> QED
    BY <2>4
<1>3. Numeral(m, b) = (CHOOSE f : IsNumeral(f))[m]
  BY DEF Numeral
<1> QED
  BY <1>1, <1>2, <1>3

\* Numeral, unfolded: zero, and a number by its quotient and last digit.
LEMMA NumeralStep ==
    ASSUME NEW b \in Nat \ {0, 1}
    PROVE  /\ Numeral(0, b) = <<>>
           /\ \A n \in Nat : Numeral(n, b) \in Seq(0 .. b - 1)
           /\ \A n \in Nat \ {0} : Numeral(n, b) = Append(Numeral(n \div b, b), n % b)
<1>1. Numeral(0, b) = <<>>
  <2>0. 0 \in Nat /\ 0 \in 0 .. 0
    OBVIOUS
  <2>1. PICK g : Numerals(g, 0, b)
    BY <2>0, NumeralsExist
  <2>2. Numeral(0, b) = g[0]
    BY <2>0, <2>1, NumeralIs
  <2> QED
    BY <2>1, <2>2 DEF Numerals
<1>2. ASSUME NEW n \in Nat PROVE Numeral(n, b) \in Seq(0 .. b - 1)
  <2>1. PICK g : Numerals(g, n, b)
    BY NumeralsExist
  <2>2. n \in 0 .. n
    OBVIOUS
  <2>3. Numeral(n, b) = g[n]
    BY <2>1, <2>2, NumeralIs
  <2> QED
    BY <2>1, <2>2, <2>3 DEF Numerals
<1>3. ASSUME NEW n \in Nat \ {0} PROVE Numeral(n, b) = Append(Numeral(n \div b, b), n % b)
  <2>1. PICK g : Numerals(g, n, b)
    BY NumeralsExist
  <2>2. n \in 0 .. n /\ n \in 1 .. n /\ n \div b \in 0 .. n
    BY Division
  <2>3. Numeral(n, b) = g[n] /\ Numeral(n \div b, b) = g[n \div b]
    BY <2>1, <2>2, NumeralIs
  <2> QED
    BY <2>1, <2>2, <2>3 DEF Numerals
<1> QED
  BY <1>1, <1>2, <1>3

\* A numeral read back is the number it was written for.
LEMMA NumeralReads ==
    ASSUME NEW b \in Nat \ {0, 1}, NEW n \in Nat
    PROVE  /\ Number(Numeral(n, b), b) = n
           /\ n # 0 => Len(Numeral(n, b)) # 0 /\ Numeral(n, b)[1] # 0
<1> DEFINE Good(x) == /\ Number(Numeral(x, b), b) = x
                      /\ x # 0 => Len(Numeral(x, b)) # 0 /\ Numeral(x, b)[1] # 0
           T == {x \in Nat : ~Good(x)}
<1>1. ASSUME T # {} PROVE FALSE
  <2>1. T \subseteq Nat
    OBVIOUS
  <2> HIDE DEF T
  <2>2. PICK x \in T : \A y \in T : x <= y
    BY <1>1, <2>1, Least
  <2>3. x \in Nat /\ ~Good(x) /\ \A y \in Nat : ~Good(y) => x <= y
    BY <2>2 DEF T
  <2>4. CASE x = 0
    <3>1. Number(Numeral(0, b), b) = 0
      BY NumeralStep, NumberEmpty
    <3> QED
      BY <2>3, <2>4, <3>1
  <2>5. CASE x # 0
    <3> DEFINE q == x \div b
               d == x % b
               p == Numeral(q, b)
    <3>1. q \in Nat /\ d \in Nat /\ x = q * b + d /\ q < x
      BY <2>3, <2>5, Division
    <3>2. p \in Seq(Nat) /\ Numeral(x, b) = Append(p, d)
      <4>1. p \in Seq(0 .. b - 1) /\ 0 .. b - 1 \subseteq Nat
        BY <3>1, NumeralStep
      <4>2. p \in Seq(Nat)
        BY <4>1, SeqMonotonic
      <4> QED
        BY <2>3, <2>5, <4>2, NumeralStep
    <3>3. ~(x <= q)
      BY <2>3, <3>1
    <3>4. Good(q)
      BY <2>3, <3>1, <3>3
    <3> HIDE DEF q, d, p
    <3>5. Number(Append(p, d), b) = x
      <4>1. Number(p, b) = q
        BY <3>4 DEF p
      <4> QED
        BY <3>1, <3>2, <4>1, NumberAppend
    <3>6. Len(Append(p, d)) # 0 /\ Append(p, d)[1] # 0
      <4>1. CASE q = 0
        <5>1. p = <<>>
          BY <4>1, NumeralStep DEF p
        <5>2. d # 0
          BY <2>5, <3>1, <4>1
        <5> QED
          BY <5>1, <5>2
      <4>2. CASE q # 0
        <5>1. Len(p) # 0 /\ p[1] # 0
          BY <3>4, <4>2 DEF p
        <5> QED
          BY <3>1, <3>2, <5>1
      <4> QED
        BY <4>1, <4>2
    <3> QED
      BY <2>3, <3>2, <3>5, <3>6
  <2> QED
    BY <2>4, <2>5
<1>2. Good(n)
  BY <1>1
<1> QED
  BY <1>2

\* Digits without a leading zero are the numeral of the number they stand for.
LEMMA NumeralWrites ==
    ASSUME NEW b \in Nat \ {0, 1}, NEW s \in Seq(0 .. b - 1), Len(s) # 0 => s[1] # 0
    PROVE  Numeral(Number(s, b), b) = s
<1> DEFINE Digits == 0 .. b - 1
           Written(r) == /\ Numeral(Number(r, b), b) = r
                         /\ Len(r) # 0 => Number(r, b) # 0
           A == {n \in Nat : \A r \in Seq(Digits) :
                                 Len(r) = n /\ (n # 0 => r[1] # 0) => Written(r)}
<1>0. b \in Nat /\ Digits \subseteq Nat
  OBVIOUS
<1>1. 0 \in A
  <2> SUFFICES ASSUME NEW r \in Seq(Digits), Len(r) = 0 PROVE Written(r)
    OBVIOUS
  <2>1. r = <<>>
    BY EmptySeq
  <2>2. Number(r, b) = 0 /\ Numeral(0, b) = r
    BY <2>1, NumberEmpty, NumeralStep
  <2> QED
    BY <2>2
<1>2. ASSUME NEW n \in Nat, n \in A PROVE n + 1 \in A
  <2> SUFFICES ASSUME NEW r \in Seq(Digits), Len(r) = n + 1, r[1] # 0 PROVE Written(r)
    OBVIOUS
  <2>1. r # <<>>
    OBVIOUS
  <2> HIDE DEF Digits
  <2>2. PICK p \in Seq(Digits), d \in Digits : r = Append(p, d)
    BY <2>1, SequenceEmptyOrAppend
  <2>3. Len(p) = n /\ (n # 0 => p[1] = r[1]) /\ (n = 0 => d = r[1])
    BY <2>2
  <2>4. Written(p)
    BY <1>2, <2>3
  <2>5. p \in Seq(Nat) /\ d \in Nat
    BY <1>0, SeqMonotonic
  <2> DEFINE v == Number(p, b)
  <2>6. v \in Nat /\ Number(r, b) = v * b + d
    BY <1>0, <2>2, <2>5, NumberNat, NumberAppend
  <2>7. n = 0 => v = 0
    <3>1. n = 0 => p = <<>>
      BY <2>3, EmptySeq
    <3> QED
      BY <3>1, NumberEmpty
  <2>8. n # 0 => v # 0
    BY <2>3, <2>4
  <2>9. Numeral(v, b) = p
    BY <2>4
  <2> HIDE DEF v, Written
  <2>10. v * b + d # 0
    <3>1. CASE n = 0
      BY <2>3, <2>5, <2>7, <3>1
    <3>2. CASE n # 0
      <4>1. v >= 1 /\ v * b >= v
        BY <2>6, <2>8, <3>2
      <4> QED
        BY <2>5, <2>6, <4>1
    <3> QED
      BY <3>1, <3>2
  <2>11. (v * b + d) \div b = v /\ (v * b + d) % b = d
    BY <2>6, Quotient DEF Digits
  <2>12. v * b + d \in Nat \ {0}
    BY <1>0, <2>5, <2>6, <2>10, Horner
  <2>13. Numeral(v * b + d, b) = Append(p, d)
    BY <2>9, <2>11, <2>12, NumeralStep
  <2> QED
    BY <2>2, <2>6, <2>10, <2>13 DEF Written
<1>3. Nat \subseteq A
  <2> HIDE DEF A
  <2> QED
    BY <1>1, <1>2, Everywhere
<1>4. Len(s) \in Nat
  OBVIOUS
<1>5. Written(s)
  BY <1>3, <1>4
<1> QED
  BY <1>5

\* There is a first digit that is not zero, or there is none.
LEMMA LeadingZerosIs ==
    ASSUME NEW s \in Seq(Nat)
    PROVE  /\ LeadingZeros(s) \in 0 .. Len(s)
           /\ \A i \in 1 .. LeadingZeros(s) : s[i] = 0
           /\ LeadingZeros(s) < Len(s) => s[LeadingZeros(s) + 1] # 0
<1> DEFINE Is(k) == (\A i \in 1 .. k : s[i] = 0) /\ (k < Len(s) => s[k + 1] # 0)
           T == {i \in 1 .. Len(s) : s[i] # 0}
<1>1. \E k \in 0 .. Len(s) : Is(k)
  <2>1. CASE T = {}
    <3>1. Len(s) \in 0 .. Len(s) /\ Is(Len(s))
      BY <2>1
    <3> QED
      BY <3>1
  <2>2. CASE T # {}
    <3>1. T \subseteq Nat
      OBVIOUS
    <3> HIDE DEF T
    <3>2. PICK x \in T : \A y \in T : x <= y
      BY <2>2, <3>1, Least
    <3>3. x \in 1 .. Len(s) /\ s[x] # 0 /\ \A y \in 1 .. Len(s) : s[y] # 0 => x <= y
      BY <3>2 DEF T
    <3>4. x - 1 \in 0 .. Len(s) /\ (x - 1) + 1 = x
      BY <3>3
    <3>5. \A i \in 1 .. x - 1 : s[i] = 0
      BY <3>3
    <3> QED
      BY <3>3, <3>4, <3>5
  <2> QED
    BY <2>1, <2>2
<1>2. LeadingZeros(s) = CHOOSE k \in 0 .. Len(s) : Is(k)
  BY DEF LeadingZeros
<1> HIDE DEF Is
<1>3. LeadingZeros(s) \in 0 .. Len(s) /\ Is(LeadingZeros(s))
  BY <1>1, <1>2
<1> QED
  BY <1>3 DEF Is

\* What Convert puts in front.
Zeros(k) == [i \in 1 .. k |-> 0]

\* The first element of a sequence, found behind another.
LEMMA Behind ==
    ASSUME NEW y \in Seq(Nat), NEW m \in Seq(Nat)
    PROVE  /\ Len(m) \in Nat /\ Len(y \o m) = Len(y) + Len(m)
           /\ Len(m) # 0 => (y \o m)[Len(y) + 1] = m[1]
           /\ \A i \in 1 .. Len(y) : (y \o m)[i] = y[i]
<1>1. /\ Len(y \o m) = Len(y) + Len(m)
      /\ \A i \in 1 .. Len(y) + Len(m) :
             (y \o m)[i] = IF i <= Len(y) THEN y[i] ELSE m[i - Len(y)]
  BY ConcatProperties
<1>2. Len(y) \in Nat /\ Len(m) \in Nat
  BY LenProperties
<1>3. \A i \in 1 .. Len(y) : (y \o m)[i] = y[i]
  BY <1>1, <1>2
<1>4. Len(m) # 0 => (y \o m)[Len(y) + 1] = m[1]
  <2>1. Len(m) # 0 => Len(y) + 1 \in 1 .. Len(y) + Len(m) /\ ~(Len(y) + 1 <= Len(y))
        /\ (Len(y) + 1) - Len(y) = 1
    BY <1>2
  <2> QED
    BY <1>1, <2>1
<1> QED
  BY <1>1, <1>2, <1>3, <1>4

\* Zeros are numbers.
LEMMA ZerosAre ==
    ASSUME NEW k \in Nat
    PROVE  Zeros(k) \in Seq(Nat) /\ Len(Zeros(k)) = k /\ \A i \in 1 .. k : Zeros(k)[i] = 0
BY DEF Zeros

\* What follows the leading zeros tells how many they were.
LEMMA ZerosApart ==
    ASSUME NEW k, NEW l, NEW m, NEW n,
           k \in Nat, l \in Nat, m \in Seq(Nat), n \in Seq(Nat),
           Len(m) # 0 => m[1] # 0, Zeros(k) \o m = Zeros(l) \o n
    PROVE  k >= l
<1> SUFFICES ASSUME k < l PROVE FALSE
  OBVIOUS
<1>a. /\ Zeros(k) \in Seq(Nat) /\ Len(Zeros(k)) = k
      /\ Zeros(l) \in Seq(Nat) /\ Len(Zeros(l)) = l
  BY ZerosAre
<1>b. /\ Len(m) \in Nat /\ Len(Zeros(k) \o m) = k + Len(m)
      /\ Len(m) # 0 => (Zeros(k) \o m)[k + 1] = m[1]
  <2> DEFINE y == Zeros(k)
  <2>1. y \in Seq(Nat) /\ Len(y) = k
    BY <1>a
  <2> HIDE DEF y
  <2>2. /\ Len(m) \in Nat /\ Len(y \o m) = Len(y) + Len(m)
        /\ Len(m) # 0 => (y \o m)[Len(y) + 1] = m[1]
    BY <2>1, Behind, Zenon
  <2> QED
    BY <2>1, <2>2, Zenon DEF y
<1>c. /\ Len(n) \in Nat /\ Len(Zeros(l) \o n) = l + Len(n)
      /\ \A i \in 1 .. l : (Zeros(l) \o n)[i] = Zeros(l)[i]
  <2> DEFINE y == Zeros(l)
  <2>1. y \in Seq(Nat) /\ Len(y) = l
    BY <1>a
  <2> HIDE DEF y
  <2>2. /\ Len(n) \in Nat /\ Len(y \o n) = Len(y) + Len(n)
        /\ \A i \in 1 .. Len(y) : (y \o n)[i] = y[i]
    BY <2>1, Behind, Zenon
  <2> QED
    BY <2>1, <2>2, Zenon DEF y
<1>1. Len(Zeros(k) \o m) = k + Len(m) /\ Len(Zeros(l) \o n) = l + Len(n)
      /\ Len(m) \in Nat /\ Len(n) \in Nat
  BY <1>b, <1>c
<1>2. k + Len(m) = l + Len(n)
  BY <1>1
<1>3. Len(m) # 0
  BY <1>1, <1>2
<1>4. (Zeros(k) \o m)[k + 1] = m[1]
  BY <1>3, <1>b
<1>5. (Zeros(l) \o n)[k + 1] = 0
  <2>1. k + 1 \in 1 .. l
    OBVIOUS
  <2>2. (Zeros(l) \o n)[k + 1] = Zeros(l)[k + 1]
    BY <2>1, <1>c
  <2> QED
    BY <2>1, <2>2, ZerosAre
<1> QED
  BY <1>3, <1>4, <1>5

\* A sequence is what is left of it behind its first j elements.
LEMMA Split ==
    ASSUME NEW A, NEW r \in Seq(A), NEW j \in 0 .. Len(r)
    PROVE  /\ SubSeq(r, j + 1, Len(r)) \in Seq(A)
           /\ SubSeq(r, 1, j) \o SubSeq(r, j + 1, Len(r)) = r
           /\ SubSeq(r, 1, j) = [i \in 1 .. j |-> r[i]]
           /\ Len(SubSeq(r, j + 1, Len(r))) # 0 =>
                  j < Len(r) /\ SubSeq(r, j + 1, Len(r))[1] = r[j + 1]
<1> DEFINE u == SubSeq(r, j + 1, Len(r))
<1>0. Len(r) \in Nat /\ \A i \in 1 .. Len(r) : r[i] \in A
  BY LenProperties, ElementOfSeq
<1>1. u = [i \in 1 .. Len(r) - j |-> r[i + j]]
  BY <1>0
<1>2. u \in Seq(A) /\ Len(u) = Len(r) - j
  BY <1>0, SubSeqProperties
<1>3. Len(u) # 0 => j < Len(r) /\ u[1] = r[j + 1]
  BY <1>0, <1>1, <1>2
<1>4. SubSeq(r, 1, j) \o u = r
  <2>1. 1 \in 1 .. Len(r) + 1 /\ j \in 1 - 1 .. Len(r) /\ Len(r) \in j .. Len(r)
    BY <1>0
  <2>2. SubSeq(r, 1, j) \o SubSeq(r, j + 1, Len(r)) = SubSeq(r, 1, Len(r))
    BY <2>1, ConcatAdjacentSubSeq
  <2> QED
    BY <2>2, SubSeqFull
<1>5. SubSeq(r, 1, j) = [i \in 1 .. j |-> r[i]]
  BY <1>0
<1> QED
  BY <1>2, <1>3, <1>4, <1>5

\* What stands behind the leading zeros.
Rest(r) == SubSeq(r, LeadingZeros(r) + 1, Len(r))

\* A sequence is its leading zeros and a rest that begins with none.
LEMMA Stripped ==
    ASSUME NEW D, D \subseteq Nat, NEW r \in Seq(D)
    PROVE  /\ LeadingZeros(r) \in Nat
           /\ Rest(r) \in Seq(D) /\ Rest(r) \in Seq(Nat)
           /\ r = Zeros(LeadingZeros(r)) \o Rest(r)
           /\ Len(Rest(r)) # 0 => Rest(r)[1] # 0
<1> DEFINE j == LeadingZeros(r)
           u == Rest(r)
<1>1. r \in Seq(Nat)
  BY SeqMonotonic
<1>2. j \in 0 .. Len(r) /\ (\A i \in 1 .. j : r[i] = 0) /\ (j < Len(r) => r[j + 1] # 0)
  BY <1>1, LeadingZerosIs
<1>3. /\ u \in Seq(D) /\ SubSeq(r, 1, j) \o u = r
      /\ SubSeq(r, 1, j) = [i \in 1 .. j |-> r[i]]
      /\ Len(u) # 0 => j < Len(r) /\ u[1] = r[j + 1]
  BY <1>2, Split, Zenon DEF Rest
<1> HIDE DEF j, u
<1>4. [i \in 1 .. j |-> r[i]] = Zeros(j)
  BY <1>2 DEF Zeros
<1>5. j \in Nat
  BY <1>1, <1>2
<1>6. u \in Seq(Nat)
  BY <1>3, SeqMonotonic
<1> QED
  BY <1>2, <1>3, <1>4, <1>5, <1>6 DEF j, u

\* Conversion, unfolded; the result are digits in the other base.
LEMMA ConvertIs ==
    ASSUME NEW f, NEW g, NEW s, f \in Nat \ {0, 1}, g \in Nat \ {0, 1}, s \in Seq(0 .. f - 1)
    PROVE  LET m == Numeral(Number(Rest(s), f), g)
           IN  /\ Convert(s, f, g) = Zeros(LeadingZeros(s)) \o m
               /\ Convert(s, f, g) \in Seq(0 .. g - 1)
               /\ m \in Seq(Nat) /\ Number(m, g) = Number(Rest(s), f)
               /\ Len(m) # 0 => m[1] # 0
<1> DEFINE x == Number(Rest(s), f)
           m == Numeral(x, g)
           k == LeadingZeros(s)
<1>1. 0 .. f - 1 \subseteq Nat /\ 0 .. g - 1 \subseteq Nat
  OBVIOUS
<1>2. k \in Nat /\ Rest(s) \in Seq(Nat)
  <2> DEFINE D == 0 .. f - 1
  <2>1. D \subseteq Nat /\ s \in Seq(D)
    OBVIOUS
  <2> HIDE DEF D
  <2> QED
    BY <2>1, Stripped, Zenon
<1>3. x \in Nat
  BY <1>2, NumberNat
<1>4. Convert(s, f, g) = Zeros(k) \o m
  BY DEF Convert, Zeros, Rest
<1> HIDE DEF x, k
<1>5. m \in Seq(0 .. g - 1)
  BY <1>3, NumeralStep
<1>6. m \in Seq(Nat)
  BY <1>1, <1>5, SeqMonotonic
<1>7. Number(m, g) = x /\ (Len(m) # 0 => m[1] # 0)
  <2>1. x = 0 => Len(m) = 0
    BY NumeralStep
  <2>2. x # 0 => m[1] # 0
    BY <1>3, NumeralReads
  <2> QED
    BY <1>3, <2>1, <2>2, NumeralReads
<1>8. Zeros(k) \in Seq(0 .. g - 1)
  BY <1>2 DEF Zeros
<1> HIDE DEF m
<1>9. Zeros(k) \o m \in Seq(0 .. g - 1)
  <2> DEFINE D == 0 .. g - 1
  <2>1. Zeros(k) \in Seq(D) /\ m \in Seq(D)
    BY <1>5, <1>8
  <2> HIDE DEF D
  <2>2. Zeros(k) \o m \in Seq(D)
    BY <2>1, ConcatProperties
  <2> QED
    BY <2>2 DEF D
<1> QED
  BY <1>4, <1>6, <1>7, <1>9 DEF m, x, k

\* Digits converted and converted back are the digits.
LEMMA ConvertBack ==
    ASSUME NEW f, NEW g, NEW s, f \in Nat \ {0, 1}, g \in Nat \ {0, 1}, s \in Seq(0 .. f - 1)
    PROVE  Convert(Convert(s, f, g), g, f) = s
<1> DEFINE D == 0 .. f - 1
           E == 0 .. g - 1
           c == Convert(s, f, g)
           k == LeadingZeros(s)
           l == LeadingZeros(c)
           p == Rest(s)
           q == Rest(c)
           m == Numeral(Number(p, f), g)
<1>1. D \subseteq Nat /\ E \subseteq Nat /\ s \in Seq(D)
  OBVIOUS
<1>2. /\ c = Zeros(k) \o m /\ c \in Seq(E)
      /\ m \in Seq(Nat) /\ Number(m, g) = Number(p, f) /\ (Len(m) # 0 => m[1] # 0)
  BY ConvertIs
<1>3. Convert(c, g, f) = Zeros(l) \o Numeral(Number(q, g), f)
  BY <1>2, ConvertIs
<1>h. /\ D = 0 .. f - 1 /\ E = 0 .. g - 1 /\ c = Convert(s, f, g)
      /\ k = LeadingZeros(s) /\ p = Rest(s) /\ l = LeadingZeros(c) /\ q = Rest(c)
  OBVIOUS
<1> HIDE DEF D, E, c, m
<1>4. /\ k \in Nat /\ p \in Seq(D) /\ s = Zeros(k) \o p /\ (Len(p) # 0 => p[1] # 0)
  BY <1>1, Stripped, Zenon
<1>5. l \in Nat /\ q \in Seq(Nat) /\ c = Zeros(l) \o q /\ (Len(q) # 0 => q[1] # 0)
  BY <1>1, <1>2, Stripped, Zenon
<1> HIDE DEF k, l, p, q
<1>6. k = l
  <2>1. k >= l
    BY <1>2, <1>4, <1>5, ZerosApart
  <2>2. l >= k
    BY <1>2, <1>4, <1>5, ZerosApart
  <2> QED
    BY <1>4, <1>5, <2>1, <2>2
<1>7. m = q
  <2>1. Zeros(k) \in Seq(Nat)
    BY <1>4, ZerosAre
  <2> QED
    BY <1>2, <1>5, <1>6, <2>1, ConcatSimplifications
<1>8. Numeral(Number(p, f), f) = p
  BY <1>4, NumeralWrites DEF D
<1>9. Convert(c, g, f) = s
  BY <1>2, <1>3, <1>4, <1>6, <1>7, <1>8
<1> QED
  BY <1>9 DEF c

\* A sequence over a set whose elements have a property, over those that have it.
LEMMA OverThose ==
    ASSUME NEW x, NEW A, NEW D, x \in Seq(A), \A i \in DOMAIN x : x[i] \in D
    PROVE  x \in Seq(D)
<1>1. Len(x) \in Nat /\ DOMAIN x = 1 .. Len(x) /\ x = [i \in 1 .. Len(x) |-> x[i]]
  BY LenProperties
<1>2. x \in [1 .. Len(x) -> D]
  BY <1>1
<1> QED
  BY <1>1, <1>2, SeqDef

\* A text that parses as a key is the prefix and digits that convert to it.
LEMMA ParseDidIs ==
    ASSUME NEW r \in Seq(Nat), ParseDid(r) # NoKey
    PROVE  /\ ParseDid(r) = Convert(Suffix(r), Radix, KeyBase)
           /\ Suffix(r) \in Seq(0 .. Radix - 1)
           /\ r = Prefix \o Suffix(r)
<1> DEFINE x == Suffix(r)
           n == Len(Prefix)
<1>1. /\ ParseDid(r) = Convert(x, Radix, KeyBase)
      /\ HasPrefix(r) /\ \A i \in DOMAIN x : x[i] < Radix
  BY DEF ParseDid
<1>2. n \in Nat /\ n < Len(r) /\ SubSeq(r, 1, n) = Prefix
  BY <1>1, NumeralsAssumption, LenProperties DEF HasPrefix
<1>3. n \in 0 .. Len(r) /\ x = SubSeq(r, n + 1, Len(r))
  BY <1>2, LenProperties DEF Suffix
<1> HIDE DEF x, n
<1>4. x \in Seq(Nat) /\ SubSeq(r, 1, n) \o x = r
  BY <1>3, Split, Zenon
<1>5. \A i \in DOMAIN x : x[i] \in 0 .. Radix - 1
  <2>1. \A i \in DOMAIN x : x[i] \in Nat
    BY <1>4, ElementOfSeq, LenProperties
  <2> QED
    BY <1>1, <2>1, NumeralsAssumption
<1>6. x \in Seq(0 .. Radix - 1)
  BY <1>4, <1>5, OverThose
<1> QED
  BY <1>1, <1>2, <1>4, <1>6 DEF x

\* Whoever reads the text that Did writes for a key has that key.
THEOREM KeysAreReadFromTheirTexts ==
    ASSUME NEW key \in Seq(0 .. KeyBase - 1), IsPoint(key),
           Len(Convert(key, KeyBase, Radix)) <= MaxBase58
    PROVE  ParseDid(WriteDid(key)) = key
<1> DEFINE x == Convert(key, KeyBase, Radix)
           D == 0 .. Radix - 1
<1>1. /\ x \in Seq(D) /\ D \subseteq Nat /\ \A d \in D : d < Radix
      /\ Convert(x, Radix, KeyBase) = key
  <2>1. KeyBase \in Nat \ {0, 1} /\ Radix \in Nat \ {0, 1}
    BY NumeralsAssumption
  <2>2. x \in Seq(D) /\ Convert(x, Radix, KeyBase) = key
    BY <2>1, ConvertIs, ConvertBack
  <2>3. D \subseteq Nat /\ \A d \in D : d < Radix
    BY <2>1
  <2> QED
    BY <2>2, <2>3
<1>2. Len(x) # 0
  <2> DEFINE k == LeadingZeros(key)
             m == Numeral(Number(Rest(key), KeyBase), Radix)
  <2> SUFFICES ASSUME Len(x) = 0 PROVE FALSE
    OBVIOUS
  <2>1. key # <<>>
    BY NumeralsAssumption DEF IsPoint
  <2>2. x = <<>>
    BY <1>1, EmptySeq
  <2>3. Convert(<<>>, Radix, KeyBase) = <<>>
    <3> DEFINE e == <<>>
    <3>1. e \in Seq(Nat) /\ e \in Seq(D) /\ Len(e) = 0 /\ e = <<>>
      BY <1>1
    <3> HIDE DEF e
    <3>2. LeadingZeros(e) = 0
      <4>1. LeadingZeros(e) \in 0 .. Len(e)
        BY <3>1, LeadingZerosIs, Zenon
      <4> QED
        BY <3>1, <4>1
    <3>3. Rest(e) = <<>>
      BY <3>1, <3>2 DEF Rest
    <3>4. Numeral(Number(Rest(e), Radix), KeyBase) = <<>>
      BY <3>3, NumberEmpty, NumeralStep, NumeralsAssumption
    <3>5. Convert(e, Radix, KeyBase) = Zeros(0) \o <<>>
      BY <3>2, <3>4 DEF Convert, Rest, Zeros
    <3>6. Zeros(0) = <<>>
      BY DEF Zeros
    <3> QED
      BY <3>1, <3>5, <3>6
  <2> QED
    BY <1>1, <2>1, <2>2, <2>3
<1> HIDE DEF x
<1> DEFINE w == Prefix \o x
<1>3. x \in Seq(Nat) /\ Prefix \in Seq(Nat)
  BY <1>1, SeqMonotonic, NumeralsAssumption
<1>4. /\ Len(w) = Len(Prefix) + Len(x) /\ Len(x) \in Nat /\ Len(Prefix) \in Nat
      /\ SubSeq(w, 1, Len(Prefix)) = Prefix
      /\ SubSeq(w, Len(Prefix) + 1, Len(w)) = x
  BY <1>3, ConcatProperties, SubSeqOfConcat1, SubSeqOfConcat2, SubSeqFull
<1>5. WriteDid(key) = w
  BY DEF WriteDid, x
<1> HIDE DEF w
<1>6. Suffix(w) = x /\ HasPrefix(w)
  BY <1>2, <1>4 DEF Suffix, HasPrefix
<1>7. \A i \in DOMAIN x : x[i] < Radix
  BY <1>1, ElementOfSeq, LenProperties
<1>8. Len(x) <= MaxBase58
  BY DEF x
<1>9. ParseDid(w) = key
  BY <1>1, <1>6, <1>7, <1>8 DEF ParseDid
<1> QED
  BY <1>5, <1>9

\* Two texts that parse as one key are one text.
LEMMA ParseDidApart ==
    ASSUME NEW a \in Seq(Nat), NEW b \in Seq(Nat),
           ParseDid(a) # NoKey, ParseDid(a) = ParseDid(b)
    PROVE  a = b
<1>1. /\ ParseDid(a) = Convert(Suffix(a), Radix, KeyBase)
      /\ Suffix(a) \in Seq(0 .. Radix - 1) /\ a = Prefix \o Suffix(a)
  BY ParseDidIs
<1>2. /\ ParseDid(b) = Convert(Suffix(b), Radix, KeyBase)
      /\ Suffix(b) \in Seq(0 .. Radix - 1) /\ b = Prefix \o Suffix(b)
  BY ParseDidIs
<1>3. /\ Convert(Convert(Suffix(a), Radix, KeyBase), KeyBase, Radix) = Suffix(a)
      /\ Convert(Convert(Suffix(b), Radix, KeyBase), KeyBase, Radix) = Suffix(b)
  BY <1>1, <1>2, ConvertBack, NumeralsAssumption
<1> QED
  BY <1>1, <1>2, <1>3

\* Two nonces that were signed name an identity by one text: what is signed
\* was validated, and so its did parses.
LEMMA Spelling == IInv => OneSpelling
<1> SUFFICES ASSUME IInv, NEW a \in signed, NEW b \in signed,
                    a[2].kind = "nonce", b[2].kind = "nonce",
                    ParseDid(a[2].did) = ParseDid(b[2].did)
             PROVE  a[2].did = b[2].did
  BY DEF OneSpelling
<1>1. ASSUME NEW x \in signed, x[2].kind = "nonce"
      PROVE  x[2].did \in Seq(Nat) /\ ParseDid(x[2].did) # NoKey
  <2>1. x[2] \in Claimable /\ Signable(x[2])
    BY DEF IInv, TypeOK, Backed
  <2>2. x[2] \in NonceEnvelopes
    BY <1>1, <2>1, ClaimableType, OfItsKind
  <2>3. x[2].did \in Seq(Byte) /\ Byte \subseteq Nat
    BY <2>2, NumbersAssumption DEF NonceEnvelopes, Texts
  <2>4. x[2].did \in Seq(Nat)
    BY <2>3, SeqMonotonic
  <2>5. ParseDid(x[2].did) # NoKey
    BY <1>1, <2>1 DEF Signable, Valid
  <2> QED
    BY <2>4, <2>5
<1> QED
  BY <1>1, ParseDidApart

\* Whatever the bases, the prefix and the curve, an identity has one text.
THEOREM IdentitiesHaveOneSpelling == Spec => []OneSpelling
BY InitInv, StepInv, Spelling, PTL DEF Spec

-----------------------------------------------------------------------------
(* Numbers in a fixed number of digits.                                     *)

\* k digits, read as a number and written in k digits again.
LEMMA BigEndianIs ==
    ASSUME NEW b \in Nat \ {0, 1}, NEW k \in Nat, NEW s \in [1 .. k -> 0 .. b - 1]
    PROVE  BigEndian(Number(s, b), k, b) = s
<1>1. s \in Seq(Nat) /\ Len(s) = k /\ \A i \in 1 .. k : s[i] \in 0 .. b - 1
  <2>1. s \in Seq(0 .. b - 1) /\ Len(s) = k /\ 0 .. b - 1 \subseteq Nat
    OBVIOUS
  <2>2. s \in Seq(Nat)
    BY <2>1, SeqMonotonic
  <2> QED
    BY <2>1, <2>2
<1>2. PICK g : Values(g, s, b, k)
  <2>1. k \in 0 .. Len(s)
    BY <1>1
  <2> QED
    BY <1>1, <2>1, ValuesExist
<1>3. Number(s, b) = g[k]
  BY <1>1, <1>2, NumberIs
<1>4. \A i \in 1 .. k : g[i - 1] \in Nat /\ g[i] \div b = g[i - 1] /\ g[i] % b = s[i]
  <2> TAKE i \in 1 .. k
  <2>1. g[i - 1] \in Nat /\ s[i] \in 0 .. b - 1 /\ g[i] = g[i - 1] * b + s[i]
    BY <1>1, <1>2 DEF Values
  <2>2. /\ (g[i - 1] * b + s[i]) \div b = g[i - 1]
        /\ (g[i - 1] * b + s[i]) % b = s[i]
    BY <2>1, Quotient, Zenon
  <2> QED
    BY <2>1, <2>2, Zenon
<1> DEFINE n == g[k]
           IsHigh(f) == f = [j \in 0 .. k |-> IF j = 0 THEN n ELSE f[j - 1] \div b]
           h == [j \in 0 .. k |-> g[k - j]]
<1>5. IsHigh(h)
  <2>1. \A j \in 0 .. k : h[j] = IF j = 0 THEN n ELSE h[j - 1] \div b
    <3> TAKE j \in 0 .. k
    <3>1. CASE j = 0
      BY <3>1
    <3>2. CASE j # 0
      <4>1. (k - j) + 1 \in 1 .. k /\ ((k - j) + 1) - 1 = k - j
        BY <3>2
      <4>2. g[(k - j) + 1] \div b = g[k - j]
        BY <1>4, <4>1
      <4>3. h[j - 1] = g[(k - j) + 1]
        BY <3>2
      <4> QED
        BY <3>2, <4>2, <4>3
    <3> QED
      BY <3>1, <3>2
  <2>2. h = [j \in 0 .. k |-> h[j]]
    OBVIOUS
  <2> HIDE DEF h, n
  <2> QED
    BY <2>1, <2>2
<1>6. ASSUME NEW f, IsHigh(f) PROVE \A j \in 0 .. k : f[j] = g[k - j]
  <2>1. f[0] = n /\ \A j \in 1 .. k : f[j] = f[j - 1] \div b
    <3> DEFINE e == [j \in 0 .. k |-> IF j = 0 THEN n ELSE f[j - 1] \div b]
    <3>1. e[0] = n /\ \A j \in 1 .. k : e[j] = f[j - 1] \div b
      OBVIOUS
    <3>2. f = e
      BY <1>6, Zenon
    <3> QED
      BY <3>1, <3>2, Zenon
  <2> HIDE DEF IsHigh
  <2> DEFINE A == {j \in Nat : j <= k => f[j] = g[k - j]}
  <2>2. 0 \in A
    BY <2>1
  <2>3. ASSUME NEW j \in Nat, j \in A PROVE j + 1 \in A
    <3> SUFFICES ASSUME j + 1 <= k PROVE f[j + 1] = g[k - (j + 1)]
      OBVIOUS
    <3>1. f[j] = g[k - j]
      BY <2>3
    <3>2. f[j + 1] = f[(j + 1) - 1] \div b /\ (j + 1) - 1 = j
      BY <2>1
    <3>3. k - j \in 1 .. k /\ (k - j) - 1 = k - (j + 1)
      OBVIOUS
    <3> QED
      BY <1>4, <3>1, <3>2, <3>3
  <2> HIDE DEF A
  <2>4. Nat \subseteq A
    BY <2>2, <2>3, Everywhere
  <2> QED
    BY <2>4 DEF A
<1> DEFINE High == CHOOSE f : IsHigh(f)
<1>7. BigEndian(n, k, b) = [i \in 1 .. k |-> High[k - i] % b]
  BY DEF BigEndian
<1>8. IsHigh(High)
  BY <1>5
<1> HIDE DEF High, IsHigh
<1>9. \A i \in 1 .. k : High[k - i] % b = s[i]
  <2> TAKE i \in 1 .. k
  <2>1. k - i \in 0 .. k /\ k - (k - i) = i
    OBVIOUS
  <2>2. High[k - i] = g[i]
    BY <1>6, <1>8, <2>1
  <2> QED
    BY <1>4, <2>2
<1>10. s = [i \in 1 .. k |-> s[i]]
  OBVIOUS
<1> HIDE DEF n
<1>11. [i \in 1 .. k |-> High[k - i] % b] = [i \in 1 .. k |-> s[i]]
  BY <1>9
<1> QED
  BY <1>3, <1>7, <1>10, <1>11 DEF n

\* A number that fits is written in k digits and read as itself.
LEMMA WidthIs ==
    ASSUME NEW b \in Nat \ {0, 1}, NEW k \in Nat, NEW n \in Width(k, b)
    PROVE  /\ BigEndian(n, k, b) \in [1 .. k -> 0 .. b - 1]
           /\ Number(BigEndian(n, k, b), b) = n
<1>1. PICK s \in [1 .. k -> 0 .. b - 1] : n = Number(s, b)
  BY DEF Width
<1>2. BigEndian(n, k, b) = s
  BY <1>1, BigEndianIs
<1> QED
  BY <1>1, <1>2

\* One digit and two.
LEMMA NumberOne ==
    ASSUME NEW b \in Nat, NEW d \in Nat
    PROVE  Number(<<d>>, b) = d
<1>1. <<>> \in Seq(Nat) /\ Append(<<>>, d) = <<d>>
  OBVIOUS
<1>2. Number(<<d>>, b) = Number(<<>>, b) * b + d
  BY <1>1, NumberAppend
<1> QED
  BY <1>2, NumberEmpty

LEMMA NumberTwo ==
    ASSUME NEW b \in Nat, NEW c \in Nat, NEW d \in Nat
    PROVE  Number(<<c, d>>, b) = c * b + d
<1> DEFINE s == <<c>>
<1>1. s \in Seq(Nat)
  OBVIOUS
<1>2. Append(s, d) = <<c, d>>
  <2> DEFINE x == Append(s, d)
             y == <<c, d>>
  <2>1. x \in Seq(Nat) /\ Len(x) = 2 /\ x[1] = c /\ x[2] = d
    BY <1>1, AppendProperties
  <2>2. y \in Seq(Nat) /\ Len(y) = 2 /\ y[1] = c /\ y[2] = d
    OBVIOUS
  <2>3. \A i \in 1 .. 2 : i = 1 \/ i = 2
    OBVIOUS
  <2> HIDE DEF x, y
  <2>4. x = y
    BY <2>1, <2>2, <2>3, SeqEqual
  <2> QED
    BY <2>4 DEF x, y
<1>3. Number(s, b) = c
  BY NumberOne
<1> HIDE DEF s
<1>4. Number(Append(s, d), b) = c * b + d
  BY <1>1, <1>3, NumberAppend
<1> QED
  BY <1>2, <1>4

\* A digit, and a number less than the base squared, have widths 1 and 2.
LEMMA WidthOne ==
    ASSUME NEW b \in Nat \ {0, 1}, NEW n \in 0 .. b - 1
    PROVE  n \in Width(1, b)
<1>1. <<n>> \in [1 .. 1 -> 0 .. b - 1]
  OBVIOUS
<1>2. Number(<<n>>, b) = n
  BY NumberOne
<1> QED
  BY <1>1, <1>2 DEF Width

LEMMA WidthTwo ==
    ASSUME NEW b \in Nat \ {0, 1}, NEW n \in Nat, n < b * b
    PROVE  n \in Width(2, b)
<1> DEFINE c == n \div b
           d == n % b
<1>1. c \in Nat /\ d \in 0 .. b - 1 /\ n = c * b + d
  BY Division
<1> HIDE DEF c, d
<1>2. c < b
  <2> SUFFICES ASSUME c >= b PROVE FALSE
    BY <1>1
  <2>1. c * b >= b * b
    BY <1>1
  <2> QED
    BY <1>1, <2>1
<1>3. <<c, d>> \in [1 .. 2 -> 0 .. b - 1]
  BY <1>1, <1>2
<1>4. Number(<<c, d>>, b) = n
  BY <1>1, NumberTwo
<1> QED
  BY <1>3, <1>4 DEF Width

-----------------------------------------------------------------------------
(* Pieces laid one behind the other, for all sequences.                     *)

\* The model's flattening and joining, kept closed where the provers open them.
Flat(ps) == Seqs!FlattenSeq(ps)

Cat(s, t) == s \o t

\* What is joined is a sequence of the same set; nothing joined changes nothing.
LEMMA CatType ==
    ASSUME NEW A, NEW s \in Seq(A), NEW t \in Seq(A)
    PROVE  Cat(s, t) \in Seq(A)
BY ConcatProperties DEF Cat

LEMMA CatEmpty ==
    ASSUME NEW A, NEW s \in Seq(A)
    PROVE  Cat(s, <<>>) = s /\ Cat(<<>>, s) = s
BY ConcatEmptySeq DEF Cat

\* Joining goes either way.
LEMMA CatAssociative ==
    ASSUME NEW A, NEW s \in Seq(A), NEW t \in Seq(A), NEW u \in Seq(A)
    PROVE  Cat(Cat(s, t), u) = Cat(s, Cat(t, u))
<1>1. (s \o t) \o u = s \o (t \o u)
  BY ConcatAssociative
<1> QED
  BY <1>1, Zenon DEF Cat

\* g holds the first 0 .. n pieces, one behind the other.
Joined(g, ps, n, A) ==
    /\ \A i \in 0 .. n : g[i] \in Seq(A)
    /\ g[0] = <<>>
    /\ \A i \in 1 .. n : g[i] = Cat(g[i - 1], ps[i])

\* There are such prefixes.
LEMMA JoinedExist ==
    ASSUME NEW A, NEW ps \in Seq(Seq(A))
    PROVE  \A n \in 0 .. Len(ps) : \E g : Joined(g, ps, n, A)
<1> DEFINE B == {n \in Nat : n <= Len(ps) => \E g : Joined(g, ps, n, A)}
<1>1. 0 \in B
  <2>1. Joined([i \in 0 .. 0 |-> <<>>], ps, 0, A)
    BY DEF Joined
  <2> QED
    BY <2>1
<1>2. ASSUME NEW n \in Nat, n \in B PROVE n + 1 \in B
  <2> SUFFICES ASSUME n + 1 <= Len(ps) PROVE \E g : Joined(g, ps, n + 1, A)
    OBVIOUS
  <2>1. PICK g : Joined(g, ps, n, A)
    BY <1>2
  <2> DEFINE D == Seq(A)
             v == Cat(g[n], ps[n + 1])
             h == [i \in 0 .. n + 1 |-> IF i = n + 1 THEN v ELSE g[i]]
  <2>2. (\A i \in 0 .. n : g[i] \in D) /\ g[0] = <<>>
        /\ \A i \in 1 .. n : g[i] = Cat(g[i - 1], ps[i])
    BY <2>1 DEF Joined
  <2>3. g[n] \in D /\ ps[n + 1] \in D
    <3>1. n + 1 \in 1 .. Len(ps)
      BY LenProperties
    <3>2. ps[n + 1] \in D
      BY <3>1, ElementOfSeq
    <3> QED
      BY <2>2, <3>2
  <2>4. v \in D
    BY <2>3, CatType
  <2> HIDE DEF v, D
  <2>5. (\A i \in 0 .. n + 1 : h[i] \in D) /\ h[0] = <<>>
    BY <2>2, <2>4
  <2>6. ASSUME NEW i \in 1 .. n + 1 PROVE h[i] = Cat(h[i - 1], ps[i])
    <3>1. CASE i = n + 1
      <4>1. h[i] = v /\ h[i - 1] = g[n]
        BY <3>1
      <4> HIDE DEF h
      <4> QED
        BY <3>1, <4>1 DEF v
    <3>2. CASE i \in 1 .. n
      <4>1. h[i] = g[i] /\ h[i - 1] = g[i - 1]
        BY <3>2
      <4> HIDE DEF h
      <4> QED
        BY <2>2, <3>2, <4>1
    <3> QED
      BY <3>1, <3>2
  <2> HIDE DEF h
  <2>7. Joined(h, ps, n + 1, A)
    BY <2>5, <2>6 DEF Joined, D
  <2> QED
    BY <2>7
<1> HIDE DEF B
<1>3. Nat \subseteq B
  BY <1>1, <1>2, Everywhere
<1> QED
  BY <1>3, LenProperties DEF B

\* What is flattened is the last of them, and a sequence of the pieces' set.
LEMMA FlatIs ==
    ASSUME NEW A, NEW ps \in Seq(Seq(A)), NEW g, Joined(g, ps, Len(ps), A)
    PROVE  Flat(ps) = g[Len(ps)]
<1> DEFINE n == Len(ps)
<1>0. n \in Nat
  BY LenProperties
<1>1. CASE n = 0
  <2>1. ps = <<>>
    BY <1>1, EmptySeq
  <2>2. Flat(ps) = ps
    BY <1>1 DEF Flat, Seqs!FlattenSeq
  <2> QED
    BY <1>1, <2>1, <2>2 DEF Joined
<1>2. CASE n # 0
  <2> DEFINE IsFlat(f) == f = [i \in 1 .. n |-> IF i = 1 THEN ps[i] ELSE Cat(f[i - 1], ps[i])]
  <2>a. /\ (\A i \in 0 .. n : g[i] \in Seq(A)) /\ g[0] = <<>>
        /\ \A i \in 1 .. n : g[i] = Cat(g[i - 1], ps[i])
    BY DEF Joined
  <2>b. n \in Nat /\ n # 0 /\ 1 \in 1 .. n
    BY <1>0, <1>2
  <2>c. g[1] = ps[1]
    <3>1. g[1] = Cat(<<>>, ps[1])
      <4>1. g[1] = Cat(g[1 - 1], ps[1]) /\ 1 - 1 = 0
        BY <2>a, <2>b
      <4> QED
        BY <2>a, <4>1
    <3>2. ps[1] \in Seq(A)
      BY <2>b, ElementOfSeq
    <3> QED
      BY <3>1, <3>2, CatEmpty
  <2>d. Flat(ps) = (CHOOSE f : IsFlat(f))[n]
    BY <1>2, Zenon DEF Flat, Seqs!FlattenSeq, Cat
  <2> HIDE DEF n
  <2>1. ASSUME NEW f, IsFlat(f) PROVE f[n] = g[n]
    <3> DEFINE B == {i \in Nat : i \in 1 .. n => f[i] = g[i]}
    <3>0. \A i \in 1 .. n : f[i] = IF i = 1 THEN ps[i] ELSE Cat(f[i - 1], ps[i])
      <4> DEFINE e == [i \in 1 .. n |-> IF i = 1 THEN ps[i] ELSE Cat(f[i - 1], ps[i])]
      <4>1. \A i \in 1 .. n : e[i] = IF i = 1 THEN ps[i] ELSE Cat(f[i - 1], ps[i])
        OBVIOUS
      <4>2. f = e
        BY <2>1, Zenon
      <4> QED
        BY <4>1, <4>2, Zenon
    <3>1. 0 \in B
      OBVIOUS
    <3>2. ASSUME NEW i \in Nat, i \in B PROVE i + 1 \in B
      <4> SUFFICES ASSUME i + 1 \in 1 .. n PROVE f[i + 1] = g[i + 1]
        OBVIOUS
      <4>0. (i + 1) - 1 = i
        OBVIOUS
      <4>1. CASE i = 0
        <5>1. f[1] = ps[1]
          BY <3>0, <2>b
        <5> QED
          BY <2>c, <4>1, <5>1
      <4>2. CASE i # 0
        <5>1. f[i] = g[i]
          BY <2>b, <3>2, <4>2
        <5>2. f[i + 1] = Cat(f[(i + 1) - 1], ps[i + 1])
          BY <3>0, <4>2
        <5>3. g[i + 1] = Cat(g[(i + 1) - 1], ps[i + 1])
          BY <2>a
        <5> QED
          BY <4>0, <5>1, <5>2, <5>3
      <4> QED
        BY <4>1, <4>2
    <3> HIDE DEF B
    <3>3. Nat \subseteq B
      BY <3>1, <3>2, Everywhere
    <3>4. n \in 1 .. n
      BY <2>b
    <3> QED
      BY <3>3, <3>4 DEF B
  <2>2. \E f : IsFlat(f)
    <3> DEFINE f == [i \in 1 .. n |-> g[i]]
    <3>1. \A i \in 1 .. n : f[i] = IF i = 1 THEN ps[i] ELSE Cat(f[i - 1], ps[i])
      <4> TAKE i \in 1 .. n
      <4>1. CASE i = 1
        BY <2>b, <2>c, <4>1
      <4>2. CASE i # 1
        <5>1. i - 1 \in 1 .. n
          BY <2>b, <4>2
        <5>2. f[i] = g[i] /\ f[i - 1] = g[i - 1]
          BY <5>1
        <5>3. g[i] = Cat(g[i - 1], ps[i])
          BY <2>a, Zenon
        <5> HIDE DEF f
        <5> QED
          BY <4>2, <5>2, <5>3
      <4> QED
        BY <4>1, <4>2
    <3>2. f = [i \in 1 .. n |-> f[i]]
      OBVIOUS
    <3> HIDE DEF f
    <3>3. IsFlat(f)
      BY <3>1, <3>2
    <3> QED
      BY <3>3
  <2> HIDE DEF IsFlat
  <2>3. (CHOOSE f : IsFlat(f))[n] = g[n]
    BY <2>1, <2>2
  <2> QED
    BY <2>d, <2>3 DEF n
<1> QED
  BY <1>1, <1>2

LEMMA FlatType ==
    ASSUME NEW A, NEW ps \in Seq(Seq(A))
    PROVE  Flat(ps) \in Seq(A)
<1>1. Len(ps) \in 0 .. Len(ps)
  BY LenProperties
<1>2. PICK g : Joined(g, ps, Len(ps), A)
  BY <1>1, JoinedExist
<1>3. Flat(ps) = g[Len(ps)]
  BY <1>2, FlatIs
<1> QED
  BY <1>1, <1>2, <1>3 DEF Joined

\* A stretch of a sequence, perhaps an empty one.
LEMMA Stretch ==
    ASSUME NEW A, NEW c \in Seq(A), NEW i \in 1 .. Len(c) + 1, NEW j \in i - 1 .. Len(c)
    PROVE  /\ SubSeq(c, i, j) \in Seq(A)
           /\ Len(SubSeq(c, i, j)) = (j - i) + 1
           /\ \A k \in 1 .. (j - i) + 1 : SubSeq(c, i, j)[k] = c[(i + k) - 1]
<1>1. i \in Int /\ j \in Int /\ Len(c) \in Nat
  BY LenProperties
<1>2. \A k \in i .. j : c[k] \in A
  <2> TAKE k \in i .. j
  <2>1. k \in 1 .. Len(c)
    BY <1>1
  <2> QED
    BY <2>1, ElementOfSeq
<1>3. /\ SubSeq(c, i, j) \in Seq(A)
      /\ Len(SubSeq(c, i, j)) = IF i <= j THEN (j - i) + 1 ELSE 0
      /\ \A k \in 1 .. (j - i) + 1 : SubSeq(c, i, j)[k] = c[(i + k) - 1]
  BY <1>1, <1>2, SubSeqProperties
<1>4. ~(i <= j) => (j - i) + 1 = 0
  BY <1>1
<1> QED
  BY <1>3, <1>4

\* What is joined stays where it is, whatever is joined behind it.
LEMMA StretchOfCat ==
    ASSUME NEW A, NEW s \in Seq(A), NEW t \in Seq(A),
           NEW i \in 1 .. Len(s) + 1, NEW j \in i - 1 .. Len(s)
    PROVE  SubSeq(Cat(s, t), i, j) = SubSeq(s, i, j)
<1>1. /\ Cat(s, t) \in Seq(A) /\ Len(Cat(s, t)) = Len(s) + Len(t)
      /\ \A k \in 1 .. Len(s) + Len(t) : Cat(s, t)[k] = IF k <= Len(s) THEN s[k] ELSE t[k - Len(s)]
      /\ Len(s) \in Nat /\ Len(t) \in Nat
  BY ConcatProperties, LenProperties DEF Cat
<1>2. i \in 1 .. Len(Cat(s, t)) + 1 /\ j \in i - 1 .. Len(Cat(s, t))
  BY <1>1
<1> DEFINE x == SubSeq(Cat(s, t), i, j)
           y == SubSeq(s, i, j)
<1>3. /\ x \in Seq(A) /\ Len(x) = (j - i) + 1
      /\ \A k \in 1 .. (j - i) + 1 : x[k] = Cat(s, t)[(i + k) - 1]
  BY <1>1, <1>2, Stretch
<1>4. /\ y \in Seq(A) /\ Len(y) = (j - i) + 1
      /\ \A k \in 1 .. (j - i) + 1 : y[k] = s[(i + k) - 1]
  BY <1>1, Stretch
<1> HIDE DEF x, y
<1>5. \A k \in 1 .. (j - i) + 1 : x[k] = y[k]
  <2> TAKE k \in 1 .. (j - i) + 1
  <2>1. (i + k) - 1 \in 1 .. Len(s) + Len(t) /\ (i + k) - 1 <= Len(s)
    BY <1>1
  <2> QED
    BY <1>1, <1>3, <1>4, <2>1
<1>6. x = y
  BY <1>3, <1>4, <1>5, SeqEqual
<1> QED
  BY <1>6 DEF x, y

\* What is joined behind is the rest.
LEMMA EndOfCat ==
    ASSUME NEW A, NEW s \in Seq(A), NEW t \in Seq(A)
    PROVE  /\ Len(Cat(s, t)) = Len(s) + Len(t)
           /\ SubSeq(Cat(s, t), Len(s) + 1, Len(s) + Len(t)) = t
<1>1. /\ Cat(s, t) \in Seq(A) /\ Len(Cat(s, t)) = Len(s) + Len(t)
      /\ \A k \in 1 .. Len(s) + Len(t) : Cat(s, t)[k] = IF k <= Len(s) THEN s[k] ELSE t[k - Len(s)]
      /\ Len(s) \in Nat /\ Len(t) \in Nat
  BY ConcatProperties, LenProperties DEF Cat
<1> DEFINE i == Len(s) + 1
           j == Len(s) + Len(t)
           x == SubSeq(Cat(s, t), i, j)
<1>2. i \in 1 .. Len(Cat(s, t)) + 1 /\ j \in i - 1 .. Len(Cat(s, t)) /\ (j - i) + 1 = Len(t)
  BY <1>1
<1>3. /\ x \in Seq(A) /\ Len(x) = (j - i) + 1
      /\ \A k \in 1 .. (j - i) + 1 : x[k] = Cat(s, t)[(i + k) - 1]
  <2> HIDE DEF i, j
  <2> QED
    BY <1>1, <1>2, Stretch
<1> HIDE DEF x
<1>5. \A k \in 1 .. Len(t) : x[k] = t[k]
  <2> TAKE k \in 1 .. Len(t)
  <2>1. /\ (i + k) - 1 \in 1 .. Len(s) + Len(t) /\ ~((i + k) - 1 <= Len(s))
        /\ ((i + k) - 1) - Len(s) = k
    BY <1>1
  <2>2. x[k] = Cat(s, t)[(i + k) - 1]
    BY <1>2, <1>3
  <2>3. Cat(s, t)[(i + k) - 1] = t[((i + k) - 1) - Len(s)]
    BY <1>1, <2>1
  <2> QED
    BY <2>1, <2>2, <2>3
<1>6. x = t
  BY <1>2, <1>3, <1>5, SeqEqual
<1> QED
  BY <1>1, <1>6 DEF x

\* Every piece lies behind those before it.
LEMMA PieceFound ==
    ASSUME NEW A, NEW ps \in Seq(Seq(A)), NEW g, Joined(g, ps, Len(ps), A)
    PROVE  \A k \in 1 .. Len(ps) :
               /\ Len(g[k]) = Len(g[k - 1]) + Len(ps[k])
               /\ Len(g[k]) <= Len(g[Len(ps)])
               /\ SubSeq(g[Len(ps)], Len(g[k - 1]) + 1, Len(g[k])) = ps[k]
<1> SUFFICES ASSUME NEW k \in 1 .. Len(ps)
             PROVE  /\ Len(g[k]) = Len(g[k - 1]) + Len(ps[k])
                    /\ Len(g[k]) <= Len(g[Len(ps)])
                    /\ SubSeq(g[Len(ps)], Len(g[k - 1]) + 1, Len(g[k])) = ps[k]
  OBVIOUS
<1> DEFINE n == Len(ps)
<1>1. /\ n \in Nat /\ \A i \in 0 .. n : g[i] \in Seq(A) /\ Len(g[i]) \in Nat
      /\ \A i \in 1 .. n : g[i] = Cat(g[i - 1], ps[i]) /\ ps[i] \in Seq(A) /\ Len(ps[i]) \in Nat
  BY LenProperties, ElementOfSeq DEF Joined
<1>2. k \in 1 .. n
  OBVIOUS
<1> HIDE DEF n
<1> DEFINE i == Len(g[k - 1]) + 1
           j == Len(g[k])
           Found(m) == j <= Len(g[m]) /\ SubSeq(g[m], i, j) = ps[k]
           B == {d \in Nat : k + d <= n => Found(k + d)}
<1>3. j = Len(g[k - 1]) + Len(ps[k]) /\ SubSeq(g[k], i, j) = ps[k]
  <2>1. k - 1 \in 0 .. n
    BY <1>1, <1>2
  <2>2. g[k - 1] \in Seq(A) /\ ps[k] \in Seq(A) /\ g[k] = Cat(g[k - 1], ps[k])
    BY <1>1, <1>2, <2>1
  <2> DEFINE s == g[k - 1]
             t == ps[k]
  <2>3. Len(Cat(s, t)) = Len(s) + Len(t) /\ SubSeq(Cat(s, t), Len(s) + 1, Len(s) + Len(t)) = t
    <3>1. s \in Seq(A) /\ t \in Seq(A)
      BY <2>2
    <3> HIDE DEF s, t
    <3> QED
      BY <3>1, EndOfCat
  <2> QED
    BY <2>2, <2>3, Zenon
<1>4. i \in Nat /\ j \in Nat /\ i >= 1 /\ i - 1 <= j
  <2>1. k - 1 \in 0 .. n /\ k \in 0 .. n
    BY <1>1, <1>2
  <2>2. Len(g[k - 1]) \in Nat /\ Len(g[k]) \in Nat /\ Len(ps[k]) \in Nat
    BY <1>1, <1>2, <2>1
  <2> DEFINE x == Len(g[k - 1])
             y == Len(ps[k])
             z == Len(g[k])
  <2>3. x \in Nat /\ y \in Nat /\ z = x + y
    BY <1>3, <2>2
  <2> HIDE DEF x, y, z
  <2>4. x + 1 \in Nat /\ z \in Nat /\ x + 1 >= 1 /\ (x + 1) - 1 <= z
    BY <2>3
  <2> QED
    BY <2>4 DEF x, z
<1> HIDE DEF i, j
<1>5. 0 \in B
  <2>1. j = Len(g[k])
    BY DEF j
  <2>2. j <= Len(g[k])
    BY <1>4, <2>1
  <2>3. k + 0 = k
    BY <1>1, <1>2
  <2>4. Found(k + 0)
    BY <1>3, <2>2, <2>3
  <2> HIDE DEF Found
  <2> QED
    BY <2>4
<1>6. ASSUME NEW d \in Nat, d \in B PROVE d + 1 \in B
  <2> SUFFICES ASSUME k + (d + 1) <= n PROVE Found(k + (d + 1))
    OBVIOUS
  <2> DEFINE m == k + d
  <2>1. m \in 0 .. n /\ m + 1 \in 1 .. n /\ (m + 1) - 1 = m /\ k + (d + 1) = m + 1
    BY <1>1, <1>2
  <2>2. Found(m)
    BY <1>1, <1>2, <1>6
  <2> HIDE DEF m
  <2>3. /\ g[m] \in Seq(A) /\ Len(g[m]) \in Nat /\ ps[m + 1] \in Seq(A) /\ Len(ps[m + 1]) \in Nat
        /\ g[m + 1] = Cat(g[m], ps[m + 1])
    BY <1>1, <2>1
  <2>4. i \in 1 .. Len(g[m]) + 1 /\ j \in i - 1 .. Len(g[m])
    BY <1>4, <2>2, <2>3
  <2> DEFINE s == g[m]
             t == ps[m + 1]
  <2>5. SubSeq(Cat(s, t), i, j) = SubSeq(s, i, j) /\ Len(Cat(s, t)) = Len(s) + Len(t)
    <3>1. s \in Seq(A) /\ t \in Seq(A) /\ i \in 1 .. Len(s) + 1 /\ j \in i - 1 .. Len(s)
      BY <2>3, <2>4
    <3> HIDE DEF s, t
    <3> QED
      BY <3>1, StretchOfCat, EndOfCat
  <2>6. SubSeq(g[m + 1], i, j) = SubSeq(g[m], i, j) /\ Len(g[m + 1]) = Len(g[m]) + Len(ps[m + 1])
    BY <2>3, <2>5, Zenon
  <2>7. j <= Len(g[m + 1])
    <3>1. j <= Len(g[m])
      BY <2>2
    <3>2. Len(g[m + 1]) = Len(g[m]) + Len(ps[m + 1]) /\ Len(g[m]) \in Nat /\ Len(ps[m + 1]) \in Nat
      BY <2>3, <2>6
    <3> DEFINE x == Len(g[m])
               y == Len(ps[m + 1])
               z == Len(g[m + 1])
    <3>3. j \in Nat /\ j <= x /\ x \in Nat /\ y \in Nat /\ z = x + y
      BY <1>4, <3>1, <3>2
    <3> HIDE DEF x, y, z
    <3>4. j <= z
      BY <3>3
    <3> QED
      BY <3>4 DEF z
  <2>8. Found(m + 1)
    BY <2>2, <2>6, <2>7, Zenon
  <2> HIDE DEF Found
  <2> QED
    BY <2>1, <2>8
<1> HIDE DEF B
<1>7. Nat \subseteq B
  BY <1>5, <1>6, Everywhere
<1>8. Found(n)
  <2> DEFINE d == n - k
  <2>1. d \in Nat /\ k + d = n /\ k + d <= n
    BY <1>1, <1>2
  <2> HIDE DEF Found, d
  <2>2. d \in B
    BY <1>7, <2>1
  <2>3. Found(k + d)
    BY <2>1, <2>2 DEF B
  <2> QED
    BY <2>1, <2>3, Zenon
<1> QED
  BY <1>3, <1>8 DEF n, i, j

-----------------------------------------------------------------------------
(* The wire: which bytes a part may be, and where the scan finds it.        *)

\* The kinds of part that a grant has on the wire.
PartNames == {"domain", "version", "text", "key", "hub", "count", "roster", "time"}

\* A text is behind its two bytes of length.
Free(p) == \A k \in 3 .. Len(p) : p[k] # NotText

\* Bytes that read_array, read_u8, read_str or expect takes as this part.
Fits(part, p) ==
    /\ part # "text" => Len(p) = Widths[part]
    /\ part = "text" => /\ Len(p) >= 2 /\ Len(p) = 2 + Number(SubSeq(p, 1, 2), Base)
                        /\ Free(p)
    /\ part = "domain" => p[1] = DomainByte
    /\ part = "version" => p[1] = Version

\* The width of each kind that has one.
LEMMA WidthsAre ==
    /\ Widths["domain"] = 1 /\ Widths["version"] = 1 /\ Widths["count"] = 1
    /\ Widths["key"] = OwnerKeyLen /\ Widths["hub"] = HubLen
    /\ Widths["roster"] = RosterLen /\ Widths["time"] = TimeLen
    /\ \A part \in PartNames : part # "text" => Widths[part] \in Nat
<1>1. /\ Widths["domain"] = 1 /\ Widths["version"] = 1 /\ Widths["count"] = 1
      /\ Widths["key"] = OwnerKeyLen /\ Widths["hub"] = HubLen
      /\ Widths["roster"] = RosterLen /\ Widths["time"] = TimeLen
  BY DEF Widths
<1>2. OwnerKeyLen \in Nat /\ HubLen \in Nat /\ RosterLen \in Nat /\ TimeLen \in Nat
  BY ConstantsAssumption
<1> QED
  BY <1>1, <1>2 DEF PartNames

\* Bytes are numbers, and there are two of them at least.
LEMMA BytesAre == Base \in Nat \ {0, 1} /\ Bytes \subseteq Nat /\ Bytes \subseteq Int
BY ConstantsAssumption DEF Bytes

\* The stretch behind a position, seen from the position.
LEMMA PartOf ==
    ASSUME NEW c \in Seq(Bytes), NEW i \in 1 .. Len(c) + 1, NEW j \in i .. Len(c) + 1
    PROVE  /\ SubSeq(c, i, j - 1) \in Seq(Bytes)
           /\ Len(SubSeq(c, i, j - 1)) = j - i
           /\ \A k \in 1 .. j - i : SubSeq(c, i, j - 1)[k] = c[(i + k) - 1]
           /\ j >= i + 2 => /\ SubSeq(SubSeq(c, i, j - 1), 1, 2) = SubSeq(c, i, i + 1)
                            /\ SubSeq(c, i, i + 1) \in Seq(Nat)
                            /\ NotText \notin Seqs!ToSet(SubSeq(c, i + 2, j - 1))
                                 <=> Free(SubSeq(c, i, j - 1))
<1> DEFINE p == SubSeq(c, i, j - 1)
<1>0. Len(c) \in Nat /\ i \in Nat /\ j \in Nat /\ i >= 1 /\ i <= j /\ j <= Len(c) + 1
  BY LenProperties
<1>1. j - 1 \in i - 1 .. Len(c) /\ ((j - 1) - i) + 1 = j - i
  BY <1>0
<1>2. p \in Seq(Bytes) /\ Len(p) = j - i /\ \A k \in 1 .. j - i : p[k] = c[(i + k) - 1]
  BY <1>1, Stretch
<1> HIDE DEF p
<1>3. ASSUME j >= i + 2
      PROVE  /\ SubSeq(p, 1, 2) = SubSeq(c, i, i + 1)
             /\ SubSeq(c, i, i + 1) \in Seq(Nat)
             /\ NotText \notin Seqs!ToSet(SubSeq(c, i + 2, j - 1))
                  <=> Free(p)
  <2> DEFINE x == SubSeq(p, 1, 2)
             y == SubSeq(c, i, i + 1)
             z == SubSeq(c, i + 2, j - 1)
  <2>1. 1 \in 1 .. Len(p) + 1 /\ 2 \in 1 - 1 .. Len(p) /\ (2 - 1) + 1 = 2
    BY <1>0, <1>2, <1>3
  <2>2. x \in Seq(Bytes) /\ Len(x) = 2 /\ \A k \in 1 .. 2 : x[k] = p[(1 + k) - 1]
    BY <1>2, <2>1, Stretch
  <2>3. i + 1 \in i - 1 .. Len(c) /\ ((i + 1) - i) + 1 = 2
    BY <1>0, <1>3
  <2>4. y \in Seq(Bytes) /\ Len(y) = 2 /\ \A k \in 1 .. 2 : y[k] = c[(i + k) - 1]
    BY <2>3, Stretch
  <2>5. i + 2 \in 1 .. Len(c) + 1 /\ j - 1 \in (i + 2) - 1 .. Len(c)
        /\ ((j - 1) - (i + 2)) + 1 = (j - i) - 2
    BY <1>0, <1>3
  <2>6. z \in Seq(Bytes) /\ Len(z) = (j - i) - 2
        /\ \A k \in 1 .. (j - i) - 2 : z[k] = c[((i + 2) + k) - 1]
    BY <2>5, Stretch
  <2> HIDE DEF x, y, z
  <2>7. x = y
    <3>1. \A k \in 1 .. 2 : x[k] = y[k]
      <4> TAKE k \in 1 .. 2
      <4>1. (1 + k) - 1 = k /\ k \in 1 .. j - i
        BY <1>0, <1>3
      <4> QED
        BY <1>2, <2>2, <2>4, <4>1
    <3> QED
      BY <2>2, <2>4, <3>1, SeqEqual
  <2>8. y \in Seq(Nat)
    BY <2>4, BytesAre, SeqMonotonic
  <2>9. \A k \in 1 .. (j - i) - 2 : z[k] = p[k + 2]
    <3> TAKE k \in 1 .. (j - i) - 2
    <3>1. k + 2 \in 1 .. j - i /\ ((i + 2) + k) - 1 = (i + (k + 2)) - 1
      BY <1>0, <1>3
    <3> QED
      BY <1>2, <2>6, <3>1
  <2>10. NotText \in Seqs!ToSet(z) <=> \E k \in 1 .. (j - i) - 2 : z[k] = NotText
    <3>1. DOMAIN z = 1 .. (j - i) - 2
      BY <2>6, LenProperties
    <3> QED
      BY <3>1 DEF Seqs!ToSet
  <2>11. (\E k \in 1 .. (j - i) - 2 : z[k] = NotText) <=> \E k \in 3 .. j - i : p[k] = NotText
    <3>1. ASSUME NEW k \in 1 .. (j - i) - 2, z[k] = NotText PROVE \E l \in 3 .. j - i : p[l] = NotText
      <4>1. k + 2 \in 3 .. j - i /\ p[k + 2] = NotText
        BY <1>0, <2>9, <3>1
      <4> QED
        BY <4>1
    <3>2. ASSUME NEW l \in 3 .. j - i, p[l] = NotText PROVE \E k \in 1 .. (j - i) - 2 : z[k] = NotText
      <4>1. l - 2 \in 1 .. (j - i) - 2 /\ (l - 2) + 2 = l
        BY <1>0
      <4>2. z[l - 2] = NotText
        BY <2>9, <3>2, <4>1
      <4> QED
        BY <4>1, <4>2
    <3> QED
      BY <3>1, <3>2
  <2>12. Free(p) <=> ~\E k \in 3 .. j - i : p[k] = NotText
    BY <1>2 DEF Free
  <2> QED
    BY <2>7, <2>8, <2>10, <2>11, <2>12 DEF x, y, z
<1> QED
  BY <1>2, <1>3 DEF p

\* Where a part ends, and what lies up to there.
LEMMA EndOfFits ==
    ASSUME NEW c \in Seq(Bytes), NEW part \in PartNames, NEW i \in 1 .. Len(c) + 1,
           EndOf(c, part, i) # Broken
    PROVE  /\ EndOf(c, part, i) \in i .. Len(c) + 1
           /\ Fits(part, SubSeq(c, i, EndOf(c, part, i) - 1))
<1> DEFINE e == IF part # "text" THEN i + Widths[part]
                ELSE IF i < Len(c) THEN i + 2 + Number(SubSeq(c, i, i + 1), Base)
                ELSE Len(c) + 2
           p == SubSeq(c, i, e - 1)
<1>1. /\ EndOf(c, part, i) = e /\ e <= Len(c) + 1
      /\ part = "text" => NotText \notin Seqs!ToSet(SubSeq(c, i + 2, e - 1))
      /\ part = "domain" => c[i] = DomainByte
      /\ part = "version" => c[i] = Version
  BY DEF EndOf
<1>2. Len(c) \in Nat /\ i \in Nat /\ i >= 1
  BY LenProperties
<1>3. CASE part # "text"
  <2>1. e = i + Widths[part] /\ Widths[part] \in Nat
    BY <1>3, WidthsAre
  <2> HIDE DEF e
  <2>2. e \in i .. Len(c) + 1 /\ e - i = Widths[part]
    BY <1>1, <1>2, <2>1
  <2>3. Len(p) = Widths[part] /\ \A k \in 1 .. e - i : p[k] = c[(i + k) - 1]
    BY <2>2, PartOf
  <2> HIDE DEF p
  <2>4. Widths[part] = 1 => p[1] = c[i]
    <3> SUFFICES ASSUME Widths[part] = 1 PROVE p[1] = c[i]
      OBVIOUS
    <3>1. 1 \in 1 .. e - i /\ (i + 1) - 1 = i
      BY <1>2, <2>2
    <3> QED
      BY <2>3, <3>1
  <2>5. Fits(part, p)
    BY <1>1, <1>3, <2>3, <2>4, WidthsAre DEF Fits
  <2> QED
    BY <1>1, <2>2, <2>5 DEF p
<1>4. CASE part = "text"
  <2> DEFINE n == Number(SubSeq(c, i, i + 1), Base)
  <2>1. i < Len(c) /\ e = i + 2 + n
    BY <1>1, <1>2, <1>4
  <2>2. n \in Nat
    <3>1. i + 2 \in i .. Len(c) + 1 /\ i + 2 >= i + 2
      BY <1>2, <2>1
    <3>2. SubSeq(c, i, i + 1) \in Seq(Nat)
      BY <3>1, PartOf
    <3> QED
      BY <3>2, BytesAre, NumberNat
  <2> HIDE DEF e, n
  <2>3. e \in i .. Len(c) + 1 /\ e >= i + 2 /\ e - i = 2 + n
    BY <1>1, <1>2, <2>1, <2>2
  <2>4. /\ Len(p) = e - i /\ SubSeq(p, 1, 2) = SubSeq(c, i, i + 1)
        /\ NotText \notin Seqs!ToSet(SubSeq(c, i + 2, e - 1)) <=> Free(p)
    BY <2>3, PartOf
  <2> HIDE DEF p
  <2>5. n = Number(SubSeq(p, 1, 2), Base)
    BY <2>4, Zenon DEF n
  <2>6. Fits(part, p)
    BY <1>1, <1>4, <2>2, <2>3, <2>4, <2>5 DEF Fits
  <2> QED
    BY <1>1, <2>3, <2>6 DEF p
<1> QED
  BY <1>3, <1>4

\* Where a part lies, EndOf finds its end.
LEMMA EndOfFinds ==
    ASSUME NEW c \in Seq(Bytes), NEW part \in PartNames, NEW i \in 1 .. Len(c) + 1,
           NEW j \in i .. Len(c) + 1, Fits(part, SubSeq(c, i, j - 1))
    PROVE  EndOf(c, part, i) = j
<1> DEFINE e == IF part # "text" THEN i + Widths[part]
                ELSE IF i < Len(c) THEN i + 2 + Number(SubSeq(c, i, i + 1), Base)
                ELSE Len(c) + 2
           p == SubSeq(c, i, j - 1)
<1>1. Len(c) \in Nat /\ i \in Nat /\ i >= 1 /\ j \in Nat /\ i <= j /\ j <= Len(c) + 1 /\ i # Broken
  BY LenProperties DEF Broken
<1>2. Len(p) = j - i /\ \A k \in 1 .. j - i : p[k] = c[(i + k) - 1]
  BY PartOf
<1>3. /\ e = j
      /\ part = "text" => NotText \notin Seqs!ToSet(SubSeq(c, i + 2, j - 1))
      /\ part = "domain" => c[i] = DomainByte
      /\ part = "version" => c[i] = Version
  <2>1. CASE part # "text"
    <3> HIDE DEF p
    <3>1. Len(p) = Widths[part] /\ Widths[part] \in Nat
      BY <2>1, WidthsAre DEF Fits, p
    <3>e. e = i + Widths[part]
      BY <2>1
    <3> HIDE DEF e
    <3>2. e = j /\ j - i = Widths[part]
      <4> DEFINE n == Widths[part]
      <4>1. j - i = n /\ n \in Nat /\ e = i + n
        BY <1>2, <3>1, <3>e
      <4> HIDE DEF n
      <4>2. e = j
        BY <1>1, <4>1
      <4> QED
        BY <4>1, <4>2 DEF n
    <3>3. Widths[part] = 1 => p[1] = c[i]
      <4> SUFFICES ASSUME Widths[part] = 1 PROVE p[1] = c[i]
        OBVIOUS
      <4>1. 1 \in 1 .. j - i /\ (i + 1) - 1 = i
        BY <1>1, <3>2
      <4> QED
        BY <1>2, <4>1
    <3>4. (part = "domain" => p[1] = DomainByte) /\ (part = "version" => p[1] = Version)
      BY DEF Fits, p
    <3> QED
      BY <2>1, <3>2, <3>3, <3>4, WidthsAre
  <2>2. CASE part = "text"
    <3>1. /\ Len(p) >= 2 /\ Len(p) = 2 + Number(SubSeq(p, 1, 2), Base)
          /\ Free(p)
      BY <2>2 DEF Fits
    <3>2. j >= i + 2
      BY <1>1, <1>2, <3>1
    <3>3. /\ SubSeq(p, 1, 2) = SubSeq(c, i, i + 1) /\ SubSeq(c, i, i + 1) \in Seq(Nat)
          /\ NotText \notin Seqs!ToSet(SubSeq(c, i + 2, j - 1)) <=> Free(p)
      BY <3>2, PartOf
    <3> DEFINE n == Number(SubSeq(c, i, i + 1), Base)
    <3> HIDE DEF p
    <3>4. Len(p) = 2 + n
      BY <3>1, <3>3, Zenon
    <3>5. n \in Nat
      BY <3>3, BytesAre, NumberNat
    <3>6. e = IF i < Len(c) THEN i + 2 + n ELSE Len(c) + 2
      BY <2>2
    <3> HIDE DEF e, n
    <3>7. e = j
      BY <1>1, <1>2, <3>2, <3>4, <3>5, <3>6
    <3> QED
      BY <1>2, <2>2, <3>1, <3>3, <3>7
  <2> QED
    BY <2>1, <2>2
<1>4. EndOf(c, part, i) = IF /\ i # Broken /\ e <= Len(c) + 1
                             /\ part = "text" => NotText \notin Seqs!ToSet(SubSeq(c, i + 2, e - 1))
                             /\ part = "domain" => c[i] = DomainByte
                             /\ part = "version" => c[i] = Version
                          THEN e ELSE Broken
  BY DEF EndOf
<1> HIDE DEF e, p
<1> QED
  BY <1>1, <1>3, <1>4

\* f holds the starts of the first n parts and the end of the last of them.
Scanned(f, c, parts, n) ==
    f[1] = 1 /\ \A k \in 1 .. n : f[k + 1] = EndOf(c, parts[k], f[k])

\* There are such positions, and Scan gives them.
LEMMA ScanExists ==
    ASSUME NEW c, NEW parts, NEW n \in Nat
    PROVE  \E f : Scanned(f, c, parts, n)
<1> DEFINE B == {m \in Nat : \E f : Scanned(f, c, parts, m)}
<1>1. 0 \in B
  <2>1. Scanned([k \in 1 .. 1 |-> 1], c, parts, 0)
    BY DEF Scanned
  <2> QED
    BY <2>1
<1>2. ASSUME NEW m \in Nat, m \in B PROVE m + 1 \in B
  <2>1. PICK g : Scanned(g, c, parts, m)
    BY <1>2
  <2> DEFINE v == EndOf(c, parts[m + 1], g[m + 1])
             h == [k \in 1 .. m + 2 |-> IF k = m + 2 THEN v ELSE g[k]]
  <2>2. h[m + 2] = v /\ \A k \in 1 .. m + 1 : h[k] = g[k]
    OBVIOUS
  <2> HIDE DEF h
  <2>3. h[1] = 1
    BY <2>1, <2>2 DEF Scanned
  <2>4. ASSUME NEW k \in 1 .. m + 1 PROVE h[k + 1] = EndOf(c, parts[k], h[k])
    <3>1. CASE k = m + 1
      <4>1. h[k + 1] = v /\ h[k] = g[m + 1]
        <5>1. k + 1 = m + 2 /\ m + 1 \in 1 .. m + 1
          BY <3>1
        <5> QED
          BY <2>2, <3>1, <5>1, Zenon
      <4> QED
        BY <3>1, <4>1, Zenon
    <3>2. CASE k # m + 1
      <4>1. k \in 1 .. m /\ k + 1 \in 1 .. m + 1
        BY <3>2
      <4>2. h[k + 1] = g[k + 1] /\ h[k] = g[k]
        BY <2>2, <4>1
      <4>3. g[k + 1] = EndOf(c, parts[k], g[k])
        BY <2>1, <4>1 DEF Scanned
      <4> QED
        BY <4>2, <4>3, Zenon
    <3> QED
      BY <3>1, <3>2
  <2>5. Scanned(h, c, parts, m + 1)
    BY <2>3, <2>4 DEF Scanned
  <2> QED
    BY <2>5
<1> HIDE DEF B
<1>3. Nat \subseteq B
  BY <1>1, <1>2, Everywhere
<1> QED
  BY <1>3 DEF B

LEMMA ScanIs ==
    ASSUME NEW c, NEW parts, Len(parts) \in Nat
    PROVE  Scanned(Scan(c, parts), c, parts, Len(parts))
<1> DEFINE n == Len(parts)
           IsScan(f) == f = [k \in 1 .. n + 1 |-> IF k = 1 THEN 1 ELSE EndOf(c, parts[k - 1], f[k - 1])]
<1>1. PICK g : Scanned(g, c, parts, n)
  BY ScanExists
<1>2. \E f : IsScan(f)
  <2> DEFINE f == [k \in 1 .. n + 1 |-> g[k]]
  <2>1. \A k \in 1 .. n + 1 : f[k] = IF k = 1 THEN 1 ELSE EndOf(c, parts[k - 1], f[k - 1])
    <3> TAKE k \in 1 .. n + 1
    <3>1. CASE k = 1
      BY <1>1, <3>1 DEF Scanned
    <3>2. CASE k # 1
      <4>1. k - 1 \in 1 .. n /\ k - 1 \in 1 .. n + 1 /\ (k - 1) + 1 = k
        BY <3>2
      <4>2. f[k] = g[k] /\ f[k - 1] = g[k - 1]
        BY <4>1
      <4>3. g[(k - 1) + 1] = EndOf(c, parts[k - 1], g[k - 1])
        BY <1>1, <4>1 DEF Scanned
      <4> HIDE DEF f
      <4> QED
        BY <3>2, <4>1, <4>2, <4>3, Zenon
    <3> QED
      BY <3>1, <3>2
  <2>2. f = [k \in 1 .. n + 1 |-> f[k]]
    OBVIOUS
  <2> HIDE DEF f
  <2>3. IsScan(f)
    BY <2>1, <2>2
  <2> QED
    BY <2>3
<1> DEFINE at == CHOOSE f : IsScan(f)
<1>3. Scan(c, parts) = at
  BY DEF Scan
<1>4. IsScan(at)
  <2> HIDE DEF IsScan
  <2> QED
    BY <1>2
<1> HIDE DEF at
<1>5. \A k \in 1 .. n + 1 : at[k] = IF k = 1 THEN 1 ELSE EndOf(c, parts[k - 1], at[k - 1])
  <2> DEFINE e == [k \in 1 .. n + 1 |-> IF k = 1 THEN 1 ELSE EndOf(c, parts[k - 1], at[k - 1])]
  <2>1. \A k \in 1 .. n + 1 : e[k] = IF k = 1 THEN 1 ELSE EndOf(c, parts[k - 1], at[k - 1])
    OBVIOUS
  <2>2. at = e
    BY <1>4, Zenon
  <2> QED
    BY <2>1, <2>2, Zenon
<1>6. at[1] = 1
  BY <1>5
<1>7. ASSUME NEW k \in 1 .. n PROVE at[k + 1] = EndOf(c, parts[k], at[k])
  <2>1. k + 1 \in 1 .. n + 1 /\ k + 1 # 1 /\ (k + 1) - 1 = k
    OBVIOUS
  <2>2. at[k + 1] = EndOf(c, parts[(k + 1) - 1], at[(k + 1) - 1])
    BY <1>5, <2>1, Zenon
  <2> QED
    BY <2>1, <2>2, Zenon
<1> QED
  BY <1>3, <1>6, <1>7, Zenon DEF Scanned

\* Where the scan reaches the end, every part is there.
LEMMA ScanFits ==
    ASSUME NEW c \in Seq(Bytes), NEW parts \in Seq(PartNames), End(c, parts) # Broken
    PROVE  /\ \A k \in 1 .. Len(parts) + 1 : Scan(c, parts)[k] \in 1 .. Len(c) + 1
           /\ \A k \in 1 .. Len(parts) :
                  /\ Scan(c, parts)[k + 1] \in Scan(c, parts)[k] .. Len(c) + 1
                  /\ Fits(parts[k], SubSeq(c, Scan(c, parts)[k], Scan(c, parts)[k + 1] - 1))
<1> DEFINE n == Len(parts)
           at == Scan(c, parts)
<1>1. n \in Nat /\ Len(c) \in Nat /\ \A k \in 1 .. n : parts[k] \in PartNames
  BY LenProperties, ElementOfSeq
<1>2. at[1] = 1 /\ \A k \in 1 .. n : at[k + 1] = EndOf(c, parts[k], at[k])
  BY <1>1, ScanIs DEF Scanned
<1>3. at[n + 1] # Broken
  BY DEF End
<1> HIDE DEF n, at
<1>4. \A k \in 1 .. n + 1 : at[k] # Broken
  <2> SUFFICES ASSUME NEW k \in 1 .. n + 1, at[k] = Broken PROVE FALSE
    OBVIOUS
  <2> DEFINE B == {d \in Nat : k + d <= n + 1 => at[k + d] = Broken}
  <2>1. 0 \in B
    BY <1>1
  <2>2. ASSUME NEW d \in Nat, d \in B PROVE d + 1 \in B
    <3> SUFFICES ASSUME k + (d + 1) <= n + 1 PROVE at[k + (d + 1)] = Broken
      OBVIOUS
    <3> DEFINE m == k + d
    <3>1. m \in 1 .. n /\ k + (d + 1) = m + 1 /\ k + d <= n + 1
      BY <1>1
    <3>2. at[m] = Broken
      BY <2>2, <3>1
    <3> HIDE DEF m
    <3>3. at[m + 1] = EndOf(c, parts[m], Broken)
      BY <1>2, <3>1, <3>2, Zenon
    <3>4. EndOf(c, parts[m], Broken) = Broken
      BY DEF EndOf
    <3> QED
      BY <3>1, <3>3, <3>4, Zenon
  <2> HIDE DEF B
  <2>3. Nat \subseteq B
    BY <2>1, <2>2, Everywhere
  <2> DEFINE d == (n + 1) - k
  <2>4. d \in Nat /\ k + d = n + 1 /\ k + d <= n + 1
    BY <1>1
  <2> HIDE DEF d
  <2>5. d \in B
    BY <2>3, <2>4
  <2>6. at[k + d] = Broken
    BY <2>4, <2>5 DEF B
  <2> QED
    BY <1>3, <2>4, <2>6, Zenon
<1>5. ASSUME NEW k \in 1 .. n, at[k] \in 1 .. Len(c) + 1
      PROVE  /\ at[k + 1] \in at[k] .. Len(c) + 1
             /\ Fits(parts[k], SubSeq(c, at[k], at[k + 1] - 1))
  <2> DEFINE i == at[k]
             part == parts[k]
  <2>1. at[k + 1] = EndOf(c, part, i) /\ at[k + 1] # Broken
    <3>1. k + 1 \in 1 .. n + 1
      BY <1>1
    <3> QED
      BY <1>2, <1>4, <3>1, Zenon
  <2>2. i \in 1 .. Len(c) + 1 /\ part \in PartNames
    BY <1>1, <1>5
  <2> HIDE DEF i, part
  <2>3. EndOf(c, part, i) \in i .. Len(c) + 1 /\ Fits(part, SubSeq(c, i, EndOf(c, part, i) - 1))
    <3>1. EndOf(c, part, i) # Broken
      BY <2>1, Zenon
    <3> QED
      BY <2>2, <3>1, EndOfFits
  <2> QED
    BY <2>1, <2>3, Zenon DEF i, part
<1>6. \A k \in 1 .. n + 1 : at[k] \in 1 .. Len(c) + 1
  <2> DEFINE B == {d \in Nat : d <= n => at[d + 1] \in 1 .. Len(c) + 1}
  <2>1. 0 \in B
    BY <1>1, <1>2
  <2>2. ASSUME NEW d \in Nat, d \in B PROVE d + 1 \in B
    <3> SUFFICES ASSUME d + 1 <= n PROVE at[(d + 1) + 1] \in 1 .. Len(c) + 1
      OBVIOUS
    <3>1. d + 1 \in 1 .. n /\ at[d + 1] \in 1 .. Len(c) + 1
      BY <1>1, <2>2
    <3>2. at[(d + 1) + 1] \in at[d + 1] .. Len(c) + 1
      BY <1>5, <3>1
    <3> QED
      BY <1>1, <3>1, <3>2
  <2> HIDE DEF B
  <2>3. Nat \subseteq B
    BY <2>1, <2>2, Everywhere
  <2> TAKE k \in 1 .. n + 1
  <2> DEFINE d == k - 1
  <2>4. d \in Nat /\ d <= n /\ d + 1 = k
    BY <1>1
  <2> HIDE DEF d
  <2>5. d \in B
    BY <2>3, <2>4
  <2>6. at[d + 1] \in 1 .. Len(c) + 1
    BY <2>4, <2>5 DEF B
  <2> QED
    BY <2>4, <2>6, Zenon
<1>7. \A k \in 1 .. n : /\ at[k + 1] \in at[k] .. Len(c) + 1
                        /\ Fits(parts[k], SubSeq(c, at[k], at[k + 1] - 1))
  <2> TAKE k \in 1 .. n
  <2>1. k \in 1 .. n + 1
    BY <1>1
  <2>2. at[k] \in 1 .. Len(c) + 1
    BY <1>6, <2>1
  <2> QED
    BY <1>5, <2>2
<1> QED
  BY <1>6, <1>7, Zenon DEF n, at

\* Where every part is there, the scan finds it.
Cut(q, c, parts, n) ==
    /\ q[1] = 1
    /\ \A k \in 1 .. n :
           /\ q[k] \in 1 .. Len(c) + 1 /\ q[k + 1] \in q[k] .. Len(c) + 1
           /\ Fits(parts[k], SubSeq(c, q[k], q[k + 1] - 1))

LEMMA ScanFinds ==
    ASSUME NEW c \in Seq(Bytes), NEW parts \in Seq(PartNames), NEW q, Cut(q, c, parts, Len(parts))
    PROVE  \A k \in 1 .. Len(parts) + 1 : Scan(c, parts)[k] = q[k]
<1> DEFINE n == Len(parts)
           at == Scan(c, parts)
<1>1. n \in Nat /\ Len(c) \in Nat /\ \A k \in 1 .. n : parts[k] \in PartNames
  BY LenProperties, ElementOfSeq
<1>2. at[1] = 1 /\ \A k \in 1 .. n : at[k + 1] = EndOf(c, parts[k], at[k])
  BY <1>1, ScanIs DEF Scanned
<1>3. /\ q[1] = 1
      /\ \A k \in 1 .. n :
           /\ q[k] \in 1 .. Len(c) + 1 /\ q[k + 1] \in q[k] .. Len(c) + 1
           /\ Fits(parts[k], SubSeq(c, q[k], q[k + 1] - 1))
  BY DEF Cut
<1> HIDE DEF n, at
<1> DEFINE B == {d \in Nat : d <= n => at[d + 1] = q[d + 1]}
<1>4. 0 \in B
  BY <1>2, <1>3
<1>5. ASSUME NEW d \in Nat, d \in B PROVE d + 1 \in B
  <2> SUFFICES ASSUME d + 1 <= n PROVE at[(d + 1) + 1] = q[(d + 1) + 1]
    OBVIOUS
  <2> DEFINE k == d + 1
  <2>1. k \in 1 .. n /\ at[k] = q[k]
    BY <1>1, <1>5
  <2> HIDE DEF k
  <2> DEFINE i == q[k]
             j == q[k + 1]
             part == parts[k]
  <2>2. i \in 1 .. Len(c) + 1 /\ j \in i .. Len(c) + 1 /\ Fits(part, SubSeq(c, i, j - 1))
        /\ part \in PartNames
    BY <1>1, <1>3, <2>1, Zenon
  <2>3. at[k + 1] = EndOf(c, part, i)
    BY <1>2, <2>1, Zenon
  <2> HIDE DEF i, j, part
  <2>4. EndOf(c, part, i) = j
    BY <2>2, EndOfFinds
  <2>5. at[k + 1] = q[k + 1]
    BY <2>3, <2>4, Zenon DEF j
  <2> QED
    BY <2>5 DEF k
<1> HIDE DEF B
<1>6. Nat \subseteq B
  BY <1>4, <1>5, Everywhere
<1>7. \A k \in 1 .. n + 1 : at[k] = q[k]
  <2> TAKE k \in 1 .. n + 1
  <2> DEFINE d == k - 1
  <2>4. d \in Nat /\ d <= n /\ d + 1 = k
    BY <1>1
  <2> HIDE DEF d
  <2>5. d \in B
    BY <1>6, <2>4
  <2>6. at[d + 1] = q[d + 1]
    BY <2>4, <2>5 DEF B
  <2> QED
    BY <2>4, <2>6, Zenon
<1> QED
  BY <1>7, Zenon DEF n, at

-----------------------------------------------------------------------------
(* The pieces of a grant and the parts of its wire, one for one.            *)

\* What is indexed from 1 on is a sequence.
LEMMA Indexed ==
    ASSUME NEW D, NEW n \in Nat, NEW b \in [1 .. n -> D]
    PROVE  b \in Seq(D) /\ Len(b) = n
OBVIOUS

\* Three sequences one behind the other.
Threefold(p, a, b, c) ==
    /\ Len(p) = (Len(a) + Len(b)) + Len(c)
    /\ \A i \in 1 .. Len(a) : p[i] = a[i]
    /\ \A i \in 1 .. Len(b) : p[Len(a) + i] = b[i]
    /\ \A i \in 1 .. Len(c) : p[(Len(a) + Len(b)) + i] = c[i]

\* Joined, they lie so.
LEMMA ConcatThree ==
    ASSUME NEW S, NEW a \in Seq(S), NEW b \in Seq(S), NEW c \in Seq(S)
    PROVE  Cat(Cat(a, b), c) \in Seq(S) /\ Threefold(Cat(Cat(a, b), c), a, b, c)
<1> DEFINE d == Cat(a, b)
           e == Cat(d, c)
           l == Len(a)
           m == Len(b)
           n == Len(c)
<1>1. l \in Nat /\ m \in Nat /\ n \in Nat
  BY LenProperties
<1>2. d \in Seq(S) /\ Len(d) = l + m
      /\ \A i \in 1 .. l + m : d[i] = IF i <= l THEN a[i] ELSE b[i - l]
  BY ConcatProperties DEF Cat
<1> HIDE DEF d
<1>3. /\ e \in Seq(S) /\ Len(e) = (l + m) + n
      /\ \A i \in 1 .. (l + m) + n : e[i] = IF i <= l + m THEN d[i] ELSE c[i - (l + m)]
  <2>1. /\ e \in Seq(S) /\ Len(e) = Len(d) + Len(c)
        /\ \A i \in 1 .. Len(d) + Len(c) : e[i] = IF i <= Len(d) THEN d[i] ELSE c[i - Len(d)]
    <3>1. d \in Seq(S)
      BY <1>2
    <3> QED
      BY <3>1, ConcatProperties DEF Cat
  <2> HIDE DEF e
  <2> QED
    BY <1>2, <2>1
<1> HIDE DEF e, l, m, n
<1>4. \A i \in 1 .. l : e[i] = a[i]
  <2> TAKE i \in 1 .. l
  <2>1. i \in 1 .. l + m /\ i \in 1 .. (l + m) + n /\ i <= l + m /\ i <= l
    BY <1>1
  <2> QED
    BY <1>2, <1>3, <2>1
<1>5. \A i \in 1 .. m : e[l + i] = b[i]
  <2> TAKE i \in 1 .. m
  <2>1. /\ l + i \in 1 .. l + m /\ l + i \in 1 .. (l + m) + n /\ l + i <= l + m /\ ~(l + i <= l)
        /\ (l + i) - l = i
    BY <1>1
  <2> QED
    BY <1>2, <1>3, <2>1
<1>6. \A i \in 1 .. n : e[(l + m) + i] = c[i]
  <2> TAKE i \in 1 .. n
  <2>1. /\ (l + m) + i \in 1 .. (l + m) + n /\ ~((l + m) + i <= l + m)
        /\ ((l + m) + i) - (l + m) = i
    BY <1>1
  <2> QED
    BY <1>3, <2>1
<1> QED
  BY <1>3, <1>4, <1>5, <1>6, Zenon DEF Threefold, d, e, l, m, n

\* The parts of a grant of n capabilities.
PartsOf(n) == Opening \o [k \in 1 .. n |-> "text"] \o Closing

LEMMA PartsAre ==
    ASSUME NEW n \in Nat
    PROVE  /\ PartsOf(n) \in Seq(PartNames) /\ Len(PartsOf(n)) = n + 12
           /\ \A i \in 1 .. 9 : PartsOf(n)[i] = Opening[i]
           /\ \A i \in 1 .. n : PartsOf(n)[9 + i] = "text"
           /\ \A i \in 1 .. 3 : PartsOf(n)[(9 + n) + i] = Closing[i]
<1>1. Opening \in Seq(PartNames) /\ Len(Opening) = 9
  BY DEF Opening, PartNames
<1>2. Closing \in Seq(PartNames) /\ Len(Closing) = 3
  BY DEF Closing, PartNames
<1> DEFINE t == [k \in 1 .. n |-> "text"]
<1>3. t \in Seq(PartNames) /\ Len(t) = n /\ \A k \in 1 .. n : t[k] = "text"
  BY DEF PartNames
<1> HIDE DEF t
<1>4. PartsOf(n) = Opening \o t \o Closing
  BY DEF PartsOf, t
<1> DEFINE o == Opening
           e == Closing
           p == PartsOf(n)
<1>a. o \in Seq(PartNames) /\ e \in Seq(PartNames) /\ p = o \o t \o e /\ Len(o) = 9 /\ Len(e) = 3
  BY <1>1, <1>2, <1>4
<1> HIDE DEF o, e, p
<1>5. p \in Seq(PartNames) /\ Threefold(p, o, t, e)
  <2>1. Cat(Cat(o, t), e) \in Seq(PartNames) /\ Threefold(Cat(Cat(o, t), e), o, t, e)
    BY <1>a, <1>3, ConcatThree
  <2>2. p = Cat(Cat(o, t), e)
    BY <1>a, Zenon DEF Cat
  <2> QED
    BY <2>1, <2>2, Zenon
<1>6. /\ p \in Seq(PartNames) /\ Len(p) = n + 12
      /\ \A i \in 1 .. 9 : p[i] = o[i]
      /\ \A i \in 1 .. n : p[9 + i] = "text"
      /\ \A i \in 1 .. 3 : p[(9 + n) + i] = e[i]
  <2>1. Len(o) = 9 /\ Len(t) = n /\ Len(e) = 3
    BY <1>a, <1>3
  <2>2. /\ p \in Seq(PartNames) /\ Len(p) = (9 + n) + 3
        /\ \A i \in 1 .. 9 : p[i] = o[i]
        /\ \A i \in 1 .. n : p[9 + i] = t[i]
        /\ \A i \in 1 .. 3 : p[(9 + n) + i] = e[i]
    BY <1>5, <2>1, Zenon DEF Threefold
  <2>3. Len(p) = n + 12
    BY <2>2
  <2>4. \A i \in 1 .. n : p[9 + i] = "text"
    BY <1>3, <2>2, Zenon
  <2> QED
    BY <2>2, <2>3, <2>4, Zenon
<1> QED
  BY <1>6, Zenon DEF o, e, p

\* A text, and its bytes.
LEMMA TextIs ==
    ASSUME NEW t \in Str, Len(t) <= MaxField
    PROVE  /\ Str16(t) \in Seq(Bytes) /\ Len(Str16(t)) = 2 + Len(t)
           /\ Fits("text", Str16(t))
           /\ SubSeq(Str16(t), 3, Len(Str16(t))) = t
<1> DEFINE b == BigEndian(Len(t), 2, Base)
           p == Str16(t)
<1>1. t \in Seq(Bytes) /\ Len(t) \in Nat /\ \A i \in 1 .. Len(t) : t[i] # NotText
  <2>1. t \in Seq(Bytes \ {NotText})
    BY DEF Str
  <2>2. \A i \in 1 .. Len(t) : t[i] \in Bytes \ {NotText}
    BY <2>1, ElementOfSeq
  <2>3. t \in Seq(Bytes)
    BY <2>1, SeqMonotonic
  <2> QED
    BY <2>2, <2>3, LenProperties
<1>2. Len(t) \in Width(2, Base)
  <2>1. Len(t) < Base * Base
    <3> DEFINE m == Base * Base
    <3>1. m \in Nat
      BY BytesAre
    <3>2. MaxField < m /\ MaxField \in Nat
      BY ConstantsAssumption
    <3> HIDE DEF m
    <3>3. Len(t) < m
      BY <1>1, <3>1, <3>2
    <3> QED
      BY <3>3 DEF m
  <2> QED
    BY <1>1, <2>1, BytesAre, WidthTwo
<1>3. b \in [1 .. 2 -> Bytes] /\ Number(b, Base) = Len(t)
  BY <1>2, BytesAre, WidthIs DEF Bytes
<1>4. b \in Seq(Bytes) /\ Len(b) = 2
  <2> HIDE DEF b
  <2> DEFINE D == Bytes
  <2>1. b \in [1 .. 2 -> D]
    BY <1>3
  <2> HIDE DEF D
  <2>2. b \in Seq(D) /\ Len(b) = 2
    BY <2>1, Indexed
  <2> QED
    BY <2>2 DEF D
<1> HIDE DEF b
<1>5. p = Cat(b, t)
  BY DEF Str16, Cat, b
<1> HIDE DEF p
<1>6. /\ p \in Seq(Bytes) /\ Len(p) = 2 + Len(t)
      /\ \A i \in 1 .. 2 + Len(t) : p[i] = IF i <= 2 THEN b[i] ELSE t[i - 2]
  <2>1. /\ b \o t \in Seq(Bytes) /\ Len(b \o t) = Len(b) + Len(t)
        /\ \A i \in 1 .. Len(b) + Len(t) : (b \o t)[i] = IF i <= Len(b) THEN b[i] ELSE t[i - Len(b)]
    BY <1>1, <1>4, ConcatProperties
  <2>2. p = b \o t
    BY <1>5 DEF Cat
  <2> QED
    BY <1>4, <2>1, <2>2
<1>7. SubSeq(p, 3, Len(p)) = t
  <2>1. SubSeq(Cat(b, t), Len(b) + 1, Len(b) + Len(t)) = t
    BY <1>1, <1>4, EndOfCat
  <2>2. Len(b) + 1 = 3 /\ Len(b) + Len(t) = Len(p)
    BY <1>4, <1>6
  <2> QED
    BY <1>5, <2>1, <2>2, Zenon
<1>8. SubSeq(p, 1, 2) = b
  <2>1. SubSeq(Cat(b, t), 1, 2) = SubSeq(b, 1, 2)
    <3>1. 1 \in 1 .. Len(b) + 1 /\ 2 \in 1 - 1 .. Len(b)
      BY <1>4
    <3> QED
      BY <1>1, <1>4, <3>1, StretchOfCat
  <2>2. SubSeq(b, 1, Len(b)) = b
    BY <1>4, SubSeqFull
  <2> QED
    BY <1>4, <1>5, <2>1, <2>2, Zenon
<1>9. Free(p)
  <2>1. ASSUME NEW k \in 3 .. Len(p) PROVE p[k] # NotText
    <3>1. k \in 1 .. 2 + Len(t) /\ ~(k <= 2) /\ k - 2 \in 1 .. Len(t)
      BY <1>1, <1>6
    <3>2. p[k] = t[k - 2]
      BY <1>6, <3>1
    <3> QED
      BY <1>1, <3>1, <3>2
  <2> QED
    BY <2>1 DEF Free
<1>10. Len(p) >= 2
  BY <1>1, <1>6
<1>11. Fits("text", p)
  BY <1>3, <1>6, <1>8, <1>9, <1>10 DEF Fits
<1> QED
  BY <1>6, <1>7, <1>11 DEF p

\* A part that is a text is its own bytes.
LEMMA TextWas ==
    ASSUME NEW p \in Seq(Bytes), Fits("text", p)
    PROVE  /\ SubSeq(p, 3, Len(p)) \in Str
           /\ Str16(SubSeq(p, 3, Len(p))) = p
<1> DEFINE t == SubSeq(p, 3, Len(p))
           b == SubSeq(p, 1, 2)
<1>1. Len(p) \in Nat /\ Len(p) >= 2 /\ Len(p) = 2 + Number(b, Base)
      /\ \A k \in 3 .. Len(p) : p[k] # NotText
  BY LenProperties DEF Fits, Free
<1>2. t \in Seq(Bytes) /\ Len(t) = (Len(p) - 3) + 1
      /\ \A k \in 1 .. (Len(p) - 3) + 1 : t[k] = p[(3 + k) - 1]
  <2> DEFINE l == Len(p)
  <2>1. 3 \in 1 .. Len(p) + 1 /\ l \in 3 - 1 .. Len(p)
    BY <1>1
  <2> HIDE DEF l
  <2>2. /\ SubSeq(p, 3, l) \in Seq(Bytes) /\ Len(SubSeq(p, 3, l)) = (l - 3) + 1
        /\ \A k \in 1 .. (l - 3) + 1 : SubSeq(p, 3, l)[k] = p[(3 + k) - 1]
    BY <2>1, Stretch
  <2> QED
    BY <2>2, Zenon DEF l
<1>3. b \in Seq(Bytes) /\ Len(b) = 2
  <2>1. 1 \in 1 .. Len(p) + 1 /\ 2 \in 1 - 1 .. Len(p) /\ (2 - 1) + 1 = 2
    BY <1>1
  <2> QED
    BY <2>1, Stretch
<1>4. Cat(b, t) = p
  <2>1. 1 \in 1 .. Len(p) + 1 /\ 2 \in 1 - 1 .. Len(p) /\ Len(p) \in 2 .. Len(p) /\ 2 + 1 = 3
    BY <1>1
  <2>2. SubSeq(p, 1, 2) \o SubSeq(p, 2 + 1, Len(p)) = SubSeq(p, 1, Len(p))
    BY <2>1, ConcatAdjacentSubSeq
  <2>3. SubSeq(p, 1, Len(p)) = p
    BY SubSeqFull
  <2> QED
    BY <2>1, <2>2, <2>3, Zenon DEF Cat
<1> HIDE DEF b, t
<1>5. t \in Str
  <2>1. \A k \in 1 .. Len(t) : t[k] \in Bytes \ {NotText}
    <3> TAKE k \in 1 .. Len(t)
    <3>1. k \in 1 .. (Len(p) - 3) + 1 /\ (3 + k) - 1 \in 3 .. Len(p)
      BY <1>1, <1>2
    <3>2. t[k] # NotText
      BY <1>1, <1>2, <3>1
    <3>3. t[k] \in Bytes
      BY <1>2, ElementOfSeq
    <3> QED
      BY <3>2, <3>3
  <2>2. DOMAIN t = 1 .. Len(t)
    BY <1>2, LenProperties
  <2> QED
    BY <1>2, <2>1, <2>2, OverThose DEF Str
<1>6. BigEndian(Len(t), 2, Base) = b
  <2>1. b \in [1 .. 2 -> 0 .. Base - 1]
    BY <1>3, LenProperties DEF Bytes
  <2>2. BigEndian(Number(b, Base), 2, Base) = b
    BY <2>1, BytesAre, BigEndianIs
  <2>3. Number(b, Base) \in Nat
    BY <1>3, BytesAre, NumberNat, SeqMonotonic
  <2>4. Len(t) = Number(b, Base)
    BY <1>1, <1>2, <2>3
  <2> QED
    BY <2>2, <2>4, Zenon
<1>7. Str16(t) = p
  BY <1>4, <1>6, Zenon DEF Str16, Cat
<1> QED
  BY <1>5, <1>7 DEF t

\* The pieces in front of the capabilities, theirs, and those behind.
Nine(f) ==
    <<<<DomainByte>>, <<Version>>, Str16(f.device_did), Str16(f.owner_did),
      f.owner_genesis_pubkey, f.hub_endpoint_id, Str16(f.hub_relay), Str16(f.hub_host),
      BigEndian(Len(f.caps), 1, Base)>>

Middle(f) == [i \in DOMAIN f.caps |-> Str16(f.caps[i])]

Three(f) ==
    <<BigEndian(f.roster_version, RosterLen, Base),
      BigEndian(f.issued_at, TimeLen, Base), BigEndian(f.expires_at, TimeLen, Base)>>

\* What the limits say of the texts.
LEMMA WithinLimits ==
    ASSUME NEW f \in AdoptionFields, Validate(f)
    PROVE  /\ \A t \in FieldTexts(f) : t \in Str /\ Len(t) <= MaxField
           /\ f.caps \in Seq(Str) /\ Len(f.caps) \in 0 .. Base - 1
           /\ \A i \in 1 .. Len(f.caps) : f.caps[i] \in Str /\ Len(f.caps[i]) <= MaxField
<1>1. \A t \in FieldTexts(f) : t \in Str /\ Len(t) <= MaxField
  BY DEF AdoptionFields, Validate, FieldTexts
<1>2. f.caps \in Seq(Str) /\ Len(f.caps) \in Nat
  BY LenProperties DEF AdoptionFields
<1>3. Len(f.caps) \in 0 .. Base - 1
  <2>1. Len(f.caps) <= MaxCaps /\ MaxCaps \in 0 .. Base - 1 /\ Base \in Nat
    BY ConstantsAssumption DEF Validate
  <2> QED
    BY <1>2, <2>1
<1>4. ASSUME NEW i \in 1 .. Len(f.caps) PROVE f.caps[i] \in Str /\ Len(f.caps[i]) <= MaxField
  <2>1. f.caps[i] \in Str
    BY <1>2, ElementOfSeq
  <2>2. f.caps[i] \in Seqs!ToSet(f.caps)
    <3>1. DOMAIN f.caps = 1 .. Len(f.caps)
      BY <1>2, LenProperties
    <3> QED
      BY <3>1 DEF Seqs!ToSet
  <2> QED
    BY <2>1, <2>2 DEF Validate
<1> QED
  BY <1>1, <1>2, <1>3, <1>4

\* A number in its width is a part of that width.
LEMMA NumberFits ==
    ASSUME NEW part \in PartNames \ {"text", "domain", "version"}, NEW n \in Width(Widths[part], Base)
    PROVE  /\ BigEndian(n, Widths[part], Base) \in Seq(Bytes)
           /\ Len(BigEndian(n, Widths[part], Base)) = Widths[part]
           /\ Fits(part, BigEndian(n, Widths[part], Base))
<1> DEFINE w == Widths[part]
           b == BigEndian(n, w, Base)
<1>1. w \in Nat
  BY WidthsAre
<1>2. b \in [1 .. w -> Bytes]
  <2> HIDE DEF w
  <2> QED
    BY <1>1, BytesAre, WidthIs DEF Bytes, w
<1> HIDE DEF b, w
<1>3. b \in Seq(Bytes) /\ Len(b) = w
  BY <1>1, <1>2, Indexed
<1>4. Fits(part, b)
  BY <1>3 DEF Fits, w
<1> QED
  BY <1>3, <1>4 DEF b, w

\* The nine parts in front of the capabilities, and the three behind.
LEMMA NineFit ==
    ASSUME NEW f \in AdoptionFields, Validate(f)
    PROVE  /\ Nine(f) \in Seq(Seq(Bytes)) /\ Len(Nine(f)) = 9
           /\ \A i \in 1 .. 9 : Fits(Opening[i], Nine(f)[i])
<1> DEFINE D == Seq(Bytes)
           a == <<DomainByte>>
           b == <<Version>>
           c == Str16(f.device_did)
           d == Str16(f.owner_did)
           e == f.owner_genesis_pubkey
           g == f.hub_endpoint_id
           h == Str16(f.hub_relay)
           j == Str16(f.hub_host)
           k == BigEndian(Len(f.caps), 1, Base)
<1>1. a \in D /\ Fits("domain", a)
  <2>1. a \in D /\ Len(a) = 1 /\ a[1] = DomainByte
    BY ConstantsAssumption
  <2> QED
    BY <2>1, WidthsAre DEF Fits
<1>2. b \in D /\ Fits("version", b)
  <2>1. b \in D /\ Len(b) = 1 /\ b[1] = Version
    BY ConstantsAssumption
  <2> QED
    BY <2>1, WidthsAre DEF Fits
<1>3. \A t \in FieldTexts(f) : Str16(t) \in D /\ Fits("text", Str16(t))
  BY WithinLimits, TextIs
<1>4. c \in D /\ Fits("text", c) /\ d \in D /\ Fits("text", d)
  BY <1>3 DEF FieldTexts
<1>5. h \in D /\ Fits("text", h) /\ j \in D /\ Fits("text", j)
  BY <1>3 DEF FieldTexts
<1>6. e \in D /\ Fits("key", e)
  <2>1. e \in [1 .. OwnerKeyLen -> Bytes] /\ OwnerKeyLen \in Nat
    BY ConstantsAssumption DEF AdoptionFields
  <2>2. e \in D /\ Len(e) = OwnerKeyLen
    BY <2>1, Indexed
  <2> QED
    BY <2>2, WidthsAre DEF Fits
<1>7. g \in D /\ Fits("hub", g)
  <2>1. g \in [1 .. HubLen -> Bytes] /\ HubLen \in Nat
    BY ConstantsAssumption DEF AdoptionFields
  <2>2. g \in D /\ Len(g) = HubLen
    BY <2>1, Indexed
  <2> QED
    BY <2>2, WidthsAre DEF Fits
<1>8. k \in D /\ Fits("count", k)
  <2>1. Len(f.caps) \in Width(1, Base)
    BY WithinLimits, BytesAre, WidthOne
  <2>2. "count" \in PartNames \ {"text", "domain", "version"} /\ Widths["count"] = 1
    BY WidthsAre DEF PartNames
  <2> QED
    BY <2>1, <2>2, NumberFits
<1>9. Nine(f) = <<a, b, c, d, e, g, h, j, k>>
  BY DEF Nine
<1>10. Opening = <<"domain", "version", "text", "text", "key", "hub", "text", "text", "count">>
  BY DEF Opening
<1> HIDE DEF D, a, b, c, d, e, g, h, j, k
<1>11. Nine(f) \in Seq(D) /\ Len(Nine(f)) = 9
  BY <1>1, <1>2, <1>4, <1>5, <1>6, <1>7, <1>8, <1>9
<1>12. \A i \in 1 .. 9 : Fits(Opening[i], Nine(f)[i])
  <2>1. /\ Nine(f)[1] = a /\ Nine(f)[2] = b /\ Nine(f)[3] = c /\ Nine(f)[4] = d /\ Nine(f)[5] = e
        /\ Nine(f)[6] = g /\ Nine(f)[7] = h /\ Nine(f)[8] = j /\ Nine(f)[9] = k
    BY <1>9
  <2>2. /\ Opening[1] = "domain" /\ Opening[2] = "version" /\ Opening[3] = "text"
        /\ Opening[4] = "text" /\ Opening[5] = "key" /\ Opening[6] = "hub"
        /\ Opening[7] = "text" /\ Opening[8] = "text" /\ Opening[9] = "count"
    BY <1>10
  <2>3. \A i \in 1 .. 9 : i = 1 \/ i = 2 \/ i = 3 \/ i = 4 \/ i = 5 \/ i = 6 \/ i = 7
        \/ i = 8 \/ i = 9
    OBVIOUS
  <2> TAKE i \in 1 .. 9
  <2> QED
    BY <1>1, <1>2, <1>4, <1>5, <1>6, <1>7, <1>8, <2>1, <2>2, <2>3, Zenon
<1> QED
  BY <1>11, <1>12 DEF D

LEMMA ThreeFit ==
    ASSUME NEW f \in AdoptionFields
    PROVE  /\ Three(f) \in Seq(Seq(Bytes)) /\ Len(Three(f)) = 3
           /\ \A i \in 1 .. 3 : Fits(Closing[i], Three(f)[i])
<1> DEFINE D == Seq(Bytes)
           a == BigEndian(f.roster_version, RosterLen, Base)
           b == BigEndian(f.issued_at, TimeLen, Base)
           c == BigEndian(f.expires_at, TimeLen, Base)
<1>1. a \in D /\ Fits("roster", a)
  <2>1. f.roster_version \in Width(RosterLen, Base)
    BY DEF AdoptionFields
  <2>2. "roster" \in PartNames \ {"text", "domain", "version"} /\ Widths["roster"] = RosterLen
    BY WidthsAre DEF PartNames
  <2> QED
    BY <2>1, <2>2, NumberFits
<1>2. b \in D /\ Fits("time", b) /\ c \in D /\ Fits("time", c)
  <2>1. f.issued_at \in Width(TimeLen, Base) /\ f.expires_at \in Width(TimeLen, Base)
    BY DEF AdoptionFields
  <2>2. "time" \in PartNames \ {"text", "domain", "version"} /\ Widths["time"] = TimeLen
    BY WidthsAre DEF PartNames
  <2> QED
    BY <2>1, <2>2, NumberFits
<1>3. Three(f) = <<a, b, c>> /\ Closing = <<"roster", "time", "time">>
  BY DEF Three, Closing
<1> HIDE DEF D, a, b, c
<1>4. Three(f) \in Seq(D) /\ Len(Three(f)) = 3
  BY <1>1, <1>2, <1>3
<1>5. \A i \in 1 .. 3 : Fits(Closing[i], Three(f)[i])
  <2>1. /\ Three(f)[1] = a /\ Three(f)[2] = b /\ Three(f)[3] = c
        /\ Closing[1] = "roster" /\ Closing[2] = "time" /\ Closing[3] = "time"
    BY <1>3
  <2>2. \A i \in 1 .. 3 : i = 1 \/ i = 2 \/ i = 3
    OBVIOUS
  <2> TAKE i \in 1 .. 3
  <2> QED
    BY <1>1, <1>2, <2>1, <2>2, Zenon
<1> QED
  BY <1>4, <1>5 DEF D

\* All the pieces, each of them fit for its part.
LEMMA PiecesFit ==
    ASSUME NEW f \in AdoptionFields, Validate(f)
    PROVE  /\ Pieces(f) \in Seq(Seq(Bytes)) /\ Len(Pieces(f)) = Len(f.caps) + 12
           /\ \A i \in 1 .. 9 : Pieces(f)[i] = Nine(f)[i]
           /\ \A i \in 1 .. Len(f.caps) : Pieces(f)[9 + i] = Str16(f.caps[i])
           /\ \A i \in 1 .. 3 : Pieces(f)[(9 + Len(f.caps)) + i] = Three(f)[i]
           /\ \A k \in 1 .. Len(f.caps) + 12 : Fits(PartsOf(Len(f.caps))[k], Pieces(f)[k])
<1> DEFINE D == Seq(Bytes)
           n == Len(f.caps)
           a == Nine(f)
           b == Middle(f)
           c == Three(f)
           p == Pieces(f)
           q == PartsOf(n)
<1>1. n \in Nat /\ \A i \in 1 .. n : Str16(f.caps[i]) \in D /\ Fits("text", Str16(f.caps[i]))
  BY WithinLimits, TextIs, LenProperties
<1>2. a \in Seq(D) /\ Len(a) = 9 /\ \A i \in 1 .. 9 : Fits(Opening[i], a[i])
  BY NineFit
<1>3. c \in Seq(D) /\ Len(c) = 3 /\ \A i \in 1 .. 3 : Fits(Closing[i], c[i])
  BY ThreeFit
<1>4. b \in Seq(D) /\ Len(b) = n /\ \A i \in 1 .. n : b[i] = Str16(f.caps[i])
  <2>1. DOMAIN f.caps = 1 .. n
    BY WithinLimits, LenProperties
  <2>2. b = [i \in 1 .. n |-> Str16(f.caps[i])]
    BY <2>1 DEF Middle
  <2> HIDE DEF D, b
  <2>3. b \in [1 .. n -> D] /\ \A i \in 1 .. n : b[i] = Str16(f.caps[i])
    BY <1>1, <2>2
  <2> HIDE DEF n
  <2> QED
    BY <1>1, <2>3, Indexed
<1>5. p = Cat(Cat(a, b), c)
  BY DEF Pieces, Nine, Middle, Three, Cat
<1>6. q \in Seq(PartNames) /\ Len(q) = n + 12
      /\ (\A i \in 1 .. 9 : q[i] = Opening[i])
      /\ (\A i \in 1 .. n : q[9 + i] = "text")
      /\ (\A i \in 1 .. 3 : q[(9 + n) + i] = Closing[i])
  BY <1>1, PartsAre
<1> HIDE DEF D, n, a, b, c, p, q
<1>7. p \in Seq(D) /\ Threefold(p, a, b, c)
  BY <1>2, <1>3, <1>4, <1>5, ConcatThree
<1>8. /\ Len(p) = (9 + n) + 3
      /\ \A i \in 1 .. 9 : p[i] = a[i]
      /\ \A i \in 1 .. n : p[9 + i] = b[i]
      /\ \A i \in 1 .. 3 : p[(9 + n) + i] = c[i]
  BY <1>2, <1>3, <1>4, <1>7, Zenon DEF Threefold
<1>9. ASSUME NEW k \in 1 .. n + 12 PROVE Fits(q[k], p[k])
  <2>1. CASE k \in 1 .. 9
    BY <1>2, <1>6, <1>8, <2>1, Zenon
  <2>2. CASE k \in 10 .. 9 + n
    <3> DEFINE i == k - 9
    <3>1. i \in 1 .. n /\ k = 9 + i
      BY <1>1, <2>2
    <3> HIDE DEF i
    <3>2. q[k] = "text" /\ p[k] = Str16(f.caps[i])
      BY <1>4, <1>6, <1>8, <3>1, Zenon
    <3> QED
      BY <1>1, <3>1, <3>2, Zenon DEF n
  <2>3. CASE k \in 10 + n .. 12 + n
    <3> DEFINE i == k - (9 + n)
    <3>1. i \in 1 .. 3 /\ k = (9 + n) + i
      BY <1>1, <2>3
    <3> HIDE DEF i
    <3> QED
      BY <1>3, <1>6, <1>8, <3>1, Zenon
  <2>4. k \in 1 .. 9 \/ k \in 10 .. 9 + n \/ k \in 10 + n .. 12 + n
    BY <1>1
  <2> QED
    BY <2>1, <2>2, <2>3, <2>4
<1>10. Len(p) = n + 12
  BY <1>1, <1>8
<1>11. \A i \in 1 .. n : p[9 + i] = Str16(f.caps[i])
  BY <1>4, <1>8, Zenon
<1> QED
  BY <1>7, <1>8, <1>9, <1>10, <1>11, Zenon DEF D, n, a, c, p, q

-----------------------------------------------------------------------------
(* What is encoded is read as it was.                                       *)

\* A stretch of a stretch that goes on to its end.
LEMMA Inner ==
    ASSUME NEW A, NEW c \in Seq(A), NEW i \in 1 .. Len(c) + 1, NEW j \in i + 2 .. Len(c) + 1
    PROVE  SubSeq(c, i + 2, j - 1) = SubSeq(SubSeq(c, i, j - 1), 3, j - i)
<1> DEFINE p == SubSeq(c, i, j - 1)
           x == SubSeq(c, i + 2, j - 1)
           y == SubSeq(p, 3, j - i)
<1>0. Len(c) \in Nat /\ i \in Nat /\ j \in Nat /\ i >= 1 /\ i + 2 <= j /\ j <= Len(c) + 1
  BY LenProperties
<1>1. p \in Seq(A) /\ Len(p) = j - i /\ \A k \in 1 .. j - i : p[k] = c[(i + k) - 1]
  <2>1. j - 1 \in i - 1 .. Len(c) /\ ((j - 1) - i) + 1 = j - i
    BY <1>0
  <2> QED
    BY <2>1, Stretch
<1>2. x \in Seq(A) /\ Len(x) = (j - i) - 2
      /\ \A k \in 1 .. (j - i) - 2 : x[k] = c[((i + 2) + k) - 1]
  <2> DEFINE a == i + 2
             b == j - 1
  <2>1. a \in 1 .. Len(c) + 1 /\ b \in a - 1 .. Len(c) /\ (b - a) + 1 = (j - i) - 2
    BY <1>0
  <2> HIDE DEF a, b
  <2>2. /\ SubSeq(c, a, b) \in Seq(A) /\ Len(SubSeq(c, a, b)) = (b - a) + 1
        /\ \A k \in 1 .. (b - a) + 1 : SubSeq(c, a, b)[k] = c[(a + k) - 1]
    BY <2>1, Stretch
  <2>3. x = SubSeq(c, a, b)
    BY DEF a, b
  <2> HIDE DEF x
  <2>4. /\ x \in Seq(A) /\ Len(x) = (j - i) - 2
        /\ \A k \in 1 .. (j - i) - 2 : x[k] = c[(a + k) - 1]
    BY <2>1, <2>2, <2>3, Zenon
  <2> QED
    BY <2>4, Zenon DEF a
<1> HIDE DEF p, x
<1>3. y \in Seq(A) /\ Len(y) = (j - i) - 2 /\ \A k \in 1 .. (j - i) - 2 : y[k] = p[(3 + k) - 1]
  <2>1. 3 \in 1 .. Len(p) + 1 /\ j - i \in 3 - 1 .. Len(p) /\ ((j - i) - 3) + 1 = (j - i) - 2
    BY <1>0, <1>1
  <2> QED
    BY <1>1, <2>1, Stretch
<1> HIDE DEF y
<1>4. \A k \in 1 .. (j - i) - 2 : x[k] = y[k]
  <2> TAKE k \in 1 .. (j - i) - 2
  <2>1. (3 + k) - 1 \in 1 .. j - i /\ (i + ((3 + k) - 1)) - 1 = ((i + 2) + k) - 1
    BY <1>0
  <2> QED
    BY <1>1, <1>2, <1>3, <2>1
<1>5. x = y
  BY <1>2, <1>3, <1>4, SeqEqual
<1> QED
  BY <1>5 DEF p, x, y

\* Pieces laid one behind the other are the parts of what they make.
Starts(q, c, ps, n) ==
    /\ q[1] = 1 /\ q[n + 1] = Len(c) + 1
    /\ \A k \in 1 .. n :
           /\ q[k] \in 1 .. Len(c) + 1 /\ q[k + 1] \in q[k] .. Len(c) + 1
           /\ q[k + 1] = q[k] + Len(ps[k])
           /\ SubSeq(c, q[k], q[k + 1] - 1) = ps[k]

\* There are such positions.
LEMMA FlatStarts ==
    ASSUME NEW ps \in Seq(Seq(Bytes))
    PROVE  Flat(ps) \in Seq(Bytes) /\ \E q : Starts(q, Flat(ps), ps, Len(ps))
<1> DEFINE n == Len(ps)
           c == Flat(ps)
<1>1. n \in Nat /\ n \in 0 .. n
  BY LenProperties
<1>2. PICK g : Joined(g, ps, n, Bytes)
  BY <1>1, JoinedExist
<1>3. c = g[n] /\ c \in Seq(Bytes) /\ Len(c) \in Nat
  BY <1>2, FlatIs, FlatType, LenProperties
<1>4. \A k \in 1 .. n :
         /\ Len(g[k]) = Len(g[k - 1]) + Len(ps[k]) /\ Len(g[k]) <= Len(g[n])
         /\ SubSeq(g[n], Len(g[k - 1]) + 1, Len(g[k])) = ps[k]
  BY <1>2, PieceFound
<1>5. g[0] = <<>> /\ \A k \in 0 .. n : g[k] \in Seq(Bytes) /\ Len(g[k]) \in Nat
  BY <1>2, LenProperties DEF Joined
<1>6. \A k \in 1 .. n : Len(ps[k]) \in Nat
  BY ElementOfSeq, LenProperties
<1> HIDE DEF n, c
<1> DEFINE q == [k \in 1 .. n + 1 |-> Len(g[k - 1]) + 1]
<1>7. q[1] = 1
  <2>1. 1 \in 1 .. n + 1 /\ 1 - 1 = 0
    BY <1>1
  <2>2. q[1] = Len(g[0]) + 1
    BY <2>1
  <2>3. Len(g[0]) = 0
    BY <1>5
  <2> QED
    BY <2>2, <2>3
<1>8. q[n + 1] = Len(c) + 1
  <2>1. n + 1 \in 1 .. n + 1 /\ (n + 1) - 1 = n
    BY <1>1
  <2> QED
    BY <1>3, <2>1
<1>9. ASSUME NEW k \in 1 .. n
      PROVE  /\ q[k] \in 1 .. Len(c) + 1 /\ q[k + 1] \in q[k] .. Len(c) + 1
             /\ q[k + 1] = q[k] + Len(ps[k])
             /\ SubSeq(c, q[k], q[k + 1] - 1) = ps[k]
  <2>1. k \in 1 .. n + 1 /\ k + 1 \in 1 .. n + 1 /\ (k + 1) - 1 = k /\ k - 1 \in 0 .. n
        /\ k \in 0 .. n
    BY <1>1
  <2> DEFINE x == Len(g[k - 1])
             y == Len(g[k])
             z == Len(ps[k])
  <2>2. q[k] = x + 1 /\ q[k + 1] = y + 1
    BY <2>1
  <2>3. y = x + z /\ y <= Len(c) /\ SubSeq(c, x + 1, y) = ps[k]
    BY <1>3, <1>4, Zenon
  <2>4. x \in Nat /\ y \in Nat /\ z \in Nat
    BY <1>5, <1>6, <2>1
  <2> HIDE DEF q, x, y
  <2>5. /\ q[k] \in 1 .. Len(c) + 1 /\ q[k + 1] \in q[k] .. Len(c) + 1
        /\ q[k + 1] = q[k] + z /\ q[k + 1] - 1 = y
    <3> HIDE DEF z
    <3> QED
      BY <1>3, <2>2, <2>3, <2>4
  <2> QED
    BY <2>2, <2>3, <2>5, Zenon
<1> HIDE DEF q
<1>10. Starts(q, c, ps, n)
  BY <1>7, <1>8, <1>9 DEF Starts
<1> QED
  BY <1>3, <1>10 DEF n, c

\* The text of a part that fits.
LEMMA TextFound ==
    ASSUME NEW c \in Seq(Bytes), NEW i \in 1 .. Len(c) + 1, NEW j \in i .. Len(c) + 1,
           Fits("text", SubSeq(c, i, j - 1))
    PROVE  /\ SubSeq(c, i + 2, j - 1) \in Str
           /\ Str16(SubSeq(c, i + 2, j - 1)) = SubSeq(c, i, j - 1)
           /\ SubSeq(c, i + 2, j - 1)
                = SubSeq(SubSeq(c, i, j - 1), 3, Len(SubSeq(c, i, j - 1)))
<1> DEFINE p == SubSeq(c, i, j - 1)
           t == SubSeq(c, i + 2, j - 1)
<1>1. p \in Seq(Bytes) /\ Len(p) = j - i
  BY PartOf
<1>2. Len(p) >= 2
  BY DEF Fits
<1>3. j \in i + 2 .. Len(c) + 1
  <2> HIDE DEF p
  <2>1. Len(c) \in Nat
    BY LenProperties
  <2> QED
    BY <1>1, <1>2, <2>1
<1>4. t = SubSeq(p, 3, j - i)
  BY <1>3, Inner
<1>5. SubSeq(p, 3, Len(p)) \in Str /\ Str16(SubSeq(p, 3, Len(p))) = p
  <2>1. Fits("text", p)
    OBVIOUS
  <2> HIDE DEF p
  <2> QED
    BY <1>1, <2>1, TextWas
<1> HIDE DEF p, t
<1>6. t = SubSeq(p, 3, Len(p))
  BY <1>1, <1>4, Zenon
<1> QED
  BY <1>5, <1>6, Zenon DEF p, t

\* The count of capabilities, once the parts in front of them are there.
LEMMA CountIs ==
    ASSUME NEW c \in Seq(Bytes), NEW q, Cut(q, c, Opening, 9)
    PROVE  Count(c) = c[q[9]]
<1>1. Opening \in Seq(PartNames) /\ Len(Opening) = 9
  BY DEF Opening, PartNames
<1>2. \A k \in 1 .. 10 : Scan(c, Opening)[k] = q[k]
  <2>1. Cut(q, c, Opening, Len(Opening))
    BY <1>1
  <2>2. \A k \in 1 .. Len(Opening) + 1 : Scan(c, Opening)[k] = q[k]
    BY <1>1, <2>1, ScanFinds
  <2> QED
    BY <1>1, <2>2
<1>3. End(c, Opening) = q[10] /\ Scan(c, Opening)[Len(Opening)] = q[9]
  BY <1>1, <1>2 DEF End
<1>4. q[9] \in 1 .. Len(c) + 1 /\ q[10] \in q[9] .. Len(c) + 1
  <2>1. 9 \in 1 .. 9 /\ 9 + 1 = 10
    OBVIOUS
  <2> QED
    BY <2>1, Zenon DEF Cut
<1>5. q[10] # Broken
  BY <1>4, LenProperties DEF Broken
<1> QED
  BY <1>3, <1>5 DEF Count

\* Encode lays the pieces of a grant one behind the other.
LEMMA EncodeIs == \A f : Encode(f) = Flat(Pieces(f))
BY DEF Encode, Flat

\* What is encoded is cut into its pieces again, and counted.
LEMMA EncodeCut ==
    ASSUME NEW f \in AdoptionFields, Validate(f), NEW q,
           Starts(q, Encode(f), Pieces(f), Len(Pieces(f)))
    PROVE  /\ Cut(q, Encode(f), PartsOf(Len(f.caps)), Len(f.caps) + 12)
           /\ Count(Encode(f)) = Len(f.caps)
           /\ Parts(Encode(f)) = PartsOf(Len(f.caps))
<1> DEFINE c == Encode(f)
           ps == Pieces(f)
           n == Len(f.caps)
<1>1. n \in Nat /\ n \in 0 .. Base - 1
  BY WithinLimits, LenProperties
<1>2. /\ ps \in Seq(Seq(Bytes)) /\ Len(ps) = n + 12
      /\ \A i \in 1 .. 9 : ps[i] = Nine(f)[i]
      /\ \A k \in 1 .. n + 12 : Fits(PartsOf(n)[k], ps[k])
  BY PiecesFit
<1>3. c \in Seq(Bytes)
  BY <1>2, EncodeIs, FlatStarts
<1>4. /\ q[1] = 1 /\ q[(n + 12) + 1] = Len(c) + 1
      /\ \A k \in 1 .. n + 12 :
           /\ q[k] \in 1 .. Len(c) + 1 /\ q[k + 1] \in q[k] .. Len(c) + 1
           /\ q[k + 1] = q[k] + Len(ps[k])
           /\ SubSeq(c, q[k], q[k + 1] - 1) = ps[k]
  BY <1>2, Zenon DEF Starts
<1>5. \A i \in 1 .. 9 : i \in 1 .. n + 12 /\ PartsOf(n)[i] = Opening[i]
  <2> HIDE DEF n
  <2>1. \A i \in 1 .. 9 : i \in 1 .. n + 12
    BY <1>1
  <2>2. \A i \in 1 .. 9 : PartsOf(n)[i] = Opening[i]
    BY <1>1, PartsAre
  <2> QED
    BY <2>1, <2>2, Zenon
<1> HIDE DEF c, ps, n
<1>6. Cut(q, c, PartsOf(n), n + 12)
  BY <1>2, <1>4, Zenon DEF Cut
<1>7. Cut(q, c, Opening, 9)
  BY <1>2, <1>4, <1>5, Zenon DEF Cut
<1>8. Count(c) = c[q[9]]
  BY <1>3, <1>7, CountIs
<1>9. c[q[9]] = n
  <2> DEFINE b == BigEndian(n, 1, Base)
             i == q[9]
             j == q[10]
  <2>1. ps[9] = b
    <3>1. 9 \in 1 .. 9
      OBVIOUS
    <3>2. Nine(f)[9] = b
      BY DEF Nine, n
    <3> QED
      BY <1>2, <3>1, <3>2, Zenon
  <2>2. n \in Width(1, Base)
    BY <1>1, BytesAre, WidthOne
  <2>3. b \in [1 .. 1 -> Bytes] /\ Number(b, Base) = n
    BY <2>2, BytesAre, WidthIs DEF Bytes
  <2>4. i \in 1 .. Len(c) + 1 /\ j \in i .. Len(c) + 1 /\ j = i + Len(ps[9])
        /\ SubSeq(c, i, j - 1) = ps[9]
    <3>1. 9 \in 1 .. n + 12 /\ 9 + 1 = 10
      BY <1>1
    <3> QED
      BY <1>4, <3>1, Zenon
  <2> HIDE DEF b, i, j
  <2>5. Len(b) = 1 /\ b[1] \in Bytes /\ b = <<b[1]>>
    <3>1. Len(b) = 1 /\ b \in Seq(Bytes)
      BY <2>3, Indexed
    <3> DEFINE x == b[1]
    <3>2. x \in Bytes
      BY <2>3
    <3> HIDE DEF x
    <3>3. <<x>> \in Seq(Bytes) /\ Len(<<x>>) = 1 /\ <<x>>[1] = x
      BY <3>2
    <3>4. b = <<x>>
      BY <3>1, <3>3, SeqEqual DEF x
    <3> QED
      BY <3>1, <3>2, <3>4 DEF x
  <2>6. n = b[1]
    <3> DEFINE x == b[1]
    <3>1. x \in Nat /\ b = <<x>>
      BY <2>5, BytesAre
    <3> HIDE DEF x
    <3>2. Number(<<x>>, Base) = x
      BY <3>1, BytesAre, NumberOne
    <3> QED
      BY <2>3, <3>1, <3>2, Zenon DEF x
  <2>7. c[i] = ps[9][1]
    <3>1. 1 \in 1 .. j - i /\ (i + 1) - 1 = i
      BY <1>3, <2>1, <2>4, <2>5, LenProperties
    <3>2. \A k \in 1 .. j - i : SubSeq(c, i, j - 1)[k] = c[(i + k) - 1]
      BY <1>3, <2>4, PartOf
    <3> QED
      BY <2>4, <3>1, <3>2
  <2> QED
    BY <2>1, <2>6, <2>7 DEF i
<1>10. Count(c) = n
  BY <1>8, <1>9
<1>11. Parts(c) = PartsOf(n)
  BY <1>10, Zenon DEF Parts, PartsOf
<1> QED
  BY <1>6, <1>10, <1>11, Zenon DEF c, n

\* Encoded fields are read as they were.
LEMMA ReadBack ==
    ASSUME NEW f \in AdoptionFields, Validate(f)
    PROVE  /\ Encode(f) \in Seq(Bytes) /\ Len(Encode(f)) >= 2
           /\ End(Encode(f), Parts(Encode(f))) = Len(Encode(f)) + 1
           /\ FieldsAt(Encode(f), Scan(Encode(f), Parts(Encode(f)))) = f
<1> DEFINE c == Encode(f)
           ps == Pieces(f)
           n == Len(f.caps)
<1>1. n \in Nat /\ f.caps \in Seq(Str) /\ \A i \in 1 .. n : f.caps[i] \in Str
      /\ Len(f.caps[i]) <= MaxField
  BY WithinLimits, LenProperties
<1>2. /\ ps \in Seq(Seq(Bytes)) /\ Len(ps) = n + 12
      /\ \A i \in 1 .. 9 : ps[i] = Nine(f)[i]
      /\ \A i \in 1 .. n : ps[9 + i] = Str16(f.caps[i])
      /\ \A i \in 1 .. 3 : ps[(9 + n) + i] = Three(f)[i]
      /\ \A k \in 1 .. n + 12 : Fits(PartsOf(n)[k], ps[k])
  BY PiecesFit
<1>3. c \in Seq(Bytes) /\ \E q : Starts(q, c, ps, Len(ps))
  BY <1>2, EncodeIs, FlatStarts
<1>4. PICK q : Starts(q, c, ps, Len(ps))
  BY <1>3
<1>5. Cut(q, c, PartsOf(n), n + 12) /\ Count(c) = n /\ Parts(c) = PartsOf(n)
  BY <1>4, EncodeCut
<1>6. /\ q[(n + 12) + 1] = Len(c) + 1
      /\ \A k \in 1 .. n + 12 :
           /\ q[k] \in 1 .. Len(c) + 1 /\ q[k + 1] \in q[k] .. Len(c) + 1
           /\ q[k + 1] = q[k] + Len(ps[k])
           /\ SubSeq(c, q[k], q[k + 1] - 1) = ps[k]
  BY <1>2, <1>4, Zenon DEF Starts
<1>7. PartsOf(n) \in Seq(PartNames) /\ Len(PartsOf(n)) = n + 12
  BY <1>1, PartsAre
<1>8. Len(c) >= 2
  <2>1. 1 \in 1 .. n + 12 /\ 2 \in 1 .. n + 12 /\ 1 + 1 = 2 /\ 2 + 1 = 3 /\ 1 \in 1 .. 9
        /\ 2 \in 1 .. 9
    BY <1>1
  <2>2. Len(ps[1]) = 1 /\ Len(ps[2]) = 1
    <3>1. Nine(f)[1] = <<DomainByte>> /\ Nine(f)[2] = <<Version>>
      BY DEF Nine
    <3>2. ps[1] = <<DomainByte>> /\ ps[2] = <<Version>>
      BY <1>2, <2>1, <3>1, Zenon
    <3>3. Len(<<DomainByte>>) = 1 /\ Len(<<Version>>) = 1
      OBVIOUS
    <3> QED
      BY <3>2, <3>3, Zenon
  <2>3. q[1] \in 1 .. Len(c) + 1 /\ q[2] = q[1] + 1 /\ q[3] = q[2] + 1
        /\ q[3] \in q[2] .. Len(c) + 1
    BY <1>6, <2>1, <2>2, Zenon
  <2>4. Len(c) \in Nat
    BY <1>3, LenProperties
  <2> HIDE DEF c
  <2> QED
    BY <2>3, <2>4
<1> HIDE DEF c, ps, n
<1> DEFINE at == Scan(c, Parts(c))
<1>9. \A k \in 1 .. (n + 12) + 1 : at[k] = q[k]
  <2> DEFINE r == PartsOf(n)
  <2>1. r \in Seq(PartNames) /\ Cut(q, c, r, Len(r)) /\ Len(r) = n + 12 /\ Parts(c) = r
    BY <1>5, <1>7, Zenon
  <2> HIDE DEF r
  <2>2. \A k \in 1 .. Len(r) + 1 : Scan(c, r)[k] = q[k]
    BY <1>3, <2>1, ScanFinds
  <2> QED
    BY <2>1, <2>2, Zenon
<1>10. End(c, Parts(c)) = Len(c) + 1
  <2>1. (n + 12) + 1 \in 1 .. (n + 12) + 1
    BY <1>1
  <2>2. at[(n + 12) + 1] = Len(c) + 1
    BY <1>6, <1>9, <2>1, Zenon
  <2> QED
    BY <1>5, <1>7, <2>2, Zenon DEF End
<1> HIDE DEF at
<1>11. \A k \in 1 .. n + 12 : at[k] \in 1 .. Len(c) + 1 /\ at[k + 1] \in at[k] .. Len(c) + 1
                              /\ SubSeq(c, at[k], at[k + 1] - 1) = ps[k]
  <2> TAKE k \in 1 .. n + 12
  <2>1. k \in 1 .. (n + 12) + 1 /\ k + 1 \in 1 .. (n + 12) + 1
    BY <1>1
  <2>2. at[k] = q[k] /\ at[k + 1] = q[k + 1]
    BY <1>9, <2>1
  <2> QED
    BY <1>6, <2>2, Zenon
<1>12. ASSUME NEW k \in 1 .. n + 12, NEW t \in Str, Len(t) <= MaxField, ps[k] = Str16(t)
       PROVE  TextAt(c, at, k) = t
  <2> DEFINE i == at[k]
             j == at[k + 1]
  <2>1. i \in 1 .. Len(c) + 1 /\ j \in i .. Len(c) + 1 /\ SubSeq(c, i, j - 1) = ps[k]
    BY <1>11
  <2>2. Fits("text", ps[k]) /\ SubSeq(ps[k], 3, Len(ps[k])) = t
    <3>1. Fits("text", Str16(t)) /\ SubSeq(Str16(t), 3, Len(Str16(t))) = t
      BY <1>12, TextIs
    <3> QED
      BY <1>12, <3>1, Zenon
  <2> HIDE DEF i, j
  <2>3. SubSeq(c, i + 2, j - 1) = SubSeq(SubSeq(c, i, j - 1), 3, Len(SubSeq(c, i, j - 1)))
    <3>1. Fits("text", SubSeq(c, i, j - 1))
      BY <2>1, <2>2, Zenon
    <3> QED
      BY <1>3, <2>1, <3>1, TextFound
  <2>4. SubSeq(c, i + 2, j - 1) = t
    BY <2>1, <2>2, <2>3, Zenon
  <2> QED
    BY <2>4 DEF TextAt, i, j
<1>13. /\ TextAt(c, at, 3) = f.device_did /\ TextAt(c, at, 4) = f.owner_did
       /\ TextAt(c, at, 7) = f.hub_relay /\ TextAt(c, at, 8) = f.hub_host
  <2>1. \A k \in {3, 4, 7, 8} : k \in 1 .. n + 12 /\ k \in 1 .. 9
    BY <1>1
  <2>2. /\ Nine(f)[3] = Str16(f.device_did) /\ Nine(f)[4] = Str16(f.owner_did)
        /\ Nine(f)[7] = Str16(f.hub_relay) /\ Nine(f)[8] = Str16(f.hub_host)
    BY DEF Nine
  <2>3. /\ ps[3] = Str16(f.device_did) /\ ps[4] = Str16(f.owner_did)
        /\ ps[7] = Str16(f.hub_relay) /\ ps[8] = Str16(f.hub_host)
    BY <1>2, <2>1, <2>2
  <2>4. \A t \in {f.device_did, f.owner_did, f.hub_relay, f.hub_host} : t \in Str
        /\ Len(t) <= MaxField
    BY WithinLimits DEF FieldTexts
  <2> QED
    BY <1>12, <2>1, <2>3, <2>4
<1>14. SubSeq(c, at[5], at[5 + 1] - 1) = f.owner_genesis_pubkey
       /\ SubSeq(c, at[6], at[6 + 1] - 1) = f.hub_endpoint_id
  <2>1. \A k \in {5, 6} : k \in 1 .. n + 12 /\ k \in 1 .. 9
    BY <1>1
  <2>2. Nine(f)[5] = f.owner_genesis_pubkey /\ Nine(f)[6] = f.hub_endpoint_id
    BY DEF Nine
  <2>3. ps[5] = f.owner_genesis_pubkey /\ ps[6] = f.hub_endpoint_id
    BY <1>2, <2>1, <2>2
  <2>4. 5 \in 1 .. n + 12 /\ 6 \in 1 .. n + 12
    BY <2>1
  <2> QED
    BY <1>11, <2>3, <2>4, Zenon
<1>15. CapsAt(c, at) = f.caps
  <2>1. \A i \in 1 .. n : TextAt(c, at, 9 + i) = f.caps[i]
    <3> TAKE i \in 1 .. n
    <3>1. 9 + i \in 1 .. n + 12
      BY <1>1
    <3> QED
      BY <1>1, <1>2, <1>12, <3>1
  <2>2. Len(Opening) = 9
    BY DEF Opening
  <2>3. CapsAt(c, at) = [k \in 1 .. n |-> TextAt(c, at, 9 + k)]
    BY <1>5, <2>2 DEF CapsAt
  <2>4. f.caps = [k \in 1 .. n |-> f.caps[k]]
    BY <1>1, LenProperties DEF n
  <2> QED
    BY <2>1, <2>3, <2>4
<1>16. ASSUME NEW i \in 1 .. 3, NEW w \in Nat, NEW m \in Width(w, Base), Three(f)[i] = BigEndian(m, w, Base)
       PROVE  Number(SubSeq(c, at[(9 + n) + i], at[((9 + n) + i) + 1] - 1), Base) = m
  <2>1. (9 + n) + i \in 1 .. n + 12
    BY <1>1
  <2>2. SubSeq(c, at[(9 + n) + i], at[((9 + n) + i) + 1] - 1) = BigEndian(m, w, Base)
    BY <1>2, <1>11, <1>16, <2>1, Zenon
  <2>3. Number(BigEndian(m, w, Base), Base) = m
    BY BytesAre, WidthIs
  <2> QED
    BY <2>2, <2>3, Zenon
<1>17. /\ Number(SubSeq(c, at[10 + n], at[(10 + n) + 1] - 1), Base) = f.roster_version
       /\ Number(SubSeq(c, at[11 + n], at[(11 + n) + 1] - 1), Base) = f.issued_at
       /\ Number(SubSeq(c, at[12 + n], at[(12 + n) + 1] - 1), Base) = f.expires_at
  <2>1. 10 + n = (9 + n) + 1 /\ 11 + n = (9 + n) + 2 /\ 12 + n = (9 + n) + 3
    BY <1>1
  <2>2. /\ Three(f)[1] = BigEndian(f.roster_version, RosterLen, Base)
        /\ Three(f)[2] = BigEndian(f.issued_at, TimeLen, Base)
        /\ Three(f)[3] = BigEndian(f.expires_at, TimeLen, Base)
    BY DEF Three
  <2>3. /\ f.roster_version \in Width(RosterLen, Base) /\ f.issued_at \in Width(TimeLen, Base)
        /\ f.expires_at \in Width(TimeLen, Base) /\ RosterLen \in Nat /\ TimeLen \in Nat
    BY ConstantsAssumption DEF AdoptionFields
  <2>4. 1 \in 1 .. 3 /\ 2 \in 1 .. 3 /\ 3 \in 1 .. 3
    OBVIOUS
  <2>5. Number(SubSeq(c, at[(9 + n) + 1], at[((9 + n) + 1) + 1] - 1), Base) = f.roster_version
    BY <1>16, <2>2, <2>3, <2>4, Zenon
  <2>6. Number(SubSeq(c, at[(9 + n) + 2], at[((9 + n) + 2) + 1] - 1), Base) = f.issued_at
    BY <1>16, <2>2, <2>3, <2>4, Zenon
  <2>7. Number(SubSeq(c, at[(9 + n) + 3], at[((9 + n) + 3) + 1] - 1), Base) = f.expires_at
    BY <1>16, <2>2, <2>3, <2>4, Zenon
  <2> QED
    BY <2>1, <2>5, <2>6, <2>7, Zenon
<1>18. FieldsAt(c, at) =
         [device_did |-> TextAt(c, at, 3), owner_did |-> TextAt(c, at, 4),
          owner_genesis_pubkey |-> SubSeq(c, at[5], at[5 + 1] - 1),
          hub_endpoint_id |-> SubSeq(c, at[6], at[6 + 1] - 1),
          hub_relay |-> TextAt(c, at, 7), hub_host |-> TextAt(c, at, 8),
          caps |-> CapsAt(c, at),
          roster_version |-> Number(SubSeq(c, at[10 + n], at[(10 + n) + 1] - 1), Base),
          issued_at |-> Number(SubSeq(c, at[11 + n], at[(11 + n) + 1] - 1), Base),
          expires_at |-> Number(SubSeq(c, at[12 + n], at[(12 + n) + 1] - 1), Base)]
  BY <1>5, Zenon DEF FieldsAt
<1>19. f = [device_did |-> f.device_did, owner_did |-> f.owner_did,
            owner_genesis_pubkey |-> f.owner_genesis_pubkey, hub_endpoint_id |-> f.hub_endpoint_id,
            hub_relay |-> f.hub_relay, hub_host |-> f.hub_host, caps |-> f.caps,
            roster_version |-> f.roster_version,
            issued_at |-> f.issued_at, expires_at |-> f.expires_at]
  BY DEF AdoptionFields
<1>20. FieldsAt(c, at) = f
  BY <1>13, <1>14, <1>15, <1>17, <1>18, <1>19, Zenon
<1> QED
  BY <1>3, <1>8, <1>10, <1>20, Zenon DEF c, at

\* What is signed is read as it was signed.
LEMMA SignedIsRead ==
    ASSUME NEW f \in AdoptionFields, Validate(f)
    PROVE  /\ Encode(f) \o Signature \in Seq(Bytes) /\ Encode(f) \o Signature # <<>>
           /\ Len(Encode(f) \o Signature) = Len(Encode(f)) + SigLen
           /\ Reads(Encode(f) \o Signature) /\ Fields(Encode(f) \o Signature) = f
<1> DEFINE c == Encode(f)
           w == Cat(c, Signature)
<1>1. /\ c \in Seq(Bytes) /\ Len(c) >= 2 /\ Len(c) \in Nat
      /\ End(c, Parts(c)) = Len(c) + 1 /\ FieldsAt(c, Scan(c, Parts(c))) = f
  BY ReadBack, LenProperties
<1>2. Signature \in Seq(Bytes) /\ Len(Signature) = SigLen /\ SigLen \in Nat
  BY ConstantsAssumption
<1> HIDE DEF c
<1>3. w \in Seq(Bytes) /\ Len(w) = Len(c) + SigLen
  <2>1. w \in Seq(Bytes)
    BY <1>1, <1>2, CatType
  <2>2. Len(w) = Len(c) + Len(Signature)
    BY <1>1, <1>2, EndOfCat
  <2> QED
    BY <1>2, <2>1, <2>2, Zenon
<1>4. SignedPart(w) = c
  <2>1. Len(w) - SigLen = Len(c) /\ 1 \in 1 .. Len(c) + 1 /\ Len(c) \in 1 - 1 .. Len(c)
    BY <1>1, <1>2, <1>3
  <2>2. SubSeq(w, 1, Len(c)) = SubSeq(c, 1, Len(c))
    BY <1>1, <1>2, <2>1, StretchOfCat
  <2>3. SubSeq(c, 1, Len(c)) = c
    BY <1>1, SubSeqFull
  <2> QED
    BY <2>1, <2>2, <2>3, Zenon DEF SignedPart
<1> HIDE DEF w
<1>5. Fields(w) = f
  BY <1>1, <1>4, Zenon DEF Fields
<1>6. Len(w) >= 2 + SigLen
  BY <1>1, <1>2, <1>3
<1>7. Reads(w)
  BY <1>1, <1>4, <1>5, <1>6, Zenon DEF Reads
<1>8. w # <<>>
  BY <1>2, <1>6
<1> QED
  BY <1>3, <1>5, <1>7, <1>8, Zenon DEF c, w, Cat

\* The bytes that encode writes are as many as it asked for.
LEMMA CapBytesIs ==
    ASSUME NEW caps \in Seq(Str)
    PROVE  \E m : /\ m[0] = 0 /\ CapBytes(caps) = m[Len(caps)]
                  /\ \A i \in 1 .. Len(caps) : m[i] = m[i - 1] + 2 + Len(caps[i])
<1> DEFINE n == Len(caps)
           Is(f) == f = [i \in 0 .. n |-> IF i = 0 THEN 0 ELSE f[i - 1] + 2 + Len(caps[i])]
           B == {k \in Nat : \E g : g[0] = 0
                /\ \A i \in 1 .. k : g[i] = g[i - 1] + 2 + Len(caps[i])}
<1>0. n \in Nat
  BY LenProperties
<1>1. 0 \in B
  <2> DEFINE g == [i \in {0} |-> 0]
  <2>1. g[0] = 0
    OBVIOUS
  <2> HIDE DEF g
  <2>2. \A i \in 1 .. 0 : g[i] = g[i - 1] + 2 + Len(caps[i])
    OBVIOUS
  <2> QED
    BY <2>1, <2>2
<1>2. ASSUME NEW k \in Nat, k \in B PROVE k + 1 \in B
  <2>1. PICK g : g[0] = 0 /\ \A i \in 1 .. k : g[i] = g[i - 1] + 2 + Len(caps[i])
    BY <1>2
  <2> DEFINE v == g[k] + 2 + Len(caps[k + 1])
             h == [i \in 0 .. k + 1 |-> IF i = k + 1 THEN v ELSE g[i]]
  <2>2. h[k + 1] = v /\ \A i \in 0 .. k : h[i] = g[i]
    OBVIOUS
  <2> HIDE DEF h
  <2>3. h[0] = 0
    BY <2>1, <2>2
  <2>4. ASSUME NEW i \in 1 .. k + 1 PROVE h[i] = h[i - 1] + 2 + Len(caps[i])
    <3>1. CASE i = k + 1
      <4>1. i - 1 = k /\ k \in 0 .. k
        BY <3>1
      <4>2. h[i - 1] = g[k]
        BY <2>2, <4>1
      <4> QED
        BY <2>2, <3>1, <4>2, Zenon
    <3>2. CASE i # k + 1
      <4>1. i \in 1 .. k /\ i \in 0 .. k /\ i - 1 \in 0 .. k
        BY <3>2
      <4> QED
        BY <2>1, <2>2, <4>1, Zenon
    <3> QED
      BY <3>1, <3>2
  <2> QED
    BY <2>3, <2>4
<1> HIDE DEF B
<1>3. Nat \subseteq B
  BY <1>1, <1>2, Everywhere
<1>4. PICK g : g[0] = 0 /\ \A i \in 1 .. n : g[i] = g[i - 1] + 2 + Len(caps[i])
  BY <1>0, <1>3 DEF B
<1>5. \E f : Is(f)
  <2> DEFINE f == [i \in 0 .. n |-> g[i]]
  <2>0. \A i \in 0 .. n : f[i] = g[i]
    OBVIOUS
  <2>1. f = [i \in 0 .. n |-> f[i]]
    OBVIOUS
  <2> HIDE DEF f
  <2>2. \A i \in 0 .. n : f[i] = IF i = 0 THEN 0 ELSE f[i - 1] + 2 + Len(caps[i])
    <3> TAKE i \in 0 .. n
    <3>1. CASE i = 0
      BY <1>4, <2>0, <3>1
    <3>2. CASE i # 0
      <4>1. i \in 1 .. n /\ i - 1 \in 0 .. n
        BY <1>0, <3>2
      <4> QED
        BY <1>4, <2>0, <3>2, <4>1, Zenon
    <3> QED
      BY <3>1, <3>2
  <2>3. Is(f)
    BY <2>1, <2>2
  <2> QED
    BY <2>3
<1> DEFINE m == CHOOSE f : Is(f)
<1>6. CapBytes(caps) = m[n]
  BY DEF CapBytes
<1>7. Is(m)
  <2> HIDE DEF Is
  <2> QED
    BY <1>5
<1> HIDE DEF m
<1>8. \A i \in 0 .. n : m[i] = IF i = 0 THEN 0 ELSE m[i - 1] + 2 + Len(caps[i])
  <2> DEFINE e == [i \in 0 .. n |-> IF i = 0 THEN 0 ELSE m[i - 1] + 2 + Len(caps[i])]
  <2>1. \A i \in 0 .. n : e[i] = IF i = 0 THEN 0 ELSE m[i - 1] + 2 + Len(caps[i])
    OBVIOUS
  <2>2. m = e
    BY <1>7, Zenon
  <2> QED
    BY <2>1, <2>2, Zenon
<1>9. m[0] = 0 /\ \A i \in 1 .. n : m[i] = m[i - 1] + 2 + Len(caps[i])
  <2>1. 0 \in 0 .. n /\ \A i \in 1 .. n : i \in 0 .. n /\ i # 0
    BY <1>0
  <2> QED
    BY <1>8, <2>1, Zenon
<1> QED
  BY <1>6, <1>9, Zenon

\* canonical_len is the length of what encode writes.
LEMMA EncodeLength ==
    ASSUME NEW f \in AdoptionFields, Validate(f)
    PROVE  Len(Encode(f)) = CanonicalLen(f)
<1> DEFINE c == Encode(f)
           ps == Pieces(f)
           n == Len(f.caps)
<1>1. n \in Nat /\ f.caps \in Seq(Str) /\ \A i \in 1 .. n : f.caps[i] \in Str
      /\ Len(f.caps[i]) <= MaxField
  BY WithinLimits, LenProperties
<1>2. /\ ps \in Seq(Seq(Bytes)) /\ Len(ps) = n + 12
      /\ \A i \in 1 .. 9 : ps[i] = Nine(f)[i]
      /\ \A i \in 1 .. n : ps[9 + i] = Str16(f.caps[i])
      /\ \A i \in 1 .. 3 : ps[(9 + n) + i] = Three(f)[i]
  BY PiecesFit
<1>3. c \in Seq(Bytes) /\ \E q : Starts(q, c, ps, Len(ps))
  BY <1>2, EncodeIs, FlatStarts
<1>4. PICK q : Starts(q, c, ps, Len(ps))
  BY <1>3
<1>5. /\ q[1] = 1 /\ q[(n + 12) + 1] = Len(c) + 1
      /\ \A k \in 1 .. n + 12 : q[k + 1] = q[k] + Len(ps[k])
  BY <1>2, <1>4, Zenon DEF Starts
<1> DEFINE d == Len(f.device_did)
           e == Len(f.owner_did)
           r == Len(f.hub_relay)
           h == Len(f.hub_host)
<1>6. /\ d \in Nat /\ e \in Nat /\ r \in Nat /\ h \in Nat
      /\ Len(Nine(f)[1]) = 1 /\ Len(Nine(f)[2]) = 1
      /\ Len(Nine(f)[3]) = 2 + d /\ Len(Nine(f)[4]) = 2 + e
      /\ Len(Nine(f)[5]) = OwnerKeyLen /\ Len(Nine(f)[6]) = HubLen
      /\ Len(Nine(f)[7]) = 2 + r /\ Len(Nine(f)[8]) = 2 + h
      /\ Len(Nine(f)[9]) = 1
  <2>1. \A t \in FieldTexts(f) : Len(t) \in Nat /\ Len(Str16(t)) = 2 + Len(t)
    <3> TAKE t \in FieldTexts(f)
    <3>1. t \in Str /\ Len(t) <= MaxField
      BY WithinLimits
    <3> QED
      BY <3>1, TextIs, LenProperties DEF Str
  <2>2. /\ d \in Nat /\ e \in Nat /\ r \in Nat /\ h \in Nat
        /\ Len(Str16(f.device_did)) = 2 + d /\ Len(Str16(f.owner_did)) = 2 + e
        /\ Len(Str16(f.hub_relay)) = 2 + r /\ Len(Str16(f.hub_host)) = 2 + h
    BY <2>1 DEF FieldTexts
  <2>3. /\ Nine(f)[1] = <<DomainByte>> /\ Nine(f)[2] = <<Version>>
        /\ Nine(f)[3] = Str16(f.device_did) /\ Nine(f)[4] = Str16(f.owner_did)
        /\ Nine(f)[7] = Str16(f.hub_relay) /\ Nine(f)[8] = Str16(f.hub_host)
    BY DEF Nine
  <2>4. Len(<<DomainByte>>) = 1 /\ Len(<<Version>>) = 1
    OBVIOUS
  <2>5. Len(Nine(f)[5]) = OwnerKeyLen /\ Len(Nine(f)[6]) = HubLen /\ Len(Nine(f)[9]) = 1
    <3>0. 5 \in 1 .. 9 /\ 6 \in 1 .. 9 /\ 9 \in 1 .. 9
      OBVIOUS
    <3>1. \A i \in 1 .. 9 : Fits(Opening[i], Nine(f)[i])
      BY NineFit
    <3>2. Opening[5] = "key" /\ Opening[6] = "hub" /\ Opening[9] = "count"
      BY DEF Opening
    <3>3. Fits("key", Nine(f)[5]) /\ Fits("hub", Nine(f)[6]) /\ Fits("count", Nine(f)[9])
      BY <3>0, <3>1, <3>2, Zenon
    <3> QED
      BY <3>3, WidthsAre DEF Fits
  <2> QED
    BY <2>2, <2>3, <2>4, <2>5, Zenon
<1>7. Len(Three(f)[1]) = RosterLen /\ Len(Three(f)[2]) = TimeLen /\ Len(Three(f)[3]) = TimeLen
  <2>1. \A i \in 1 .. 3 : Fits(Closing[i], Three(f)[i])
    BY ThreeFit
  <2>2. Closing[1] = "roster" /\ Closing[2] = "time" /\ Closing[3] = "time"
    BY DEF Closing
  <2>3. 1 \in 1 .. 3 /\ 2 \in 1 .. 3 /\ 3 \in 1 .. 3
    OBVIOUS
  <2>4. Fits("roster", Three(f)[1]) /\ Fits("time", Three(f)[2]) /\ Fits("time", Three(f)[3])
    BY <2>1, <2>2, <2>3, Zenon
  <2> QED
    BY <2>4, WidthsAre DEF Fits
<1>8. PICK m : /\ m[0] = 0 /\ CapBytes(f.caps) = m[n]
               /\ \A i \in 1 .. n : m[i] = m[i - 1] + 2 + Len(f.caps[i])
  BY <1>1, CapBytesIs
<1>9. OwnerKeyLen \in Nat /\ HubLen \in Nat /\ RosterLen \in Nat /\ TimeLen \in Nat
  BY ConstantsAssumption
<1>10. \A i \in 1 .. n : Len(f.caps[i]) \in Nat /\ Len(Str16(f.caps[i])) = 2 + Len(f.caps[i])
  BY <1>1, TextIs, LenProperties DEF Str
<1>11. CanonicalLen(f) = 2 + 2 + d + 2 + e + OwnerKeyLen + HubLen + 2 + r + 2 + h
                         + 1 + m[n] + RosterLen + 2 * TimeLen
  BY <1>8, Zenon DEF CanonicalLen
<1> HIDE DEF c, ps, n, d, e, r, h
<1> DEFINE s == 2 + 2 + d + 2 + e + OwnerKeyLen + HubLen + 2 + r + 2 + h + 1
<1>12. q[10] = s + 1 /\ s \in Nat
  <2>1. /\ Len(ps[1]) = 1 /\ Len(ps[2]) = 1 /\ Len(ps[3]) = 2 + d /\ Len(ps[4]) = 2 + e
        /\ Len(ps[5]) = OwnerKeyLen /\ Len(ps[6]) = HubLen
        /\ Len(ps[7]) = 2 + r /\ Len(ps[8]) = 2 + h /\ Len(ps[9]) = 1
    <3>1. \A i \in {1, 2, 3, 4, 5, 6, 7, 8, 9} : i \in 1 .. 9
      OBVIOUS
    <3> QED
      BY <1>2, <1>6, <3>1
  <2>2. /\ q[2] = q[1] + Len(ps[1]) /\ q[3] = q[2] + Len(ps[2]) /\ q[4] = q[3] + Len(ps[3])
        /\ q[5] = q[4] + Len(ps[4]) /\ q[6] = q[5] + Len(ps[5]) /\ q[7] = q[6] + Len(ps[6])
        /\ q[8] = q[7] + Len(ps[7]) /\ q[9] = q[8] + Len(ps[8]) /\ q[10] = q[9] + Len(ps[9])
    <3>1. \A k \in {1, 2, 3, 4, 5, 6, 7, 8, 9} : k \in 1 .. n + 12
      BY <1>1
    <3>2. 1 + 1 = 2 /\ 2 + 1 = 3 /\ 3 + 1 = 4 /\ 4 + 1 = 5 /\ 5 + 1 = 6 /\ 6 + 1 = 7 /\ 7 + 1 = 8
          /\ 8 + 1 = 9 /\ 9 + 1 = 10
      OBVIOUS
    <3> QED
      BY <1>5, <3>1, <3>2, Zenon
  <2>3. /\ q[2] = q[1] + 1 /\ q[3] = q[2] + 1 /\ q[4] = q[3] + (2 + d) /\ q[5] = q[4] + (2 + e)
        /\ q[6] = q[5] + OwnerKeyLen /\ q[7] = q[6] + HubLen
        /\ q[8] = q[7] + (2 + r) /\ q[9] = q[8] + (2 + h) /\ q[10] = q[9] + 1
    BY <2>1, <2>2, Zenon
  <2> QED
    BY <1>5, <1>6, <1>9, <2>3
<1> HIDE DEF s
<1>13. \A i \in 0 .. n : q[10 + i] = (s + 1) + m[i] /\ m[i] \in Nat
  <2> DEFINE B == {i \in Nat : i <= n => q[10 + i] = (s + 1) + m[i] /\ m[i] \in Nat}
  <2>1. 0 \in B
    BY <1>8, <1>12
  <2>2. ASSUME NEW i \in Nat, i \in B PROVE i + 1 \in B
    <3> SUFFICES ASSUME i + 1 <= n
                 PROVE  q[10 + (i + 1)] = (s + 1) + m[i + 1] /\ m[i + 1] \in Nat
      OBVIOUS
    <3> DEFINE x == Len(f.caps[i + 1])
    <3>1. i + 1 \in 1 .. n /\ (i + 1) - 1 = i /\ 10 + i \in 1 .. n + 12
          /\ (10 + i) + 1 = 10 + (i + 1)
          /\ 9 + (i + 1) = 10 + i
      BY <1>1
    <3>2. q[10 + i] = (s + 1) + m[i] /\ m[i] \in Nat
      BY <1>1, <2>2
    <3>3. m[i + 1] = m[i] + 2 + x
      BY <1>8, <3>1
    <3>4. Len(ps[10 + i]) = 2 + x /\ x \in Nat
      BY <1>2, <1>10, <3>1
    <3>5. q[10 + (i + 1)] = q[10 + i] + (2 + x)
      BY <1>5, <3>1, <3>4
    <3> DEFINE y == m[i]
               z == q[10 + i]
    <3>6. z = (s + 1) + y /\ y \in Nat /\ m[i + 1] = y + 2 + x /\ x \in Nat
          /\ q[10 + (i + 1)] = z + (2 + x) /\ s \in Nat
      BY <1>12, <3>2, <3>3, <3>4, <3>5, Zenon
    <3> HIDE DEF x, y, z
    <3> QED
      BY <3>6
  <2> HIDE DEF B
  <2>3. Nat \subseteq B
    BY <2>1, <2>2, Everywhere
  <2> TAKE i \in 0 .. n
  <2>4. i \in Nat /\ i <= n /\ i \in B
    BY <1>1, <2>3
  <2> QED
    BY <2>4 DEF B
<1>14. q[(n + 12) + 1] = (s + 1) + m[n] + RosterLen + TimeLen + TimeLen
  <2>1. /\ (9 + n) + 1 = 10 + n /\ (9 + n) + 2 = 11 + n /\ (9 + n) + 3 = 12 + n
        /\ (10 + n) + 1 = 11 + n /\ (11 + n) + 1 = 12 + n /\ (n + 12) + 1 = 13 + n
           /\ (12 + n) + 1 = 13 + n
        /\ 10 + n \in 1 .. n + 12 /\ 11 + n \in 1 .. n + 12 /\ 12 + n \in 1 .. n + 12
           /\ n \in 0 .. n
    BY <1>1
  <2>2. Len(ps[10 + n]) = RosterLen /\ Len(ps[11 + n]) = TimeLen /\ Len(ps[12 + n]) = TimeLen
    <3>1. 1 \in 1 .. 3 /\ 2 \in 1 .. 3 /\ 3 \in 1 .. 3
      OBVIOUS
    <3> QED
      BY <1>2, <1>7, <2>1, <3>1, Zenon
  <2>3. q[11 + n] = q[10 + n] + RosterLen /\ q[12 + n] = q[11 + n] + TimeLen
        /\ q[13 + n] = q[12 + n] + TimeLen
    BY <1>5, <2>1, <2>2, Zenon
  <2>4. q[10 + n] = (s + 1) + m[n] /\ m[n] \in Nat
    BY <1>13, <2>1
  <2>5. q[13 + n] = (s + 1) + m[n] + RosterLen + TimeLen + TimeLen
    BY <1>9, <1>12, <2>3, <2>4
  <2> QED
    BY <2>1, <2>5, Zenon
<1>15. m[n] \in Nat
  BY <1>1, <1>13
<1>16. Len(c) \in Nat
  BY <1>3, LenProperties
<1>17. Len(c) = s + m[n] + RosterLen + TimeLen + TimeLen
  <2> DEFINE x == m[n]
             y == Len(c)
  <2>1. y + 1 = (s + 1) + x + RosterLen + TimeLen + TimeLen
    BY <1>5, <1>14, Zenon
  <2>2. x \in Nat /\ y \in Nat /\ s \in Nat
    BY <1>12, <1>15, <1>16
  <2> HIDE DEF x, y
  <2>3. y = s + x + RosterLen + TimeLen + TimeLen
    BY <1>9, <2>1, <2>2
  <2> QED
    BY <2>3 DEF x, y
<1>18. CanonicalLen(f) = s + m[n] + RosterLen + 2 * TimeLen
  BY <1>11, Zenon DEF s
<1> QED
  BY <1>9, <1>12, <1>15, <1>17, <1>18 DEF c

-----------------------------------------------------------------------------
(* What is read is encoded as it was.                                       *)

\* The nine parts up to the count.
LEMMA OpeningIs ==
    /\ Opening \in Seq(PartNames) /\ Len(Opening) = 9
    /\ Opening[1] = "domain" /\ Opening[2] = "version" /\ Opening[3] = "text"
    /\ Opening[4] = "text" /\ Opening[5] = "key" /\ Opening[6] = "hub"
    /\ Opening[7] = "text" /\ Opening[8] = "text" /\ Opening[9] = "count"
BY DEF Opening, PartNames

\* A part of fixed width.
LEMMA FixedFound ==
    ASSUME NEW c \in Seq(Bytes), NEW i \in 1 .. Len(c) + 1, NEW j \in i .. Len(c) + 1,
           NEW part \in PartNames \ {"text"}, Fits(part, SubSeq(c, i, j - 1))
    PROVE  /\ SubSeq(c, i, j - 1) \in [1 .. Widths[part] -> Bytes]
           /\ j = i + Widths[part]
           /\ Number(SubSeq(c, i, j - 1), Base) \in Width(Widths[part], Base)
           /\ BigEndian(Number(SubSeq(c, i, j - 1), Base), Widths[part], Base) = SubSeq(c, i, j - 1)
<1> DEFINE p == SubSeq(c, i, j - 1)
           w == Widths[part]
<1>1. p \in Seq(Bytes) /\ Len(p) = j - i
  BY PartOf
<1>2. Len(p) = w /\ w \in Nat
  BY WidthsAre DEF Fits
<1> HIDE DEF p, w
<1>3. p \in [1 .. w -> Bytes]
  BY <1>1, <1>2, LenProperties
<1>4. j = i + w
  BY <1>1, <1>2, LenProperties
<1>5. p \in [1 .. w -> 0 .. Base - 1]
  BY <1>3 DEF Bytes
<1>6. Number(p, Base) \in Width(w, Base)
  BY <1>5 DEF Width
<1>7. BigEndian(Number(p, Base), w, Base) = p
  BY <1>2, <1>5, BytesAre, BigEndianIs
<1> QED
  BY <1>3, <1>4, <1>6, <1>7 DEF p, w

\* The count is a number.
LEMMA CountType ==
    ASSUME NEW c \in Seq(Bytes)
    PROVE  Count(c) \in Nat
<1>1. CASE End(c, Opening) = Broken
  BY <1>1 DEF Count
<1>2. CASE End(c, Opening) # Broken
  <2> DEFINE at == Scan(c, Opening)
             i == at[9]
             j == at[9 + 1]
  <2>1. (\A k \in 1 .. 10 : at[k] \in 1 .. Len(c) + 1)
        /\ \A k \in 1 .. 9 : at[k + 1] \in at[k] .. Len(c) + 1
           /\ Fits(Opening[k], SubSeq(c, at[k], at[k + 1] - 1))
    <3>1. /\ \A k \in 1 .. Len(Opening) + 1 : at[k] \in 1 .. Len(c) + 1
          /\ \A k \in 1 .. Len(Opening) :
               at[k + 1] \in at[k] .. Len(c) + 1
               /\ Fits(Opening[k], SubSeq(c, at[k], at[k + 1] - 1))
      BY <1>2, OpeningIs, ScanFits
    <3>2. Len(Opening) = 9 /\ 9 + 1 = 10
      BY OpeningIs
    <3> HIDE DEF at
    <3> QED
      BY <3>1, <3>2, Zenon
  <2>2. Count(c) = c[i]
    BY <1>2, OpeningIs DEF Count
  <2> HIDE DEF at
  <2>3. i \in 1 .. Len(c) + 1 /\ j \in i .. Len(c) + 1 /\ Fits("count", SubSeq(c, i, j - 1))
    <3>1. 9 \in 1 .. 10 /\ 9 \in 1 .. 9
      OBVIOUS
    <3> QED
      BY <2>1, <3>1, OpeningIs, Zenon
  <2> HIDE DEF i, j
  <2>4. j = i + 1
    <3>1. "count" \in PartNames \ {"text"} /\ Widths["count"] = 1
      BY WidthsAre DEF PartNames
    <3>2. j = i + Widths["count"]
      BY <2>3, <3>1, FixedFound
    <3> QED
      BY <3>1, <3>2, Zenon
  <2>5. Len(c) \in Nat
    BY LenProperties
  <2>6. i \in 1 .. Len(c)
    BY <2>3, <2>4, <2>5
  <2>7. c[i] \in Bytes
    BY <2>6, ElementOfSeq
  <2> QED
    BY <2>2, <2>7, BytesAre
<1> QED
  BY <1>1, <1>2

\* Stretches that follow one another make up the whole.
LEMMA FlatOfParts ==
    ASSUME NEW c \in Seq(Bytes), NEW n \in Nat, NEW at,
           at[1] = 1, at[n + 1] = Len(c) + 1,
           \A k \in 1 .. n : at[k] \in 1 .. Len(c) + 1 /\ at[k + 1] \in at[k] .. Len(c) + 1
    PROVE  /\ [k \in 1 .. n |-> SubSeq(c, at[k], at[k + 1] - 1)] \in Seq(Seq(Bytes))
           /\ Len([k \in 1 .. n |-> SubSeq(c, at[k], at[k + 1] - 1)]) = n
           /\ Flat([k \in 1 .. n |-> SubSeq(c, at[k], at[k + 1] - 1)]) = c
<1> DEFINE D == Seq(Bytes)
           ps == [k \in 1 .. n |-> SubSeq(c, at[k], at[k + 1] - 1)]
           g == [k \in 0 .. n |-> SubSeq(c, 1, at[k + 1] - 1)]
<1>0. Len(c) \in Nat
  BY LenProperties
<1>1. \A k \in 1 .. n : ps[k] = SubSeq(c, at[k], at[k + 1] - 1)
  OBVIOUS
<1>2. \A k \in 0 .. n : g[k] = SubSeq(c, 1, at[k + 1] - 1)
  OBVIOUS
<1>3. ps \in Seq(D) /\ Len(ps) = n
  <2>1. \A k \in 1 .. n : SubSeq(c, at[k], at[k + 1] - 1) \in D
    BY PartOf
  <2> HIDE DEF D
  <2>2. ps \in [1 .. n -> D]
    BY <2>1
  <2> HIDE DEF ps
  <2> QED
    BY <2>2, Indexed
<1> HIDE DEF ps, g
<1>4. \A k \in 0 .. n : at[k + 1] \in 1 .. Len(c) + 1
  <2> TAKE k \in 0 .. n
  <2>1. CASE k = 0
    BY <1>0, <2>1
  <2>2. CASE k # 0
    <3>1. k \in 1 .. n
      BY <2>2
    <3>2. at[k] \in 1 .. Len(c) + 1 /\ at[k + 1] \in at[k] .. Len(c) + 1
      BY <3>1
    <3> QED
      BY <1>0, <3>2
  <2> QED
    BY <2>1, <2>2
<1>5. \A k \in 0 .. n : g[k] \in D
  <2> TAKE k \in 0 .. n
  <2>1. 1 \in 1 .. Len(c) + 1 /\ at[k + 1] \in 1 .. Len(c) + 1
    BY <1>0, <1>4
  <2>2. SubSeq(c, 1, at[k + 1] - 1) \in Seq(Bytes)
    BY <2>1, PartOf
  <2> QED
    BY <1>2, <2>2, Zenon
<1>6. g[0] = <<>>
  <2>1. at[0 + 1] = 1 /\ 0 \in 0 .. n
    OBVIOUS
  <2>2. g[0] = SubSeq(c, 1, 1 - 1)
    BY <1>2, <2>1, Zenon
  <2>3. SubSeq(c, 1, 1 - 1) = <<>>
    BY SubSeqEmpty
  <2> QED
    BY <2>2, <2>3
<1>7. ASSUME NEW k \in 1 .. n PROVE g[k] = Cat(g[k - 1], ps[k])
  <2> DEFINE i == at[k]
             j == at[k + 1]
  <2>1. k \in 0 .. n /\ k - 1 \in 0 .. n /\ (k - 1) + 1 = k
    OBVIOUS
  <2>2. g[k] = SubSeq(c, 1, j - 1) /\ g[k - 1] = SubSeq(c, 1, i - 1) /\ ps[k] = SubSeq(c, i, j - 1)
    BY <1>1, <1>2, <2>1, Zenon
  <2>3. i \in 1 .. Len(c) + 1 /\ j \in i .. Len(c) + 1
    OBVIOUS
  <2> HIDE DEF i, j
  <2>4. 1 \in 1 .. Len(c) + 1 /\ i - 1 \in 1 - 1 .. Len(c) /\ j - 1 \in i - 1 .. Len(c)
        /\ (i - 1) + 1 = i
    BY <1>0, <2>3
  <2>5. SubSeq(c, 1, i - 1) \o SubSeq(c, (i - 1) + 1, j - 1) = SubSeq(c, 1, j - 1)
    BY <2>4, ConcatAdjacentSubSeq
  <2> QED
    BY <2>2, <2>4, <2>5, Zenon DEF Cat
<1>8. Joined(g, ps, n, Bytes)
  BY <1>5, <1>6, <1>7 DEF Joined
<1>9. Flat(ps) = g[n]
  BY <1>3, <1>8, FlatIs
<1>10. g[n] = c
  <2>1. n \in 0 .. n /\ at[n + 1] - 1 = Len(c)
    BY <1>0
  <2>2. SubSeq(c, 1, Len(c)) = c
    BY SubSeqFull
  <2> QED
    BY <1>2, <2>1, <2>2, Zenon
<1> QED
  BY <1>3, <1>9, <1>10 DEF ps

\* What is read is the encoding of the fields it is read as.
LEMMA ReadingIsEncoding ==
    ASSUME NEW c \in Seq(Bytes), End(c, Parts(c)) = Len(c) + 1,
           Validate(FieldsAt(c, Scan(c, Parts(c))))
    PROVE  /\ FieldsAt(c, Scan(c, Parts(c))) \in AdoptionFields
           /\ Encode(FieldsAt(c, Scan(c, Parts(c)))) = c
<1> DEFINE n == Count(c)
           r == Parts(c)
           at == Scan(c, r)
           f == FieldsAt(c, at)
<1>1. n \in Nat /\ r = PartsOf(n) /\ Len(c) \in Nat
  BY CountType, LenProperties DEF Parts, PartsOf
<1>2. /\ r \in Seq(PartNames) /\ Len(r) = n + 12
      /\ \A i \in 1 .. 9 : r[i] = Opening[i]
      /\ \A i \in 1 .. n : r[9 + i] = "text"
      /\ \A i \in 1 .. 3 : r[(9 + n) + i] = Closing[i]
  <2> DEFINE p == PartsOf(n)
  <2>1. /\ p \in Seq(PartNames) /\ Len(p) = n + 12
        /\ \A i \in 1 .. 9 : p[i] = Opening[i]
        /\ \A i \in 1 .. n : p[9 + i] = "text"
        /\ \A i \in 1 .. 3 : p[(9 + n) + i] = Closing[i]
    <3> HIDE DEF n
    <3> QED
      BY <1>1, PartsAre
  <2> QED
    BY <1>1, <2>1, Zenon
<1>3. End(c, r) # Broken /\ End(c, r) = Len(c) + 1
  <2> HIDE DEF r
  <2> QED
    BY <1>1 DEF Broken, r
<1> HIDE DEF n, r
<1>4. /\ \A k \in 1 .. (n + 12) + 1 : at[k] \in 1 .. Len(c) + 1
      /\ \A k \in 1 .. n + 12 :
            at[k + 1] \in at[k] .. Len(c) + 1 /\ Fits(r[k], SubSeq(c, at[k], at[k + 1] - 1))
  <2>1. /\ \A k \in 1 .. Len(r) + 1 : at[k] \in 1 .. Len(c) + 1
        /\ \A k \in 1 .. Len(r) :
              at[k + 1] \in at[k] .. Len(c) + 1 /\ Fits(r[k], SubSeq(c, at[k], at[k + 1] - 1))
    BY <1>2, <1>3, ScanFits
  <2> HIDE DEF at
  <2> QED
    BY <1>2, <2>1, Zenon
<1>5. at[1] = 1 /\ at[(n + 12) + 1] = Len(c) + 1
  <2>1. Scanned(at, c, r, Len(r))
    BY <1>1, <1>2, ScanIs
  <2>2. at[1] = 1
    BY <2>1 DEF Scanned
  <2>3. at[Len(r) + 1] = Len(c) + 1
    BY <1>3, Zenon DEF End
  <2> HIDE DEF at
  <2> QED
    BY <1>2, <2>2, <2>3, Zenon
<1>v. Validate(f)
  BY DEF r
<1>6. Count(c) = n
  BY DEF n
<1>7. f = [device_did |-> TextAt(c, at, 3), owner_did |-> TextAt(c, at, 4),
          owner_genesis_pubkey |-> SubSeq(c, at[5], at[5 + 1] - 1),
          hub_endpoint_id |-> SubSeq(c, at[6], at[6 + 1] - 1),
          hub_relay |-> TextAt(c, at, 7), hub_host |-> TextAt(c, at, 8),
          caps |-> CapsAt(c, at),
          roster_version |-> Number(SubSeq(c, at[10 + n], at[(10 + n) + 1] - 1), Base),
          issued_at |-> Number(SubSeq(c, at[11 + n], at[(11 + n) + 1] - 1), Base),
          expires_at |-> Number(SubSeq(c, at[12 + n], at[(12 + n) + 1] - 1), Base)]
  BY <1>6, Zenon DEF FieldsAt
<1>8. CapsAt(c, at) = [k \in 1 .. n |-> TextAt(c, at, 9 + k)]
  BY <1>6, OpeningIs DEF CapsAt
<1> HIDE DEF at, f
<1> DEFINE raw(k) == SubSeq(c, at[k], at[k + 1] - 1)
           ps == [k \in 1 .. n + 12 |-> raw(k)]
<1>9. \A k \in 1 .. n + 12 : at[k] \in 1 .. Len(c) + 1
  <2>1. \A k \in 1 .. n + 12 : k \in 1 .. (n + 12) + 1
    BY <1>1
  <2> QED
    BY <1>4, <2>1
<1>10. ps \in Seq(Seq(Bytes)) /\ Len(ps) = n + 12 /\ Flat(ps) = c
  <2> DEFINE m == n + 12
  <2>1. m \in Nat /\ at[1] = 1 /\ at[m + 1] = Len(c) + 1
        /\ \A k \in 1 .. m : at[k] \in 1 .. Len(c) + 1 /\ at[k + 1] \in at[k] .. Len(c) + 1
    <3>1. m \in Nat
      BY <1>1
    <3> QED
      BY <1>4, <1>5, <1>9, <3>1, Zenon
  <2> HIDE DEF m
  <2>2. /\ [k \in 1 .. m |-> SubSeq(c, at[k], at[k + 1] - 1)] \in Seq(Seq(Bytes))
        /\ Len([k \in 1 .. m |-> SubSeq(c, at[k], at[k + 1] - 1)]) = m
        /\ Flat([k \in 1 .. m |-> SubSeq(c, at[k], at[k + 1] - 1)]) = c
    BY <2>1, FlatOfParts
  <2> QED
    BY <2>2, Zenon DEF m
<1>11. \A k \in 1 .. n + 12 : ps[k] = raw(k)
  OBVIOUS
<1> HIDE DEF ps
\* the texts
<1>12. ASSUME NEW k \in 1 .. n + 12, r[k] = "text"
       PROVE  TextAt(c, at, k) \in Str /\ Str16(TextAt(c, at, k)) = raw(k)
  <2> DEFINE i == at[k]
             j == at[k + 1]
  <2>1. i \in 1 .. Len(c) + 1 /\ j \in i .. Len(c) + 1 /\ Fits("text", SubSeq(c, i, j - 1))
    BY <1>4, <1>9, <1>12, Zenon
  <2> HIDE DEF i, j
  <2>2. SubSeq(c, i + 2, j - 1) \in Str /\ Str16(SubSeq(c, i + 2, j - 1)) = SubSeq(c, i, j - 1)
    BY <2>1, TextFound
  <2> QED
    BY <2>2, Zenon DEF TextAt, i, j
<1>13. ASSUME NEW k \in 1 .. n + 12, r[k] \in PartNames \ {"text"}
       PROVE  /\ raw(k) \in [1 .. Widths[r[k]] -> Bytes] /\ at[k + 1] = at[k] + Widths[r[k]]
              /\ Number(raw(k), Base) \in Width(Widths[r[k]], Base)
              /\ BigEndian(Number(raw(k), Base), Widths[r[k]], Base) = raw(k)
  <2> DEFINE i == at[k]
             j == at[k + 1]
             part == r[k]
  <2>1. i \in 1 .. Len(c) + 1 /\ j \in i .. Len(c) + 1 /\ Fits(part, SubSeq(c, i, j - 1))
    BY <1>4, <1>9, Zenon
  <2>2. part \in PartNames \ {"text"}
    BY <1>13
  <2> HIDE DEF i, j, part
  <2>3. /\ SubSeq(c, i, j - 1) \in [1 .. Widths[part] -> Bytes]
        /\ j = i + Widths[part]
        /\ Number(SubSeq(c, i, j - 1), Base) \in Width(Widths[part], Base)
        /\ BigEndian(Number(SubSeq(c, i, j - 1), Base), Widths[part], Base) = SubSeq(c, i, j - 1)
    BY <2>1, <2>2, FixedFound
  <2> QED
    BY <2>3, Zenon DEF i, j, part
\* the parts in front
<1>14. \A k \in 1 .. 9 : k \in 1 .. n + 12 /\ r[k] = Opening[k]
  BY <1>1, <1>2
<1>15. /\ 1 \in 1 .. 9 /\ 2 \in 1 .. 9 /\ 3 \in 1 .. 9 /\ 4 \in 1 .. 9 /\ 5 \in 1 .. 9
       /\ 6 \in 1 .. 9 /\ 7 \in 1 .. 9 /\ 8 \in 1 .. 9 /\ 9 \in 1 .. 9
  OBVIOUS
<1>16. /\ \A k \in {3, 4, 7, 8} : TextAt(c, at, k) \in Str /\ Str16(TextAt(c, at, k)) = raw(k)
  BY <1>12, <1>14, <1>15, OpeningIs
<1>17. raw(5) \in [1 .. OwnerKeyLen -> Bytes] /\ raw(6) \in [1 .. HubLen -> Bytes]
  <2>1. r[5] = "key" /\ r[6] = "hub" /\ "key" \in PartNames \ {"text"}
        /\ "hub" \in PartNames \ {"text"}
    BY <1>14, <1>15, OpeningIs DEF PartNames
  <2>2. Widths["key"] = OwnerKeyLen /\ Widths["hub"] = HubLen
    BY WidthsAre
  <2> QED
    BY <1>13, <1>14, <1>15, <2>1, <2>2, Zenon
<1>18. raw(1) = <<DomainByte>> /\ raw(2) = <<Version>>
  <2>1. /\ Fits("domain", raw(1)) /\ Fits("version", raw(2))
    BY <1>4, <1>14, <1>15, OpeningIs, Zenon
  <2>2. raw(1) \in Seq(Bytes) /\ raw(2) \in Seq(Bytes)
    <3>1. 1 \in 1 .. n + 12 /\ 2 \in 1 .. n + 12
      BY <1>1
    <3>2. ps[1] = raw(1) /\ ps[2] = raw(2)
      BY <1>11, <3>1, Zenon
    <3>3. ps[1] \in Seq(Bytes) /\ ps[2] \in Seq(Bytes)
      BY <1>10, <3>1, ElementOfSeq
    <3> QED
      BY <3>2, <3>3, Zenon
  <2>3. Len(raw(1)) = 1 /\ raw(1)[1] = DomainByte /\ Len(raw(2)) = 1 /\ raw(2)[1] = Version
    BY <2>1, WidthsAre DEF Fits
  <2> HIDE DEF raw
  <2>4. /\ <<DomainByte>> \in Seq(Bytes) /\ Len(<<DomainByte>>) = 1
           /\ <<DomainByte>>[1] = DomainByte
        /\ <<Version>> \in Seq(Bytes) /\ Len(<<Version>>) = 1 /\ <<Version>>[1] = Version
    BY ConstantsAssumption
  <2>5. raw(1) = <<DomainByte>>
    BY <2>2, <2>3, <2>4, SeqEqual
  <2>6. raw(2) = <<Version>>
    BY <2>2, <2>3, <2>4, SeqEqual
  <2> QED
    BY <2>5, <2>6
<1>19. BigEndian(n, 1, Base) = raw(9)
  <2>1. r[9] = "count" /\ "count" \in PartNames \ {"text"} /\ Widths["count"] = 1
    BY <1>14, <1>15, OpeningIs, WidthsAre DEF PartNames
  <2>2. raw(9) \in [1 .. 1 -> Bytes] /\ BigEndian(Number(raw(9), Base), 1, Base) = raw(9)
        /\ at[9 + 1] = at[9] + 1
    <3>1. 9 \in 1 .. n + 12
      BY <1>1
    <3>2. r[9] \in PartNames \ {"text"} /\ Widths[r[9]] = 1
      BY <2>1
    <3>3. /\ raw(9) \in [1 .. Widths[r[9]] -> Bytes] /\ at[9 + 1] = at[9] + Widths[r[9]]
          /\ BigEndian(Number(raw(9), Base), Widths[r[9]], Base) = raw(9)
      BY <1>13, <3>1, <3>2, Zenon
    <3> QED
      BY <3>2, <3>3, Zenon
  <2>3. n = c[at[9]]
    <3>1. Cut(at, c, Opening, 9)
      BY <1>4, <1>5, <1>9, <1>14, Zenon DEF Cut
    <3> QED
      BY <1>6, <3>1, CountIs
  <2>4. raw(9)[1] = c[at[9]] /\ c[at[9]] \in Nat /\ raw(9) = <<c[at[9]]>>
    <3> DEFINE i == at[9]
               j == at[9 + 1]
               p == raw(9)
    <3>1. i \in 1 .. Len(c) + 1 /\ j \in i .. Len(c) + 1 /\ j = i + 1
      BY <1>4, <1>9, <1>14, <1>15, <2>2, Zenon
    <3>2. p = SubSeq(c, i, j - 1)
      OBVIOUS
    <3> HIDE DEF i, j, p, raw
    <3>3. /\ p \in Seq(Bytes) /\ Len(p) = j - i
          /\ \A k \in 1 .. j - i : p[k] = c[(i + k) - 1]
      <4>1. /\ SubSeq(c, i, j - 1) \in Seq(Bytes)
            /\ Len(SubSeq(c, i, j - 1)) = j - i
            /\ \A k \in 1 .. j - i : SubSeq(c, i, j - 1)[k] = c[(i + k) - 1]
        BY <3>1, PartOf
      <4> QED
        BY <3>2, <4>1, Zenon
    <3>4. j - i = 1 /\ 1 \in 1 .. j - i /\ (i + 1) - 1 = i
      BY <1>1, <3>1
    <3>5. p[1] = c[i] /\ Len(p) = 1
      BY <3>3, <3>4
    <3> DEFINE x == c[i]
    <3>6. x \in Bytes
      <4>1. p[1] \in Bytes
        BY <3>3, <3>4, ElementOfSeq
      <4> QED
        BY <3>5, <4>1
    <3> HIDE DEF x
    <3>7. <<x>> \in Seq(Bytes) /\ Len(<<x>>) = 1 /\ <<x>>[1] = x
      BY <3>6
    <3>8. p = <<x>>
      <4> DEFINE y == <<x>>
      <4>1. p[1] = x /\ Len(p) = 1 /\ p \in Seq(Bytes)
        BY <3>3, <3>5, Zenon DEF x
      <4>2. y \in Seq(Bytes) /\ Len(y) = 1 /\ y[1] = x
        BY <3>7
      <4> HIDE DEF y
      <4>3. \A k \in 1 .. 1 : k = 1
        OBVIOUS
      <4>4. p = y
        BY <4>1, <4>2, <4>3, SeqEqual
      <4> QED
        BY <4>4 DEF y
    <3> QED
      BY <3>5, <3>6, <3>8, BytesAre DEF p, x, i
  <2>5. Number(raw(9), Base) = n
    <3>1. Number(<<c[at[9]]>>, Base) = c[at[9]]
      BY <2>4, BytesAre, NumberOne
    <3> QED
      BY <2>3, <2>4, <3>1, Zenon
  <2> QED
    BY <2>2, <2>5, Zenon
\* the capabilities
<1>20. \A i \in 1 .. n : /\ TextAt(c, at, 9 + i) \in Str
                         /\ Str16(TextAt(c, at, 9 + i)) = raw(9 + i)
  <2> TAKE i \in 1 .. n
  <2>1. 9 + i \in 1 .. n + 12 /\ r[9 + i] = "text"
    BY <1>1, <1>2
  <2> QED
    BY <1>12, <2>1, Zenon
<1>21. f.caps \in Seq(Str) /\ Len(f.caps) = n /\ \A i \in 1 .. n : f.caps[i] = TextAt(c, at, 9 + i)
  <2>1. f.caps = [k \in 1 .. n |-> TextAt(c, at, 9 + k)]
    BY <1>7, <1>8
  <2> DEFINE t == [k \in 1 .. n |-> TextAt(c, at, 9 + k)]
  <2>2. t \in [1 .. n -> Str] /\ \A i \in 1 .. n : t[i] = TextAt(c, at, 9 + i)
    BY <1>20
  <2> HIDE DEF t
  <2>3. t \in Seq(Str) /\ Len(t) = n
    BY <1>1, <2>2, Indexed
  <2> QED
    BY <2>1, <2>2, <2>3, Zenon DEF t
\* the numbers behind
<1>22. /\ Number(raw(10 + n), Base) \in Width(RosterLen, Base)
       /\ BigEndian(Number(raw(10 + n), Base), RosterLen, Base) = raw(10 + n)
       /\ Number(raw(11 + n), Base) \in Width(TimeLen, Base)
       /\ BigEndian(Number(raw(11 + n), Base), TimeLen, Base) = raw(11 + n)
       /\ Number(raw(12 + n), Base) \in Width(TimeLen, Base)
       /\ BigEndian(Number(raw(12 + n), Base), TimeLen, Base) = raw(12 + n)
  <2>1. /\ 10 + n \in 1 .. n + 12 /\ 11 + n \in 1 .. n + 12 /\ 12 + n \in 1 .. n + 12
        /\ (9 + n) + 1 = 10 + n /\ (9 + n) + 2 = 11 + n /\ (9 + n) + 3 = 12 + n
        /\ 1 \in 1 .. 3 /\ 2 \in 1 .. 3 /\ 3 \in 1 .. 3
    BY <1>1
  <2>2. Closing[1] = "roster" /\ Closing[2] = "time" /\ Closing[3] = "time"
        /\ "roster" \in PartNames \ {"text"} /\ "time" \in PartNames \ {"text"}
    BY DEF Closing, PartNames
  <2>3. r[10 + n] = "roster" /\ r[11 + n] = "time" /\ r[12 + n] = "time"
    BY <1>2, <2>1, <2>2, Zenon
  <2>4. Widths["roster"] = RosterLen /\ Widths["time"] = TimeLen
    BY WidthsAre
  <2>5. /\ Number(raw(10 + n), Base) \in Width(RosterLen, Base)
        /\ BigEndian(Number(raw(10 + n), Base), RosterLen, Base) = raw(10 + n)
    BY <1>13, <2>1, <2>2, <2>3, <2>4, Zenon
  <2>6. /\ Number(raw(11 + n), Base) \in Width(TimeLen, Base)
        /\ BigEndian(Number(raw(11 + n), Base), TimeLen, Base) = raw(11 + n)
    BY <1>13, <2>1, <2>2, <2>3, <2>4, Zenon
  <2>7. /\ Number(raw(12 + n), Base) \in Width(TimeLen, Base)
        /\ BigEndian(Number(raw(12 + n), Base), TimeLen, Base) = raw(12 + n)
    BY <1>13, <2>1, <2>2, <2>3, <2>4, Zenon
  <2> QED
    BY <2>5, <2>6, <2>7
<1>23. /\ f.device_did = TextAt(c, at, 3) /\ f.owner_did = TextAt(c, at, 4)
       /\ f.owner_genesis_pubkey = raw(5) /\ f.hub_endpoint_id = raw(6)
       /\ f.hub_relay = TextAt(c, at, 7) /\ f.hub_host = TextAt(c, at, 8)
       /\ f.roster_version = Number(raw(10 + n), Base)
       /\ f.issued_at = Number(raw(11 + n), Base)
       /\ f.expires_at = Number(raw(12 + n), Base)
  BY <1>7
<1>24. f \in AdoptionFields
  <2> DEFINE a == TextAt(c, at, 3)
             b == TextAt(c, at, 4)
             d == raw(5)
             e == raw(6)
             g == TextAt(c, at, 7)
             h == TextAt(c, at, 8)
             i == CapsAt(c, at)
             j == Number(raw(10 + n), Base)
             k == Number(raw(11 + n), Base)
             l == Number(raw(12 + n), Base)
  <2>1. /\ a \in Str /\ b \in Str /\ g \in Str /\ h \in Str
        /\ d \in [1 .. OwnerKeyLen -> Bytes] /\ e \in [1 .. HubLen -> Bytes]
        /\ j \in Width(RosterLen, Base) /\ k \in Width(TimeLen, Base) /\ l \in Width(TimeLen, Base)
    BY <1>16, <1>17, <1>22
  <2>2. i \in Seq(Str)
    <3>1. f.caps = i
      BY <1>7
    <3> QED
      BY <1>21, <3>1, Zenon
  <2>3. f = [device_did |-> a, owner_did |-> b, owner_genesis_pubkey |-> d, hub_endpoint_id |-> e,
             hub_relay |-> g, hub_host |-> h, caps |-> i,
             roster_version |-> j, issued_at |-> k, expires_at |-> l]
    BY <1>7, Zenon
  <2> HIDE DEF a, b, d, e, g, h, i, j, k, l
  <2> QED
    BY <2>1, <2>2, <2>3 DEF AdoptionFields
\* so that its pieces are the parts
<1>25. /\ Pieces(f) \in Seq(Seq(Bytes)) /\ Len(Pieces(f)) = n + 12
       /\ \A i \in 1 .. 9 : Pieces(f)[i] = Nine(f)[i]
       /\ \A i \in 1 .. n : Pieces(f)[9 + i] = Str16(f.caps[i])
       /\ \A i \in 1 .. 3 : Pieces(f)[(9 + n) + i] = Three(f)[i]
  <2>1. /\ Pieces(f) \in Seq(Seq(Bytes)) /\ Len(Pieces(f)) = Len(f.caps) + 12
        /\ \A i \in 1 .. 9 : Pieces(f)[i] = Nine(f)[i]
        /\ \A i \in 1 .. Len(f.caps) : Pieces(f)[9 + i] = Str16(f.caps[i])
        /\ \A i \in 1 .. 3 : Pieces(f)[(9 + Len(f.caps)) + i] = Three(f)[i]
    BY <1>v, <1>24, PiecesFit
  <2>2. Len(f.caps) = n
    BY <1>21
  <2> QED
    BY <2>1, <2>2, Zenon
<1>26. \A k \in 1 .. 9 : Nine(f)[k] = raw(k)
  <2>1. /\ Nine(f)[1] = <<DomainByte>> /\ Nine(f)[2] = <<Version>>
        /\ Nine(f)[3] = Str16(f.device_did) /\ Nine(f)[4] = Str16(f.owner_did)
        /\ Nine(f)[5] = f.owner_genesis_pubkey /\ Nine(f)[6] = f.hub_endpoint_id
        /\ Nine(f)[7] = Str16(f.hub_relay) /\ Nine(f)[8] = Str16(f.hub_host)
        /\ Nine(f)[9] = BigEndian(Len(f.caps), 1, Base)
    BY DEF Nine
  <2>2. Len(f.caps) = n
    BY <1>21
  <2>3. /\ Str16(TextAt(c, at, 3)) = raw(3) /\ Str16(TextAt(c, at, 4)) = raw(4)
        /\ Str16(TextAt(c, at, 7)) = raw(7) /\ Str16(TextAt(c, at, 8)) = raw(8)
    BY <1>16
  <2> HIDE DEF raw
  <2>4. /\ Nine(f)[1] = raw(1) /\ Nine(f)[2] = raw(2) /\ Nine(f)[3] = raw(3)
        /\ Nine(f)[4] = raw(4) /\ Nine(f)[5] = raw(5) /\ Nine(f)[6] = raw(6)
        /\ Nine(f)[7] = raw(7) /\ Nine(f)[8] = raw(8) /\ Nine(f)[9] = raw(9)
    BY <1>18, <1>19, <1>23, <2>1, <2>2, <2>3, Zenon
  <2>5. \A k \in 1 .. 9 : k = 1 \/ k = 2 \/ k = 3 \/ k = 4 \/ k = 5 \/ k = 6 \/ k = 7
        \/ k = 8 \/ k = 9
    OBVIOUS
  <2> QED
    BY <2>4, <2>5, Zenon
<1>27. \A i \in 1 .. n : Str16(f.caps[i]) = raw(9 + i)
  BY <1>20, <1>21, Zenon
<1>28. \A i \in 1 .. 3 : Three(f)[i] = raw((9 + n) + i)
  <2>1. /\ Three(f)[1] = BigEndian(f.roster_version, RosterLen, Base)
        /\ Three(f)[2] = BigEndian(f.issued_at, TimeLen, Base)
        /\ Three(f)[3] = BigEndian(f.expires_at, TimeLen, Base)
    BY DEF Three
  <2>2. (9 + n) + 1 = 10 + n /\ (9 + n) + 2 = 11 + n /\ (9 + n) + 3 = 12 + n
    BY <1>1
  <2>3. \A i \in 1 .. 3 : i = 1 \/ i = 2 \/ i = 3
    OBVIOUS
  <2> HIDE DEF raw
  <2>4. Three(f)[1] = raw(10 + n) /\ Three(f)[2] = raw(11 + n) /\ Three(f)[3] = raw(12 + n)
    BY <1>22, <1>23, <2>1, Zenon
  <2> QED
    BY <2>2, <2>3, <2>4, Zenon
<1> HIDE DEF raw
<1>29. ASSUME NEW k \in 1 .. n + 12 PROVE Pieces(f)[k] = ps[k]
  <2>1. CASE k \in 1 .. 9
    BY <1>11, <1>25, <1>26, <2>1, Zenon
  <2>2. CASE k \in 10 .. 9 + n
    <3> DEFINE i == k - 9
    <3>1. i \in 1 .. n /\ k = 9 + i
      BY <1>1, <2>2
    <3> HIDE DEF i
    <3> QED
      BY <1>11, <1>25, <1>27, <3>1, Zenon
  <2>3. CASE k \in 10 + n .. 12 + n
    <3> DEFINE i == k - (9 + n)
    <3>1. i \in 1 .. 3 /\ k = (9 + n) + i
      BY <1>1, <2>3
    <3> HIDE DEF i
    <3> QED
      BY <1>11, <1>25, <1>28, <3>1, Zenon
  <2>4. k \in 1 .. 9 \/ k \in 10 .. 9 + n \/ k \in 10 + n .. 12 + n
    BY <1>1
  <2> QED
    BY <2>1, <2>2, <2>3, <2>4
<1>30. Pieces(f) = ps
  <2> DEFINE x == Pieces(f)
  <2>1. x \in Seq(Seq(Bytes)) /\ ps \in Seq(Seq(Bytes)) /\ Len(x) = Len(ps)
        /\ \A k \in 1 .. Len(x) : x[k] = ps[k]
    BY <1>10, <1>25, <1>29, Zenon
  <2> HIDE DEF x
  <2>2. x = ps
    BY <2>1, SeqEqual
  <2> QED
    BY <2>2 DEF x
<1>31. Encode(f) = c
  BY <1>10, <1>30, EncodeIs, Zenon
<1> QED
  BY <1>24, <1>31, Zenon DEF f, at, r

-----------------------------------------------------------------------------
(* Capabilities: text and meaning.                                          *)

\* Where a separator is first.
LEMMA SplitAt ==
    ASSUME NEW s \in Seq(Bytes), NEW b, Has(s, b)
    PROVE  \E k \in 1 .. Len(s) :
               /\ s[k] = b /\ \A i \in 1 .. k - 1 : s[i] # b
               /\ Before(s, b) = SubSeq(s, 1, k - 1) /\ After(s, b) = SubSeq(s, k + 1, Len(s))
<1> DEFINE I == {i \in 1 .. Len(s) : s[i] = b}
           k == CHOOSE x \in I : \A y \in I : x <= y
<1>0. Len(s) \in Nat /\ DOMAIN s = 1 .. Len(s)
  BY LenProperties
<1>1. I # {} /\ I \subseteq Nat
  BY <1>0 DEF Has
<1>2. \E x \in I : \A y \in I : x <= y
  <2> HIDE DEF I
  <2> QED
    BY <1>1, Least
<1>3. k \in I /\ \A y \in I : k <= y
  <2> HIDE DEF I
  <2> QED
    BY <1>2
<1>4. Before(s, b) = SubSeq(s, 1, k - 1) /\ After(s, b) = SubSeq(s, k + 1, Len(s))
  BY <1>1 DEF Before, After, Seqs!SelectInSeq, Seqs!Min
<1> HIDE DEF k
<1>5. k \in 1 .. Len(s) /\ s[k] = b
  BY <1>3
<1>6. ASSUME NEW i \in 1 .. k - 1 PROVE s[i] # b
  <2> SUFFICES ASSUME s[i] = b PROVE FALSE
    OBVIOUS
  <2>1. i \in I
    BY <1>0, <1>5
  <2> QED
    BY <1>0, <1>3, <1>5, <2>1
<1> QED
  BY <1>4, <1>5, <1>6

\* The separators are bytes; no scope and no capability are told apart from any.
LEMMA SeparatorsAre ==
    /\ Colon \in Bytes /\ At \in Bytes /\ Colon # At
    /\ NoScope \notin Seq(Bytes)
    /\ NoCap \notin [component : Seq(Bytes), action : Seq(Bytes), scope : Seq(Bytes) \cup {NoScope}]
<1>1. Colon \in Bytes /\ At \in Bytes /\ Colon # At
  BY ConstantsAssumption
<1>2. Seq(Bytes) \subseteq Seq(Int)
  BY BytesAre, SeqMonotonic
<1> QED
  BY <1>1, <1>2, MarkersAssumption

\* A sequence of one byte.
LEMMA Single ==
    ASSUME NEW b \in Bytes
    PROVE  <<b>> \in Seq(Bytes) /\ Len(<<b>>) = 1 /\ <<b>>[1] = b
OBVIOUS

\* The two halves make up the whole.
LEMMA Halves ==
    ASSUME NEW s \in Seq(Bytes), NEW b \in Bytes, Has(s, b)
    PROVE  /\ Before(s, b) \in Seq(Bytes) /\ After(s, b) \in Seq(Bytes)
           /\ s = Cat(Cat(Before(s, b), <<b>>), After(s, b))
<1>1. PICK k \in 1 .. Len(s) :
         s[k] = b /\ Before(s, b) = SubSeq(s, 1, k - 1) /\ After(s, b) = SubSeq(s, k + 1, Len(s))
  BY SplitAt
<1>0. Len(s) \in Nat
  BY LenProperties
<1>2. /\ 1 \in 1 .. Len(s) + 1 /\ k - 1 \in 1 - 1 .. Len(s) /\ k \in (k - 1) .. Len(s)
         /\ k \in 1 .. Len(s) + 1
      /\ k + 1 \in 1 .. Len(s) + 1 /\ Len(s) \in (k + 1) - 1 .. Len(s) /\ (k - 1) + 1 = k
      /\ k \in 1 - 1 .. Len(s) /\ Len(s) \in k .. Len(s)
  BY <1>0
<1>3. SubSeq(s, 1, k - 1) \in Seq(Bytes) /\ SubSeq(s, k + 1, Len(s)) \in Seq(Bytes)
  BY <1>2, Stretch
<1>4. SubSeq(s, k, k) = <<b>>
  <2> DEFINE x == SubSeq(s, k, k)
             y == <<b>>
  <2>1. k \in k - 1 .. Len(s) /\ (k - k) + 1 = 1 /\ (k + 1) - 1 = k
    BY <1>0
  <2>2. x \in Seq(Bytes) /\ Len(x) = (k - k) + 1
        /\ \A i \in 1 .. (k - k) + 1 : x[i] = s[(k + i) - 1]
    BY <1>2, <2>1, Stretch
  <2>3. y \in Seq(Bytes) /\ Len(y) = 1 /\ y[1] = b
    BY Single
  <2> HIDE DEF x, y
  <2>4. Len(x) = 1 /\ \A i \in 1 .. 1 : x[i] = y[i]
    <3>1. \A i \in 1 .. 1 : i = 1
      OBVIOUS
    <3>2. 1 \in 1 .. (k - k) + 1
      BY <2>1
    <3>3. x[1] = s[(k + 1) - 1]
      BY <2>2, <3>2
    <3>4. x[1] = y[1]
      BY <1>1, <2>1, <2>3, <3>3, Zenon
    <3> QED
      BY <2>1, <2>2, <3>1, <3>4
  <2>5. x = y
    BY <2>2, <2>3, <2>4, SeqEqual
  <2> QED
    BY <2>5 DEF x, y
<1>5. SubSeq(s, 1, k - 1) \o SubSeq(s, (k - 1) + 1, k) = SubSeq(s, 1, k)
  BY <1>2, ConcatAdjacentSubSeq
<1>6. SubSeq(s, 1, k) \o SubSeq(s, k + 1, Len(s)) = SubSeq(s, 1, Len(s))
  BY <1>2, ConcatAdjacentSubSeq
<1>7. SubSeq(s, 1, Len(s)) = s
  BY SubSeqFull
<1>8. s = Cat(Cat(SubSeq(s, 1, k - 1), <<b>>), SubSeq(s, k + 1, Len(s)))
  BY <1>2, <1>4, <1>5, <1>6, <1>7, Zenon DEF Cat
<1> QED
  BY <1>1, <1>3, <1>8, Zenon

\* A whole made up of two halves, the first without the separator.
LEMMA SplitOf ==
    ASSUME NEW p \in Seq(Bytes), NEW q \in Seq(Bytes), NEW b \in Bytes, ~Has(p, b)
    PROVE  /\ Cat(Cat(p, <<b>>), q) \in Seq(Bytes)
           /\ Has(Cat(Cat(p, <<b>>), q), b)
           /\ Before(Cat(Cat(p, <<b>>), q), b) = p
           /\ After(Cat(Cat(p, <<b>>), q), b) = q
<1> DEFINE m == <<b>>
           d == Cat(p, m)
           s == Cat(d, q)
<1>1. m \in Seq(Bytes) /\ Len(m) = 1 /\ m[1] = b
  BY Single
<1> HIDE DEF m
<1>2. s \in Seq(Bytes) /\ Threefold(s, p, m, q)
  BY <1>1, ConcatThree
<1>3. d \in Seq(Bytes) /\ Len(d) = Len(p) + Len(m)
  BY <1>1, CatType, EndOfCat
<1>4. Len(p) \in Nat /\ Len(q) \in Nat /\ DOMAIN p = 1 .. Len(p) /\ DOMAIN s = 1 .. Len(s)
  BY <1>2, LenProperties
<1> HIDE DEF d, s
<1>5. /\ Len(s) = (Len(p) + 1) + Len(q)
      /\ \A i \in 1 .. Len(p) : s[i] = p[i]
      /\ s[Len(p) + 1] = b
  <2>1. 1 \in 1 .. 1
    OBVIOUS
  <2> QED
    BY <1>1, <1>2, <2>1, Zenon DEF Threefold
<1>6. \A i \in 1 .. Len(p) : s[i] # b
  BY <1>4, <1>5 DEF Has
<1>7. Has(s, b)
  <2>1. Len(p) + 1 \in 1 .. Len(s)
    BY <1>4, <1>5
  <2> QED
    BY <1>4, <1>5, <2>1 DEF Has
<1>8. PICK k \in 1 .. Len(s) :
         /\ s[k] = b /\ \A i \in 1 .. k - 1 : s[i] # b
         /\ Before(s, b) = SubSeq(s, 1, k - 1) /\ After(s, b) = SubSeq(s, k + 1, Len(s))
  BY <1>2, <1>7, SplitAt
<1>9. k = Len(p) + 1
  <2>1. ~(k <= Len(p))
    BY <1>4, <1>6, <1>8
  <2>2. ~(Len(p) + 1 <= k - 1)
    <3> SUFFICES ASSUME Len(p) + 1 <= k - 1 PROVE FALSE
      OBVIOUS
    <3>1. Len(p) + 1 \in 1 .. k - 1
      BY <1>4
    <3> QED
      BY <1>5, <1>8, <3>1
  <2> QED
    BY <1>4, <1>5, <2>1, <2>2
<1>10. SubSeq(s, 1, Len(p)) = p
  <2>1. 1 \in 1 .. Len(d) + 1 /\ Len(p) \in 1 - 1 .. Len(d) /\ 1 \in 1 .. Len(p) + 1
        /\ Len(p) \in 1 - 1 .. Len(p)
    BY <1>1, <1>3, <1>4
  <2>2. SubSeq(Cat(d, q), 1, Len(p)) = SubSeq(d, 1, Len(p))
    BY <1>3, <2>1, StretchOfCat
  <2>3. SubSeq(Cat(p, m), 1, Len(p)) = SubSeq(p, 1, Len(p))
    BY <1>1, <2>1, StretchOfCat
  <2>4. SubSeq(p, 1, Len(p)) = p
    BY SubSeqFull
  <2> QED
    BY <2>2, <2>3, <2>4, Zenon DEF s, d
<1>11. SubSeq(s, Len(p) + 2, Len(s)) = q
  <2>1. SubSeq(Cat(d, q), Len(d) + 1, Len(d) + Len(q)) = q
    BY <1>3, EndOfCat
  <2>2. Len(d) + 1 = Len(p) + 2 /\ Len(d) + Len(q) = Len(s)
    BY <1>1, <1>3, <1>4, <1>5
  <2> QED
    BY <2>1, <2>2, Zenon DEF s
<1>12. k - 1 = Len(p) /\ k + 1 = Len(p) + 2
  BY <1>4, <1>9
<1>13. Before(s, b) = p /\ After(s, b) = q
  BY <1>8, <1>10, <1>11, <1>12, Zenon
<1> QED
  BY <1>2, <1>7, <1>13, Zenon DEF s, d, m

\* The texts of capabilities by their halves.
LEMMA UnscopedIs ==
    ASSUME NEW c, NEW a
    PROVE  Unscoped(c, a) = Cat(Cat(c, <<Colon>>), a)
BY Zenon DEF Unscoped, Cat

LEMMA ScopedIs ==
    \A c, a, s \in Seq(Bytes) :
        Scoped(c, a, s) = Cat(Cat(c, <<Colon>>), Cat(Cat(a, <<At>>), s))
<1> TAKE c \in Seq(Bytes), a \in Seq(Bytes), s \in Seq(Bytes)
<1> DEFINE x == <<Colon>>
           y == <<At>>
           u == Cat(c, x)
           v == Cat(a, y)
<1>1. x \in Seq(Bytes) /\ y \in Seq(Bytes)
  BY SeparatorsAre
<1> HIDE DEF x, y
<1>2. u \in Seq(Bytes) /\ v \in Seq(Bytes)
  BY <1>1, CatType
<1> HIDE DEF u
<1>3. Cat(Cat(u, a), y) = Cat(u, Cat(a, y))
  BY <1>1, <1>2, CatAssociative
<1> HIDE DEF v
<1>4. Cat(Cat(u, v), s) = Cat(u, Cat(v, s))
  BY <1>2, CatAssociative
<1>5. Scoped(c, a, s) = Cat(Cat(Cat(u, a), y), s)
  BY Zenon DEF Scoped, Unscoped, Cat, u, x, y
<1>6. Cat(Cat(Cat(u, a), y), s) = Cat(u, Cat(v, s))
  BY <1>3, <1>4, Zenon DEF v
<1> QED
  BY <1>5, <1>6, Zenon DEF u, v, x, y

\* What a capability is read as.
LEMMA ParseUnscoped ==
    ASSUME NEW c \in Seq(Bytes), NEW a \in Seq(Bytes), Clean(c), Clean(a)
    PROVE  /\ Unscoped(c, a) \in Seq(Bytes)
           /\ Parse(Unscoped(c, a)) = [component |-> c, action |-> a, scope |-> NoScope]
           /\ Parse(Unscoped(c, a)) # NoCap
<1> DEFINE s == Unscoped(c, a)
<1>1. s \in Seq(Bytes) /\ Has(s, Colon) /\ Before(s, Colon) = c /\ After(s, Colon) = a
  <2>1. ~Has(c, Colon)
    BY DEF Clean
  <2> QED
    BY <2>1, SplitOf, SeparatorsAre, UnscopedIs
<1>2. ~Has(a, At)
  BY DEF Clean
<1> HIDE DEF s
<1>3. Parse(s) = [component |-> c, action |-> a, scope |-> NoScope]
  BY <1>1, <1>2, Zenon DEF Parse
<1>4. Parse(s) # NoCap
  BY <1>3, SeparatorsAre
<1> QED
  BY <1>1, <1>3, <1>4 DEF s

LEMMA ParseScoped ==
    ASSUME NEW c \in Seq(Bytes), NEW a \in Seq(Bytes), NEW p \in Seq(Bytes), Clean(c), Clean(a), Clean(p)
    PROVE  /\ Scoped(c, a, p) \in Seq(Bytes)
           /\ Parse(Scoped(c, a, p)) = [component |-> c, action |-> a, scope |-> p]
           /\ Parse(Scoped(c, a, p)) # NoCap
<1> DEFINE s == Scoped(c, a, p)
           r == Cat(Cat(a, <<At>>), p)
<1>1. r \in Seq(Bytes) /\ Has(r, At) /\ Before(r, At) = a /\ After(r, At) = p
  <2>1. ~Has(a, At)
    BY DEF Clean
  <2> QED
    BY <2>1, SplitOf, SeparatorsAre
<1> HIDE DEF r
<1>2. s = Cat(Cat(c, <<Colon>>), r)
  BY ScopedIs, Zenon DEF r
<1>3. s \in Seq(Bytes) /\ Has(s, Colon) /\ Before(s, Colon) = c /\ After(s, Colon) = r
  <2>1. ~Has(c, Colon)
    BY DEF Clean
  <2> HIDE DEF s
  <2> QED
    BY <1>1, <1>2, <2>1, SplitOf, SeparatorsAre
<1> HIDE DEF s
<1>4. Parse(s) = [component |-> c, action |-> a, scope |-> p]
  BY <1>1, <1>3, Zenon DEF Parse
<1>5. Parse(s) # NoCap
  BY <1>4, SeparatorsAre
<1> QED
  BY <1>3, <1>4, <1>5 DEF s

\* What a string that is a capability looks like.
LEMMA ParsedIs ==
    ASSUME NEW s \in Seq(Bytes), Parse(s) # NoCap
    PROVE  /\ Parse(s).component \in Seq(Bytes) /\ Parse(s).action \in Seq(Bytes)
           /\ Clean(Parse(s).component) /\ Clean(Parse(s).action)
           /\ \/ /\ Parse(s).scope = NoScope
                 /\ s = Unscoped(Parse(s).component, Parse(s).action)
              \/ /\ Parse(s).scope \in Seq(Bytes) /\ Clean(Parse(s).scope)
                 /\ s = Scoped(Parse(s).component, Parse(s).action, Parse(s).scope)
<1> DEFINE r == After(s, Colon)
           c == Before(s, Colon)
           a == IF Has(r, At) THEN Before(r, At) ELSE r
           p == IF Has(r, At) THEN After(r, At) ELSE NoScope
<1>1. /\ Has(s, Colon) /\ Clean(c) /\ Clean(a) /\ (p = NoScope \/ Clean(p))
      /\ Parse(s) = [component |-> c, action |-> a, scope |-> p]
  BY Zenon DEF Parse
<1>2. c \in Seq(Bytes) /\ r \in Seq(Bytes) /\ s = Cat(Cat(c, <<Colon>>), r)
  BY <1>1, Halves, SeparatorsAre
<1>3. Parse(s).component = c /\ Parse(s).action = a /\ Parse(s).scope = p
  <2> HIDE DEF c, a, p
  <2> QED
    BY <1>1
<1> HIDE DEF c, r
<1>4. CASE ~Has(r, At)
  <2>1. a = r /\ p = NoScope
    BY <1>4
  <2>2. s = Unscoped(c, a)
    BY <1>2, <2>1, UnscopedIs, Zenon
  <2> HIDE DEF a, p
  <2> QED
    BY <1>1, <1>2, <1>3, <2>1, <2>2, Zenon
<1>5. CASE Has(r, At)
  <2>1. a = Before(r, At) /\ p = After(r, At)
    BY <1>5
  <2> HIDE DEF a, p
  <2>2. a \in Seq(Bytes) /\ p \in Seq(Bytes) /\ r = Cat(Cat(a, <<At>>), p)
    <3>1. /\ Before(r, At) \in Seq(Bytes) /\ After(r, At) \in Seq(Bytes)
          /\ r = Cat(Cat(Before(r, At), <<At>>), After(r, At))
      BY <1>2, <1>5, Halves, SeparatorsAre
    <3> QED
      BY <2>1, <3>1, Zenon
  <2>3. p # NoScope
    BY <2>2, SeparatorsAre
  <2>4. s = Scoped(c, a, p)
    <3>0. c \in Seq(Bytes) /\ a \in Seq(Bytes) /\ p \in Seq(Bytes)
      BY <1>2, <2>2, Zenon
    <3>1. Scoped(c, a, p) = Cat(Cat(c, <<Colon>>), Cat(Cat(a, <<At>>), p))
      BY <3>0, ScopedIs
    <3> QED
      BY <1>2, <2>2, <3>1, Zenon
  <2> QED
    BY <1>1, <1>2, <1>3, <2>2, <2>3, <2>4, Zenon
<1> QED
  BY <1>4, <1>5

\* A grant is for a need in the code's way of reading them exactly when it
\* means it.
LEMMA MeansIs ==
    ASSUME NEW g \in Seq(Bytes), NEW n \in Needs
    PROVE  Means(g, n) <=> /\ Parse(n) # NoCap /\ Parse(g) # NoCap
                           /\ Satisfies(Parse(g), Parse(n))
<1>0. \A p \in Names : p \in Seq(Bytes) /\ Clean(p)
  BY ConstantsAssumption
<1>n. n \in Seq(Bytes)
  BY NeedsAssumption
<1>1. ASSUME Means(g, n)
      PROVE  Parse(n) # NoCap /\ Parse(g) # NoCap /\ Satisfies(Parse(g), Parse(n))
  <2>1. PICK c \in Names, a \in Names :
           \/ /\ g = Unscoped(c, a)
              /\ n = Unscoped(c, a) \/ \E s \in Names : n = Scoped(c, a, s)
           \/ g = n /\ \E s \in Names : n = Scoped(c, a, s)
    BY <1>1 DEF Means
  <2>2. c \in Seq(Bytes) /\ a \in Seq(Bytes) /\ Clean(c) /\ Clean(a)
    BY <1>0
  <2>3. /\ Parse(Unscoped(c, a)) = [component |-> c, action |-> a, scope |-> NoScope]
        /\ Parse(Unscoped(c, a)) # NoCap
    BY <2>2, ParseUnscoped
  <2>4. \A s \in Names : /\ Parse(Scoped(c, a, s)) = [component |-> c, action |-> a, scope |-> s]
                         /\ Parse(Scoped(c, a, s)) # NoCap
    BY <1>0, <2>2, ParseScoped
  <2>5. CASE g = Unscoped(c, a) /\ n = Unscoped(c, a)
    BY <2>3, <2>5 DEF Satisfies
  <2>6. CASE g = Unscoped(c, a) /\ \E s \in Names : n = Scoped(c, a, s)
    <3>1. PICK s \in Names : n = Scoped(c, a, s)
      BY <2>6
    <3>2. Parse(n) = [component |-> c, action |-> a, scope |-> s] /\ Parse(n) # NoCap
      BY <2>4, <3>1, Zenon
    <3>3. Parse(g) = [component |-> c, action |-> a, scope |-> NoScope] /\ Parse(g) # NoCap
      BY <2>3, <2>6, Zenon
    <3> QED
      BY <3>2, <3>3 DEF Satisfies
  <2>7. CASE g = n /\ \E s \in Names : n = Scoped(c, a, s)
    <3>1. Parse(n) # NoCap
      BY <2>4, <2>7, Zenon
    <3> QED
      BY <2>7, <3>1 DEF Satisfies
  <2> QED
    BY <2>1, <2>5, <2>6, <2>7, Zenon
<1>2. ASSUME Parse(n) # NoCap, Parse(g) # NoCap, Satisfies(Parse(g), Parse(n))
      PROVE  Means(g, n)
  <2> DEFINE c == Parse(n).component
             a == Parse(n).action
             s == Parse(n).scope
  <2>1. c \in Names /\ a \in Names /\ s \in Names \cup {NoScope}
    BY <1>2, NeedsAssumption
  <2>2. \/ s = NoScope /\ n = Unscoped(c, a)
        \/ s \in Seq(Bytes) /\ n = Scoped(c, a, s)
    BY <1>2, <1>n, ParsedIs
  <2>3. \/ Parse(g).scope = NoScope /\ g = Unscoped(Parse(g).component, Parse(g).action)
        \/ Parse(g).scope \in Seq(Bytes)
           /\ g = Scoped(Parse(g).component, Parse(g).action, Parse(g).scope)
    BY <1>2, ParsedIs
  <2>4. Parse(g).component = c /\ Parse(g).action = a /\ (Parse(g).scope = NoScope
        \/ Parse(g).scope = s)
    BY <1>2, Zenon DEF Satisfies
  <2>5. NoScope \notin Seq(Bytes)
    BY SeparatorsAre
  <2> HIDE DEF c, a, s
  <2>6. \/ g = Unscoped(c, a)
        \/ s \in Seq(Bytes) /\ g = Scoped(c, a, s)
    BY <2>3, <2>4, <2>5, Zenon
  <2>7. CASE s = NoScope
    <3>1. n = Unscoped(c, a) /\ g = Unscoped(c, a)
      BY <2>2, <2>5, <2>6, <2>7, Zenon
    <3> QED
      BY <2>1, <3>1, Zenon DEF Means
  <2>8. CASE s # NoScope
    <3>1. n = Scoped(c, a, s) /\ s \in Names
      BY <2>1, <2>2, <2>8
    <3> QED
      BY <2>1, <2>6, <3>1, Zenon DEF Means
  <2> QED
    BY <2>7, <2>8
<1> QED
  BY <1>1, <1>2

-----------------------------------------------------------------------------
(* The owner's tool, the wire and the device.                               *)

\* Bytes changed, lost or added leave bytes.
LEMMA EditedIsBytes ==
    ASSUME NEW w \in Seq(Bytes), NEW i \in DOMAIN w, NEW b \in Bytes
    PROVE  /\ Seqs!ReplaceAt(w, i, b) \in Seq(Bytes)
           /\ Seqs!RemoveAt(w, i) \in Seq(Bytes)
           /\ Seqs!InsertAt(w, i, b) \in Seq(Bytes)
<1>1. Len(w) \in Nat /\ i \in 1 .. Len(w)
  BY LenProperties
<1>2. Seqs!ReplaceAt(w, i, b) \in Seq(Bytes)
  BY ExceptSeq DEF Seqs!ReplaceAt
<1> DEFINE l == SubSeq(w, 1, i - 1)
           r == SubSeq(w, i + 1, Len(w))
           h == SubSeq(w, i, Len(w))
           m == <<b>>
<1>3. l \in Seq(Bytes)
  <2>1. 1 \in 1 .. Len(w) + 1 /\ i - 1 \in 1 - 1 .. Len(w)
    BY <1>1
  <2> QED
    BY <2>1, Stretch
<1>4. r \in Seq(Bytes)
  <2>1. i + 1 \in 1 .. Len(w) + 1 /\ Len(w) \in (i + 1) - 1 .. Len(w)
    BY <1>1
  <2> QED
    BY <2>1, Stretch
<1>5. h \in Seq(Bytes)
  <2>1. i \in 1 .. Len(w) + 1 /\ Len(w) \in i - 1 .. Len(w)
    BY <1>1
  <2> QED
    BY <2>1, Stretch
<1>6. m \in Seq(Bytes)
  BY Single
<1> HIDE DEF l, r, h, m
<1>7. Cat(l, r) \in Seq(Bytes) /\ Cat(l, m) \in Seq(Bytes)
  BY <1>3, <1>4, <1>6, CatType
<1>8. Cat(Cat(l, m), h) \in Seq(Bytes)
  BY <1>5, <1>7, CatType
<1>9. Seqs!RemoveAt(w, i) = Cat(l, r) /\ Seqs!InsertAt(w, i, b) = Cat(Cat(l, m), h)
  BY Zenon DEF Seqs!RemoveAt, Seqs!InsertAt, Cat, l, r, h, m
<1> QED
  BY <1>2, <1>7, <1>8, <1>9, Zenon

\* The inductive invariant.  First what TypeOK says, apart from the limits, which
\* follow from what an answer means.
WireIsTyped ==
    /\ sent \in Grants \cup {None}
    /\ wire \in Seq(Bytes)
    /\ damage \in 0 .. MaxDamage
    /\ answer \in {"none", "fields", "refused"}

\* sign_into refused what is past the limits or the buffer.
SentIsValid == sent # None => Validate(sent) /\ CanonicalLen(sent) + SigLen <= room

\* Until they are damaged the bytes are the signed ones.  Fields are kept beside
\* damaged bytes, and no buffer may be empty: both are why this has hypotheses.
IntactIsSigned == damage = 0 /\ wire # <<>> => sent # None /\ wire = Encode(sent) \o Signature

\* The answer is the one that decode gives for the bytes as they are: damage
\* takes it back.
AnswerIsOfWire ==
    /\ answer = "none" => decoded = None
    /\ answer = "fields" => wire # <<>> /\ Reads(wire) /\ decoded = Fields(wire)
    /\ answer = "refused" => wire # <<>> /\ ~Reads(wire) /\ decoded = None

WireInv == WireIsTyped /\ SentIsValid /\ IntactIsSigned /\ AnswerIsOfWire

\* What the tool is asked to sign are fields of the types of the struct.
LEMMA GrantIsTyped ==
    /\ \A f \in Grants : f \in AdoptionFields /\ f # None
    /\ None \notin Grants
<1>1. Grants \subseteq AdoptionFields
  BY GrantsAssumption DEF AdoptionFields
<1> QED
  BY <1>1, ConstantsAssumption

LEMMA WireInitInv == WireInit => WireInv
<1>1. <<>> \in Seq(Bytes) /\ 0 \in 0 .. MaxDamage
  BY ConstantsAssumption
<1>2. "none" \in {"none", "fields", "refused"} /\ "none" # "fields" /\ "none" # "refused"
  OBVIOUS
<1> QED
  BY <1>1, <1>2, Zenon DEF WireInit, WireInv, WireIsTyped, SentIsValid, IntactIsSigned, AnswerIsOfWire

\* A byte changed, lost or added, whichever bytes come of it.
LEMMA DamageKeepsInv ==
    ASSUME NEW w \in Seq(Bytes), WireInv, Damage(w)
    PROVE  WireInv'
<1>1. damage' \in 0 .. MaxDamage /\ damage' # 0
  BY ConstantsAssumption DEF Damage, WireInv, WireIsTyped
<1>2. "none" \in {"none", "fields", "refused"} /\ "none" # "fields" /\ "none" # "refused"
  OBVIOUS
<1>3. wire' = w /\ answer' = "none" /\ decoded' = None /\ sent' = sent /\ room' = room
  BY DEF Damage, Undecoded
<1>4. WireIsTyped'
  BY <1>1, <1>2, <1>3, Zenon DEF WireInv, WireIsTyped
<1>5. SentIsValid'
  BY <1>3, Zenon DEF WireInv, SentIsValid
<1>6. IntactIsSigned'
  BY <1>1 DEF IntactIsSigned
<1>7. AnswerIsOfWire'
  BY <1>2, <1>3, Zenon DEF AnswerIsOfWire
<1> QED
  BY <1>4, <1>5, <1>6, <1>7 DEF WireInv

\* Every step keeps the invariant.
LEMMA WireNextInv == WireInv /\ [WireNext]_wireVars => WireInv'
<1> SUFFICES ASSUME WireInv, [WireNext]_wireVars PROVE WireInv'
  OBVIOUS
<1>0. /\ "none" \in {"none", "fields", "refused"}
      /\ "fields" \in {"none", "fields", "refused"} /\ "refused" \in {"none", "fields", "refused"}
      /\ "none" # "fields" /\ "none" # "refused" /\ "fields" # "refused"
  OBVIOUS
<1>1. ASSUME NEW f \in Grants, NEW r \in Rooms, SignInto(f, r) PROVE WireInv'
  <2>1. /\ Validate(f) /\ CanonicalLen(f) + SigLen <= r
        /\ sent' = f /\ room' = r /\ wire' = Encode(f) \o Signature
        /\ damage' = 0 /\ answer' = "none" /\ decoded' = None
    BY <1>1 DEF SignInto, Undecoded
  <2>2. f \in AdoptionFields /\ f # None
    BY GrantIsTyped
  <2>3. Encode(f) \o Signature \in Seq(Bytes)
    BY <2>1, <2>2, SignedIsRead
  <2>4. 0 \in 0 .. MaxDamage
    BY ConstantsAssumption
  <2>5. WireIsTyped'
    BY <1>0, <2>1, <2>3, <2>4, Zenon DEF WireIsTyped
  <2>6. SentIsValid'
    BY <2>1, Zenon DEF SentIsValid
  <2>7. IntactIsSigned'
    BY <2>1, <2>2, Zenon DEF IntactIsSigned
  <2>8. AnswerIsOfWire'
    BY <1>0, <2>1, Zenon DEF AnswerIsOfWire
  <2> QED
    BY <2>5, <2>6, <2>7, <2>8 DEF WireInv
<1>2. ASSUME NEW i \in DOMAIN wire, Lose(i) PROVE WireInv'
  <2>1. wire \in Seq(Bytes) /\ DomainByte \in Bytes
    BY ConstantsAssumption DEF WireInv, WireIsTyped
  <2>2. Seqs!RemoveAt(wire, i) \in Seq(Bytes)
    BY <2>1, EditedIsBytes
  <2>3. Damage(Seqs!RemoveAt(wire, i))
    BY <1>2, Zenon DEF Lose
  <2> QED
    BY <2>2, <2>3, DamageKeepsInv, Zenon
<1>3. ASSUME NEW i \in DOMAIN wire, NEW b \in Bytes, Change(i, b) \/ Add(i, b) PROVE WireInv'
  <2>1. wire \in Seq(Bytes)
    BY DEF WireInv, WireIsTyped
  <2>2. Seqs!ReplaceAt(wire, i, b) \in Seq(Bytes) /\ Seqs!InsertAt(wire, i, b) \in Seq(Bytes)
    BY <2>1, EditedIsBytes
  <2>3. Damage(Seqs!ReplaceAt(wire, i, b)) \/ Damage(Seqs!InsertAt(wire, i, b))
    BY <1>3, Zenon DEF Change, Add
  <2> QED
    BY <2>2, <2>3, DamageKeepsInv, Zenon
<1>4. ASSUME Decode PROVE WireInv'
  <2>1. /\ wire # <<>> /\ Reads(wire) /\ answer' = "fields" /\ decoded' = Fields(wire)
        /\ sent' = sent /\ room' = room /\ wire' = wire /\ damage' = damage
    BY <1>4 DEF Decode
  <2>2. WireIsTyped'
    BY <1>0, <2>1, Zenon DEF WireInv, WireIsTyped
  <2>3. SentIsValid' /\ IntactIsSigned'
    BY <2>1, Zenon DEF WireInv, SentIsValid, IntactIsSigned
  <2>4. AnswerIsOfWire'
    BY <1>0, <2>1, Zenon DEF AnswerIsOfWire
  <2> QED
    BY <2>2, <2>3, <2>4 DEF WireInv
<1>5. ASSUME Refuse PROVE WireInv'
  <2>1. /\ wire # <<>> /\ ~Reads(wire) /\ answer' = "refused" /\ decoded' = None
        /\ sent' = sent /\ room' = room /\ wire' = wire /\ damage' = damage
    BY <1>5 DEF Refuse
  <2>2. WireIsTyped'
    BY <1>0, <2>1, Zenon DEF WireInv, WireIsTyped
  <2>3. SentIsValid' /\ IntactIsSigned'
    BY <2>1, Zenon DEF WireInv, SentIsValid, IntactIsSigned
  <2>4. AnswerIsOfWire'
    BY <1>0, <2>1, Zenon DEF AnswerIsOfWire
  <2> QED
    BY <2>2, <2>3, <2>4 DEF WireInv
<1>6. ASSUME Discard PROVE WireInv'
  <2>1. /\ sent' = None /\ room' = 0 /\ wire' = <<>> /\ damage' = 0
        /\ answer' = "none" /\ decoded' = None
    BY <1>6 DEF Discard, Undecoded
  <2>2. <<>> \in Seq(Bytes) /\ 0 \in 0 .. MaxDamage
    BY ConstantsAssumption
  <2> QED
    BY <1>0, <2>1, <2>2, Zenon
    DEF WireInv, WireIsTyped, SentIsValid, IntactIsSigned, AnswerIsOfWire
<1>7. ASSUME UNCHANGED wireVars PROVE WireInv'
  <2>1. sent' = sent /\ room' = room /\ wire' = wire /\ damage' = damage
        /\ answer' = answer /\ decoded' = decoded
    BY <1>7 DEF wireVars
  <2> QED
    BY <2>1, Zenon DEF WireInv, WireIsTyped, SentIsValid, IntactIsSigned, AnswerIsOfWire
<1> QED
  BY <1>1, <1>2, <1>3, <1>4, <1>5, <1>6, <1>7 DEF WireNext

LEMMA WireInvHolds == WireSpec => []WireInv
BY WireInitInv, WireNextInv, PTL DEF WireSpec

\* Bytes stay bytes, and what decode hands out is within the limits that
\* AdoptionFields::validate states, whatever bytes came in.
THEOREM WireIsTypeCorrect == WireSpec => []WireTypeOK
<1>1. WireInv => WireTypeOK
  <2> SUFFICES ASSUME WireInv PROVE WireTypeOK
    OBVIOUS
  <2>1. decoded # None => Validate(decoded)
    BY Zenon DEF WireInv, WireIsTyped, AnswerIsOfWire, Reads
  <2> QED
    BY <2>1, Zenon DEF WireInv, WireIsTyped, WireTypeOK
<1> QED
  BY <1>1, WireInvHolds, PTL

\* AdoptionFields::encode: canonical_len, asked for before the first byte is
\* written, is the number of bytes written, for all lengths and any number of
\* capabilities; with the signature behind them they fit the caller's buffer.
THEOREM WhatIsAskedIsWritten == WireSpec => []FitsItsBuffer
<1>1. WireInv => FitsItsBuffer
  <2> SUFFICES ASSUME WireInv, damage = 0, wire # <<>>
               PROVE  Len(wire) = CanonicalLen(sent) + SigLen /\ Len(wire) <= room
    BY DEF FitsItsBuffer
  <2>1. sent # None /\ wire = Encode(sent) \o Signature
    BY DEF WireInv, IntactIsSigned
  <2>2. Validate(sent) /\ CanonicalLen(sent) + SigLen <= room /\ sent \in AdoptionFields
    BY <2>1, GrantIsTyped DEF WireInv, SentIsValid, WireIsTyped
  <2>3. Len(Encode(sent) \o Signature) = Len(Encode(sent)) + SigLen
    BY <2>2, SignedIsRead
  <2>4. Len(Encode(sent)) = CanonicalLen(sent)
    BY <2>2, EncodeLength
  <2> QED
    BY <2>1, <2>2, <2>3, <2>4, Zenon
<1> QED
  BY <1>1, WireInvHolds, PTL

\* Adoption::decode reads what AdoptionFields::sign_into wrote, as it was meant:
\* no grant that an owner can sign is refused or read as another.
THEOREM SignedIsReadBack == WireSpec => []ReadAsSigned
<1>1. WireInv => ReadAsSigned
  <2> SUFFICES ASSUME WireInv, damage = 0, answer # "none"
               PROVE  answer = "fields" /\ decoded = sent
    BY DEF ReadAsSigned
  <2>1. wire # <<>> /\ (answer = "fields" \/ (answer = "refused" /\ ~Reads(wire)))
        /\ (answer = "fields" => decoded = Fields(wire))
    BY DEF WireInv, WireIsTyped, AnswerIsOfWire
  <2>2. sent # None /\ wire = Encode(sent) \o Signature
    BY <2>1 DEF WireInv, IntactIsSigned
  <2>3. Validate(sent) /\ sent \in AdoptionFields
    BY <2>2, GrantIsTyped DEF WireInv, SentIsValid, WireIsTyped
  <2>4. Reads(wire) /\ Fields(wire) = sent
    BY <2>2, <2>3, SignedIsRead
  <2> QED
    BY <2>1, <2>4, Zenon
<1> QED
  BY <1>1, WireInvHolds, PTL

\* Adoption::decode gives bytes one reading: what it accepts, however damaged, is
\* what encode writes for the fields it returns.  No two byte strings are read as
\* the same fields under one signature, and nothing in the bytes is left unread.
THEOREM WhatIsReadIsEncoded == WireSpec => []OneReading
<1>1. WireInv => OneReading
  <2> SUFFICES ASSUME WireInv, answer = "fields"
               PROVE  wire = Encode(decoded) \o SubSeq(wire, Len(wire) - SigLen + 1, Len(wire))
    BY DEF OneReading
  <2> DEFINE c == SignedPart(wire)
  <2>1. Reads(wire) /\ decoded = Fields(wire) /\ wire \in Seq(Bytes)
    BY DEF WireInv, WireIsTyped, AnswerIsOfWire
  <2>2. /\ Len(wire) \in Nat /\ SigLen \in Nat /\ Len(wire) >= 2 + SigLen
        /\ Len(wire) - SigLen \in 1 - 1 .. Len(wire) /\ 1 \in 1 .. Len(wire) + 1
        /\ Len(wire) \in Len(wire) - SigLen .. Len(wire)
    <3>1. Len(wire) \in Nat /\ SigLen \in Nat /\ Len(wire) >= 2 + SigLen
      BY <2>1, LenProperties, ConstantsAssumption DEF Reads
    <3> DEFINE x == Len(wire)
    <3> HIDE DEF x
    <3>2. x \in Nat /\ SigLen \in Nat /\ x >= 2 + SigLen
          => x - SigLen \in 1 - 1 .. x /\ 1 \in 1 .. x + 1 /\ x \in x - SigLen .. x
      OBVIOUS
    <3> QED
      BY <3>1, <3>2 DEF x
  <2>3. c \in Seq(Bytes)
    BY <2>1, <2>2, Stretch DEF SignedPart
  <2>4. End(c, Parts(c)) = Len(c) + 1 /\ Validate(FieldsAt(c, Scan(c, Parts(c))))
    BY <2>1, Zenon DEF Reads, Fields
  <2>5. decoded = FieldsAt(c, Scan(c, Parts(c)))
    BY <2>1, Zenon DEF Fields
  <2> HIDE DEF c
  <2>6. Encode(decoded) = c
    <3>1. Encode(FieldsAt(c, Scan(c, Parts(c)))) = c
      BY <2>3, <2>4, ReadingIsEncoding
    <3> QED
      BY <2>5, <3>1, Zenon
  <2>7. SubSeq(wire, 1, Len(wire) - SigLen) \o SubSeq(wire, (Len(wire) - SigLen) + 1, Len(wire))
        = SubSeq(wire, 1, Len(wire))
    BY <2>1, <2>2, ConcatAdjacentSubSeq
  <2>8. SubSeq(wire, 1, Len(wire)) = wire
    BY <2>1, SubSeqFull
  <2> QED
    BY <2>6, <2>7, <2>8, Zenon DEF c, SignedPart
<1> QED
  BY <1>1, WireInvHolds, PTL

\* Adoption::grants, on a grant whose signature verifies: the device lets the hub
\* do what the owner's words meant and nothing else, for any number of
\* capabilities and any names without the separators.
THEOREM WhatIsMeantIsGranted == WireSpec => []GrantedAsMeant
<1>1. WireInv => GrantedAsMeant
  <2> SUFFICES ASSUME WireInv, answer = "fields", VerifySignature(wire), NEW n \in Needs
               PROVE  Granted(decoded, n) <=> \E i \in DOMAIN sent.caps : Means(sent.caps[i], n)
    BY DEF GrantedAsMeant
  <2>1. sent # None /\ wire = Encode(sent) \o Signature /\ decoded = Fields(wire)
    BY DEF WireInv, AnswerIsOfWire, VerifySignature
  <2>2. Validate(sent) /\ sent \in AdoptionFields
    BY <2>1, GrantIsTyped DEF WireInv, SentIsValid, WireIsTyped
  <2>3. decoded = sent
    <3>1. Fields(Encode(sent) \o Signature) = sent
      BY <2>2, SignedIsRead
    <3> QED
      BY <2>1, <3>1, Zenon
  <2> DEFINE caps == sent.caps
  <2>4. \A i \in DOMAIN caps : caps[i] \in Seq(Bytes)
    <3>1. caps \in Seq(Str)
      BY <2>2 DEF AdoptionFields
    <3> HIDE DEF caps
    <3>2. \A i \in DOMAIN caps : caps[i] \in Str
      BY <3>1, LenProperties, ElementOfSeq
    <3> QED
      BY <3>2 DEF Str
  <2> HIDE DEF caps
  <2>5. \A i \in DOMAIN caps :
            Means(caps[i], n) <=> /\ Parse(n) # NoCap /\ Parse(caps[i]) # NoCap
                                  /\ Satisfies(Parse(caps[i]), Parse(n))
    BY <2>4, MeansIs
  <2>6. Granted(decoded, n)
        <=> \E i \in DOMAIN caps : Means(caps[i], n)
    BY <2>3, <2>5, Zenon DEF Granted, AnySatisfies, caps
  <2> QED
    BY <2>6, Zenon DEF caps
<1> QED
  BY <1>1, WireInvHolds, PTL
=============================================================================
