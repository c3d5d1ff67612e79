-------------------------- MODULE SignaturesProofs --------------------------
(* Theorems about Signatures, for any width and any size of a digit.        *)
EXTENDS Signatures, FiniteSetTheorems, WellFoundedInduction, TLAPS

\* The leading zeros of a sequence are its first so many entries.  No induction: they
\* are closed under predecessors, so the last one is not above their number.
LEMMA LeadingZerosFirst ==
    ASSUME NEW w \in Nat, NEW S, NEW d \in [1..w -> S]
    PROVE  /\ Cardinality(LeadingZeros(d)) \in 0..w
           /\ LeadingZeros(d) = 1..Cardinality(LeadingZeros(d))
<1> DEFINE Z == LeadingZeros(d)
           k == Cardinality(Z)
<1>1. Len(d) = w
    OBVIOUS
<1>2. Z \subseteq 1..w /\ \A i \in Z : 1..i \subseteq Z
    BY <1>1 DEF LeadingZeros
<1>3. IsFiniteSet(1..w) /\ Cardinality(1..w) = w
    BY FS_Interval
<1>4. IsFiniteSet(Z) /\ k \in Nat /\ k <= w
    BY <1>2, <1>3, FS_Subset, FS_CardinalityType
<1>5. IsFiniteSet(1..k) /\ Cardinality(1..k) = k
    BY <1>4, FS_Interval
<1>6. ASSUME NEW i \in Z PROVE i \in 1..k
    <2>1. i \in 1..w /\ 1..i \subseteq Z
        BY <1>2
    <2>2. Cardinality(1..i) = i
        BY <2>1, FS_Interval
    <2>3. Cardinality(1..i) <= k
        BY <2>1, <1>4, FS_Subset
    <2> QED
        BY <2>1, <2>2, <2>3, <1>4
<1>7. Z = 1..k
    <2>1. Z \in SUBSET (1..k)
        BY <1>6
    <2> QED
        BY <2>1, <1>5, FS_Subset
<1> QED
    BY <1>4, <1>7

\* The entries of d after the first k.
Behind(d, k, w) == [i \in 1..(w - k) |-> d[i + k]]

ZeroUpTo(d, k) == \A i \in 1..k : d[i] = 0

\* What Trim leaves is the rest, and its length tells how much was taken.
LEMMA TrimIsTail ==
    ASSUME NEW w \in Nat, NEW S, NEW d \in [1..w -> S],
           NEW k, k = Cardinality(LeadingZeros(d))
    PROVE  /\ k \in 0..w
           /\ Trim(d) = Behind(d, k, w)
           /\ ZeroUpTo(d, k)
           /\ k = 0 <=> ~(w > 0 /\ d[1] = 0)
<1>1. k \in 0..w /\ LeadingZeros(d) = 1..k
    BY LeadingZerosFirst
<1>2. Len(d) = w /\ d \in Seq(S)
    OBVIOUS
<1>3. ZeroUpTo(d, k)
    BY <1>1, <1>2 DEF LeadingZeros, ZeroUpTo
<1>4. k = 0 <=> ~(w > 0 /\ d[1] = 0)
    <2>1. ASSUME w > 0, d[1] = 0 PROVE 1 \in LeadingZeros(d)
        BY <2>1, <1>2 DEF LeadingZeros
    <2>2. ASSUME w > 0, d[1] = 0 PROVE k # 0
        <3>1. 1 \in 1..k
            BY <2>1, <2>2, <1>1
        <3> QED
            BY <3>1, <1>1
    <2>3. k # 0 => 1 \in 1..k /\ w > 0
        BY <1>1
    <2>4. k # 0 => d[1] = 0
        BY <2>3, <1>3 DEF ZeroUpTo
    <2> QED
        BY <2>2, <2>3, <2>4
<1>5. Trim(d) = Behind(d, k, w)
    <2>1. Trim(d) = SubSeq(d, k + 1, w)
        BY <1>2 DEF Trim
    <2> QED
        BY <2>1, <1>1, <1>2 DEF Behind
<1> QED
    BY <1>1, <1>3, <1>4, <1>5

\* The digits of a number are a sequence of w entries.
LEMMA DigitsSeq ==
    ASSUME NEW n, NEW base, NEW w \in Nat
    PROVE  \E S : Digits(n, base, w) \in [1..w -> S]
<1> DEFINE D == Digits(n, base, w)
<1>1. D \in [1..w -> {(n \div Power(base, w - i)) % base : i \in 1..w}]
    BY DEF Digits
<1> QED
    BY <1>1

\* Bytes and LeftPadded are inverse to each other at full width.
LEMMA PaddedBytes ==
    ASSUME NEW n
    PROVE  LeftPadded(Bytes(n)) = Digits(n, Byte, Width)
<1> DEFINE D == Digits(n, Byte, Width)
           k == Cardinality(LeadingZeros(D))
<1>1. PICK S : D \in [1..Width -> S]
    BY DigitsSeq, WidthAssumption
<1>0. k = Cardinality(LeadingZeros(D))
    OBVIOUS
<1> HIDE DEF D, k
<1>2. /\ k \in 0..Width
      /\ Trim(D) = [i \in 1..(Width - k) |-> D[i + k]]
      /\ \A i \in 1..k : D[i] = 0
    <2>1. Width \in Nat
        BY WidthAssumption
    <2>2. k \in 0..Width /\ Trim(D) = Behind(D, k, Width)
        BY <1>0, <1>1, <2>1, TrimIsTail
    <2>3. ZeroUpTo(D, k)
        BY <1>0, <1>1, <2>1, TrimIsTail
    <2>4. Trim(D) = [i \in 1..(Width - k) |-> D[i + k]]
        BY <2>2 DEF Behind
    <2> QED
        BY <2>2, <2>3, <2>4 DEF ZeroUpTo
<1>3. Len(Trim(D)) = Width - k
    BY <1>2, WidthAssumption
<1>4. LeftPadded(Trim(D)) = D
    <2>1. LeftPadded(Trim(D)) = [i \in 1..Width |-> IF i <= k THEN 0 ELSE Trim(D)[i - k]]
        BY <1>2, <1>3, WidthAssumption DEF LeftPadded
    <2>2. \A i \in 1..Width : D[i] = IF i <= k THEN 0 ELSE Trim(D)[i - k]
        BY <1>2, WidthAssumption
    <2> QED
        BY <1>1, <2>1, <2>2
<1> QED
    BY <1>4 DEF D, Bytes

\* The 65 bytes of an answer are the digits of r and s at their places, for every
\* signature and every width.
THEOREM SignatureBytesExact ==
    ASSUME NEW g
    PROVE  SignatureToBytes(g) =
               Digits(g.r, Byte, Width) \o Digits(g.s, Byte, Width) \o <<g.v % Byte>>
BY PaddedBytes DEF SignatureToBytes

\* Bytes is as long as its number has digits, and full only without a leading zero.
LEMMA BytesLength ==
    ASSUME NEW n
    PROVE  /\ \E S : Bytes(n) \in Seq(S)
           /\ Len(Bytes(n)) \in 0..Width
           /\ Len(Bytes(n)) = Width <=> Digits(n, Byte, Width)[1] # 0
           /\ Len(Bytes(n)) = Width => Bytes(n) = Digits(n, Byte, Width)
<1> DEFINE D == Digits(n, Byte, Width)
           k == Cardinality(LeadingZeros(D))
<1>1. PICK S : D \in [1..Width -> S]
    BY DigitsSeq, WidthAssumption
<1>0. k = Cardinality(LeadingZeros(D))
    OBVIOUS
<1> HIDE DEF D, k
<1>2. /\ k \in 0..Width
      /\ Trim(D) = [i \in 1..(Width - k) |-> D[i + k]]
      /\ k = 0 <=> ~(Width > 0 /\ D[1] = 0)
    <2>1. Width \in Nat
        BY WidthAssumption
    <2>2. k \in 0..Width /\ Trim(D) = Behind(D, k, Width)
        BY <1>0, <1>1, <2>1, TrimIsTail
    <2>3. k = 0 <=> ~(Width > 0 /\ D[1] = 0)
        BY <1>0, <1>1, <2>1, TrimIsTail
    <2>4. Trim(D) = [i \in 1..(Width - k) |-> D[i + k]]
        BY <2>2 DEF Behind
    <2> QED
        BY <2>2, <2>3, <2>4
<1>3. Len(Trim(D)) = Width - k /\ Trim(D) \in Seq(S)
    BY <1>1, <1>2, WidthAssumption
<1>4. k = 0 => Trim(D) = D
    BY <1>1, <1>2, WidthAssumption
<1>5. Bytes(n) = Trim(D)
    BY DEF D, Bytes
<1>6. \E T : Trim(D) \in Seq(T)
    BY <1>3
<1>7. /\ Len(Trim(D)) \in 0..Width
      /\ Len(Trim(D)) = Width <=> k = 0
    BY <1>2, <1>3, WidthAssumption
<1>8. k = 0 <=> D[1] # 0
    BY <1>2, WidthAssumption
<1> QED
    BY <1>4, <1>5, <1>6, <1>7, <1>8 DEF D

LEMMA BothFull ==
    ASSUME NEW w \in Nat, NEW x \in Nat, NEW y \in Nat, x <= w, y <= w, NEW z, z = x + y + 1
    PROVE  z = 2 * w + 1 <=> (x = w /\ y = w)
OBVIOUS

\* j has 2 * w + 1 entries only if a and b have w, which are then found at their places.
PartsFound(j, a, b, c, w) ==
    /\ Len(j) = 2 * w + 1 <=> Len(a) = w /\ Len(b) = w
    /\ Len(j) = 2 * w + 1 =>
          /\ SubSeq(j, 1, w) = a
          /\ SubSeq(j, w + 1, 2 * w) = b
          /\ j[2 * w + 1] = c

\* So it is when j is a and b, of at most w entries, and a last entry c.
LEMMA JoinedParts ==
    ASSUME NEW S, NEW w \in Nat, NEW a \in Seq(S), NEW b \in Seq(S), NEW c \in S,
           Len(a) \in 0..w, Len(b) \in 0..w, NEW j, j = a \o b \o <<c>>
    PROVE  PartsFound(j, a, b, c, w)
<1>1. Len(j) = Len(a) + Len(b) + 1 /\ j \in Seq(S)
    <2>1. /\ Len(a \o b \o <<c>>) = Len(a) + Len(b) + 1
          /\ a \o b \o <<c>> \in Seq(S)
        OBVIOUS
    <2> QED
        BY <2>1
<1>2. /\ \A i \in 1..Len(a) : j[i] = a[i]
      /\ \A i \in 1..Len(b) : j[Len(a) + i] = b[i]
      /\ j[Len(a) + Len(b) + 1] = c
    <2>1. /\ \A i \in 1..Len(a) : (a \o b \o <<c>>)[i] = a[i]
          /\ \A i \in 1..Len(b) : (a \o b \o <<c>>)[Len(a) + i] = b[i]
          /\ (a \o b \o <<c>>)[Len(a) + Len(b) + 1] = c
        OBVIOUS
    <2> QED
        BY <2>1
<1>3. Len(j) = 2 * w + 1 <=> Len(a) = w /\ Len(b) = w
    <2>1. Len(a) <= w /\ Len(b) <= w /\ Len(a) \in Nat /\ Len(b) \in Nat
        OBVIOUS
    <2>2. Len(j) = Len(a) + Len(b) + 1
        BY <1>1
    <2> QED
        BY <2>1, <2>2, BothFull
<1>4. ASSUME Len(a) = w, Len(b) = w
      PROVE  SubSeq(j, 1, w) = a /\ SubSeq(j, w + 1, 2 * w) = b /\ j[2 * w + 1] = c
    <2>1. SubSeq(j, 1, w) = [i \in 1..w |-> j[i]]
        BY <1>1, <1>4
    <2>2. SubSeq(j, w + 1, 2 * w) = [i \in 1..w |-> j[w + i]]
        BY <1>1, <1>4
    <2>3. a = [i \in 1..w |-> a[i]] /\ b = [i \in 1..w |-> b[i]]
        BY <1>4
    <2>4. \A i \in 1..w : j[i] = a[i] /\ j[w + i] = b[i]
        BY <1>2, <1>4
    <2>5. j[2 * w + 1] = c
        BY <1>2, <1>4
    <2>6. [i \in 1..w |-> j[i]] = [i \in 1..w |-> a[i]] /\ [i \in 1..w |-> j[w + i]] = [i \in 1..w |-> b[i]]
        BY <2>4
    <2> QED
        BY <2>1, <2>2, <2>3, <2>5, <2>6
<1> QED
    BY <1>3, <1>4 DEF PartsFound

\* Why a transaction is never signed with shifted bytes, as an inductive invariant.
TransactionInv ==
    /\ TransactionNeverMisread
    /\ stage \in {"signing", "completed", "result"} => parsed = None
    /\ stage \in {"signing", "completed", "result", "parsed"} => raw = None

\* Whatever go-ethereum accepts of the joined bytes is the signature that was parsed.
LEMMA AcceptedIsParsed ==
    ASSUME WithSignature, raw = None
    PROVE  LET R == Digits(parsed.r, Byte, Width)
               S == Digits(parsed.s, Byte, Width)
           IN  \/ /\ stage' = "answered" /\ raw' # None /\ R[1] # 0 /\ S[1] # 0
                  /\ raw' = [r |-> R, s |-> S, v |-> result.v % Byte]
               \/ /\ stage' = "panicked" /\ raw' = None /\ (R[1] = 0 \/ S[1] = 0)
<1> DEFINE a == Bytes(parsed.r)
           b == Bytes(parsed.s)
           c == result.v % Byte
           j == a \o b \o <<c>>
           R == Digits(parsed.r, Byte, Width)
           S == Digits(parsed.s, Byte, Width)
<1>1. PICK A, B : a \in Seq(A) /\ b \in Seq(B)
    BY BytesLength
<1>2. /\ Len(a) \in 0..Width /\ Len(b) \in 0..Width
      /\ Len(a) = Width <=> R[1] # 0
      /\ Len(b) = Width <=> S[1] # 0
      /\ Len(a) = Width => a = R
      /\ Len(b) = Width => b = S
    BY BytesLength
<1>3. \/ /\ Len(j) = 2 * Width + 1
         /\ raw' = [r |-> SubSeq(j, 1, Width), s |-> SubSeq(j, Width + 1, 2 * Width),
                    v |-> j[2 * Width + 1]]
         /\ stage' = "answered"
      \/ /\ Len(j) # 2 * Width + 1
         /\ stage' = "panicked" /\ raw' = raw
    BY DEF WithSignature, TransactionBytes
<1>0. j = a \o b \o <<c>>
    OBVIOUS
<1> HIDE DEF a, b, c, j, R, S
<1>4. PICK T : c \in T /\ a \in Seq(T) /\ b \in Seq(T)
    <2>1. c \in A \cup B \cup {c} /\ a \in Seq(A \cup B \cup {c}) /\ b \in Seq(A \cup B \cup {c})
        BY <1>1
    <2> QED
        BY <2>1
<1>5. /\ Len(j) = 2 * Width + 1 <=> Len(a) = Width /\ Len(b) = Width
      /\ Len(j) = 2 * Width + 1 =>
            /\ SubSeq(j, 1, Width) = a
            /\ SubSeq(j, Width + 1, 2 * Width) = b
            /\ j[2 * Width + 1] = c
    <2>1. Width \in Nat /\ Len(a) \in 0..Width /\ Len(b) \in 0..Width
        BY <1>2, WidthAssumption
    <2>2. PartsFound(j, a, b, c, Width)
        BY <1>0, <1>4, <2>1, JoinedParts, Zenon
    <2> QED
        BY <2>2 DEF PartsFound
<1>6. CASE Len(j) = 2 * Width + 1
    <2>1. raw' = [r |-> R, s |-> S, v |-> c] /\ stage' = "answered"
        BY <1>2, <1>3, <1>5, <1>6
    <2>2. raw' # None
        BY <2>1 DEF None
    <2> QED
        BY <1>2, <1>5, <1>6, <2>1, <2>2 DEF R, S, c
<1>7. CASE Len(j) # 2 * Width + 1
    BY <1>2, <1>3, <1>5, <1>7 DEF R, S
<1> QED
    BY <1>6, <1>7

\* For every width: the bytes of r never shift into s, and exactly the signatures with
\* a leading zero byte in r or s are refused.
THEOREM TransactionHolds == Spec => []TransactionNeverMisread
<1>1. Init => TransactionInv
    BY DEF Init, TransactionInv, TransactionNeverMisread
<1>2. TransactionInv /\ [Next]_vars => TransactionInv'
    <2> SUFFICES ASSUME TransactionInv, [Next]_vars PROVE TransactionInv'
        OBVIOUS
    <2>1. CASE handleSuccess
        BY <2>1 DEF TransactionInv, TransactionNeverMisread, handleSuccess
    <2>2. CASE GetResult
        BY <2>2 DEF TransactionInv, TransactionNeverMisread, GetResult
    <2>3. CASE SignMessage
        BY <2>3 DEF TransactionInv, TransactionNeverMisread, SignMessage
    <2>4. CASE ParseResult
        BY <2>4 DEF TransactionInv, TransactionNeverMisread, ParseResult
    <2>5. CASE WithSignature
        <3>1. stage = "parsed" /\ raw = None /\ UNCHANGED <<parsed, result>>
            BY <2>5 DEF TransactionInv, WithSignature
        <3> QED
            BY <2>5, <3>1, AcceptedIsParsed DEF TransactionInv, TransactionNeverMisread
    <2>6. CASE UNCHANGED vars
        BY <2>6 DEF TransactionInv, TransactionNeverMisread, vars
    <2> QED
        BY <2>1, <2>2, <2>3, <2>4, <2>5, <2>6 DEF Next
<1>3. TransactionInv => TransactionNeverMisread
    BY DEF TransactionInv
<1> QED
    BY <1>1, <1>2, <1>3, PTL DEF Spec

-----------------------------------------------------------------------------
(* Induction and division.                                                 *)

\* Well-foundedness is all the induction that is needed: the library states it for a set.
Below == OpToRel(<, Nat)

\* Induction on the naturals, for a set of numbers: its complement has no least element.
LEMMA SetInduction ==
    ASSUME NEW S, 0 \in S, \A n \in Nat : n \in S => n + 1 \in S
    PROVE  Nat \subseteq S
<1> DEFINE T == Nat \ S
<1>1. SUFFICES ASSUME T # {} PROVE FALSE
    OBVIOUS
<1>2. T \subseteq Nat
    OBVIOUS
<1> HIDE DEF T
<1>3. IsWellFoundedOn(Below, Nat)
    BY NatLessThanWellFounded DEF Below
<1>4. PICK x \in T : \A y \in T : ~ (<<y, x>> \in Below)
    BY <1>1, <1>2, <1>3, WFMin
<1>5. \A y \in T : ~ (y < x)
    BY <1>2, <1>4 DEF Below, OpToRel
<1>6. x \in Nat /\ x # 0
    BY <1>4 DEF T
<1>7. x - 1 \in Nat /\ x - 1 \notin T
    BY <1>5, <1>6
<1> QED
    BY <1>4, <1>6, <1>7 DEF T

\* Division with remainder.
LEMMA Division ==
    \A n \in Nat, m \in Nat \ {0} :
        /\ n \div m \in Nat /\ n % m \in 0..(m - 1)
        /\ n = (m * (n \div m)) + (n % m)
OBVIOUS

\* Quotient and remainder are unique.
LEMMA DivisionUnique ==
    ASSUME NEW m \in Nat \ {0}, NEW q \in Nat, NEW r \in 0..(m - 1), NEW n, n = (m * q) + r
    PROVE  n \div m = q /\ n % m = r
OBVIOUS

\* A remainder below b, scaled by m, leaves room for a remainder below m.
LEMMA Bounded ==
    ASSUME NEW m \in Nat, NEW s \in Nat, NEW b \in Nat, s < b PROVE m * s + m <= m * b
<1>1. s + 1 <= b
    OBVIOUS
<1>2. PICK x \in Nat : b = s + 1 + x
    <2>1. b - (s + 1) \in Nat /\ b = s + 1 + (b - (s + 1))
        BY <1>1
    <2> QED
        BY <2>1
<1>3. m * b = m * s + m + m * x /\ m * x \in Nat
    BY <1>2
<1> QED
    BY <1>3

\* Dividing by a product is dividing by its factors, one after the other.
LEMMA DivisionTwice ==
    ASSUME NEW n \in Nat, NEW m \in Nat \ {0}, NEW b \in Nat \ {0}
    PROVE  n \div (m * b) = (n \div m) \div b
<1> DEFINE q == n \div m
           r == n % m
           p == q \div b
           s == q % b
<1>1. q \in Nat /\ r \in 0..(m - 1) /\ n = (m * q) + r
    BY Division
<1> HIDE DEF q, r
<1>2. p \in Nat /\ s \in 0..(b - 1) /\ q = (b * p) + s
    BY <1>1, Division
<1> HIDE DEF p, s
<1>3. n = ((m * b) * p) + ((m * s) + r)
    <2>1. m * q = m * ((b * p) + s)
        BY <1>2
    <2>2. m * ((b * p) + s) = ((m * b) * p) + (m * s)
        BY <1>2
    <2> QED
        BY <1>1, <1>2, <2>1, <2>2
<1>4. (m * s) + r \in 0..((m * b) - 1)
    <2>1. m * s + m <= m * b
        BY <1>2, Bounded
    <2>2. m * s \in Nat /\ m * b \in Nat
        BY <1>2
    <2> QED
        BY <1>1, <2>1, <2>2
<1>5. m * b \in Nat \ {0}
    OBVIOUS
<1>6. n \div (m * b) = p
    BY <1>2, <1>3, <1>4, <1>5, DivisionUnique
<1> QED
    BY <1>6 DEF p, q

-----------------------------------------------------------------------------
(* Power.                                                                  *)

\* The function that Power builds.
Powers(f, base, n) == f = [i \in 0..n |-> IF i = 0 THEN 1 ELSE base * f[i - 1]]

\* It exists, so CHOOSE (the recursive function of Power) finds it.
LEMMA PowersExist == \A base : \A n \in Nat : \E f : Powers(f, base, n)
<1> SUFFICES ASSUME NEW base PROVE \A n \in Nat : \E f : Powers(f, base, n)
    OBVIOUS
<1> DEFINE S == {n \in Nat : \E f : Powers(f, base, n)}
<1>1. 0 \in S
    <2>1. Powers([i \in 0..0 |-> 1], base, 0)
        BY DEF Powers
    <2> QED
        BY <2>1
<1>2. ASSUME NEW n \in Nat, n \in S PROVE n + 1 \in S
    <2>1. PICK f : Powers(f, base, n)
        BY <1>2
    <2> DEFINE g == [i \in 0..(n + 1) |-> IF i = n + 1 THEN base * f[n] ELSE f[i]]
    <2>2. /\ \A i \in 0..n : g[i] = f[i]
          /\ g[n + 1] = base * f[n]
        OBVIOUS
    <2>3. \A i \in 0..n : f[i] = IF i = 0 THEN 1 ELSE base * f[i - 1]
        <3> HIDE DEF g
        <3> QED
            BY <2>1 DEF Powers
    <2>4. \A i \in 0..(n + 1) : g[i] = IF i = 0 THEN 1 ELSE base * g[i - 1]
        <3> SUFFICES ASSUME NEW i \in 0..(n + 1)
                     PROVE  g[i] = IF i = 0 THEN 1 ELSE base * g[i - 1]
            OBVIOUS
        <3> HIDE DEF g
        <3>1. CASE i = n + 1
            BY <2>2, <3>1
        <3>2. CASE i \in 0..n
            <4>1. i = 0 \/ i - 1 \in 0..n
                BY <3>2
            <4> QED
                BY <2>2, <2>3, <3>2, <4>1
        <3> QED
            BY <3>1, <3>2
    <2>5. Powers(g, base, n + 1)
        BY <2>4 DEF Powers
    <2> QED
        BY <2>5
<1> HIDE DEF S
<1>3. Nat \subseteq S
    BY <1>1, <1>2, SetInduction
<1> QED
    BY <1>3 DEF S

LEMMA PowerBuilt ==
    \A base : \A n \in Nat : \E f : Powers(f, base, n) /\ Power(base, n) = f[n]
<1> SUFFICES ASSUME NEW base, NEW n \in Nat
             PROVE  \E f : Powers(f, base, n) /\ Power(base, n) = f[n]
    OBVIOUS
<1> DEFINE F == CHOOSE f : Powers(f, base, n)
<1>1. Powers(F, base, n)
    BY PowersExist
<1>2. Power(base, n) = F[n]
    BY DEF Power, Powers
<1> QED
    BY <1>1, <1>2

\* The functions for two exponents agree where both are defined.
LEMMA PowersAgree ==
    ASSUME NEW base, NEW n \in Nat, NEW k \in Nat, n <= k,
           NEW f, Powers(f, base, n), NEW g, Powers(g, base, k)
    PROVE  \A i \in 0..n : f[i] = g[i]
<1> DEFINE S == {i \in Nat : i <= n => f[i] = g[i]}
<1>1. /\ \A i \in 0..n : f[i] = IF i = 0 THEN 1 ELSE base * f[i - 1]
      /\ \A i \in 0..k : g[i] = IF i = 0 THEN 1 ELSE base * g[i - 1]
    BY DEF Powers
<1>2. 0 \in S
    BY <1>1
<1>3. ASSUME NEW i \in Nat, i \in S PROVE i + 1 \in S
    <2> SUFFICES ASSUME i + 1 <= n PROVE f[i + 1] = g[i + 1]
        OBVIOUS
    <2>1. i + 1 \in 0..n /\ i + 1 \in 0..k /\ (i + 1) - 1 = i /\ i + 1 # 0
        OBVIOUS
    <2>2. f[i] = g[i]
        BY <1>3, <2>1
    <2> HIDE DEF S
    <2>3. f[i + 1] = base * f[i] /\ g[i + 1] = base * g[i]
        BY <1>1, <2>1
    <2> QED
        BY <2>2, <2>3
<1> HIDE DEF S
<1>4. Nat \subseteq S
    BY <1>2, <1>3, SetInduction
<1> QED
    BY <1>4 DEF S

LEMMA PowerZero == \A base : Power(base, 0) = 1
<1> SUFFICES ASSUME NEW base PROVE Power(base, 0) = 1
    OBVIOUS
<1>1. PICK f : Powers(f, base, 0) /\ Power(base, 0) = f[0]
    BY PowerBuilt
<1> QED
    BY <1>1 DEF Powers

LEMMA PowerNext == \A base : \A n \in Nat : Power(base, n + 1) = base * Power(base, n)
<1> SUFFICES ASSUME NEW base, NEW n \in Nat PROVE Power(base, n + 1) = base * Power(base, n)
    OBVIOUS
<1>1. PICK f : Powers(f, base, n) /\ Power(base, n) = f[n]
    BY PowerBuilt
<1>2. n + 1 \in Nat
    OBVIOUS
<1>3. PICK g : Powers(g, base, n + 1) /\ Power(base, n + 1) = g[n + 1]
    BY <1>2, PowerBuilt
<1>4. f[n] = g[n]
    BY <1>1, <1>2, <1>3, PowersAgree
<1>5. g[n + 1] = base * g[n]
    <2>1. \A i \in 0..(n + 1) : g[i] = IF i = 0 THEN 1 ELSE base * g[i - 1]
        BY <1>3 DEF Powers
    <2>2. n + 1 \in 0..(n + 1) /\ n + 1 # 0 /\ (n + 1) - 1 = n
        OBVIOUS
    <2> QED
        BY <2>1, <2>2
<1> QED
    BY <1>1, <1>3, <1>4, <1>5

LEMMA PowerPositive == \A base \in Nat \ {0} : \A n \in Nat : Power(base, n) \in Nat \ {0}
<1> SUFFICES ASSUME NEW base \in Nat \ {0} PROVE \A n \in Nat : Power(base, n) \in Nat \ {0}
    OBVIOUS
<1> DEFINE S == {n \in Nat : Power(base, n) \in Nat \ {0}}
<1>1. 0 \in S
    BY PowerZero
<1>2. ASSUME NEW n \in Nat, n \in S PROVE n + 1 \in S
    <2>1. \A x \in Nat \ {0} : base * x \in Nat \ {0}
        OBVIOUS
    <2> QED
        BY <1>2, <2>1, PowerNext
<1> HIDE DEF S
<1>3. Nat \subseteq S
    BY <1>1, <1>2, SetInduction
<1> QED
    BY <1>3 DEF S

\* A byte is two hexadecimal digits, so w bytes are 2 * w of them.
LEMMA PowerOfSquare == \A b \in Nat \ {0} : \A w \in Nat : Power(b * b, w) = Power(b, 2 * w)
<1> SUFFICES ASSUME NEW b \in Nat \ {0} PROVE \A w \in Nat : Power(b * b, w) = Power(b, 2 * w)
    OBVIOUS
<1> DEFINE S == {w \in Nat : Power(b * b, w) = Power(b, 2 * w)}
<1>1. 0 \in S
    <2>1. 2 * 0 = 0
        OBVIOUS
    <2> QED
        BY <2>1, PowerZero
<1>2. ASSUME NEW w \in Nat, w \in S PROVE w + 1 \in S
    <2>1. 2 * (w + 1) = (2 * w + 1) + 1 /\ 2 * w \in Nat /\ 2 * w + 1 \in Nat
        OBVIOUS
    <2>2. Power(b, (2 * w + 1) + 1) = b * (b * Power(b, 2 * w))
        BY <2>1, PowerNext
    <2>3. Power(b * b, w + 1) = (b * b) * Power(b * b, w)
        BY PowerNext
    <2>4. \A x \in Nat : b * (b * x) = (b * b) * x
        OBVIOUS
    <2>5. Power(b, 2 * w) \in Nat
        BY <2>1, PowerPositive
    <2> QED
        BY <1>2, <2>1, <2>2, <2>3, <2>4, <2>5
<1> HIDE DEF S
<1>3. Nat \subseteq S
    BY <1>1, <1>2, SetInduction
<1> QED
    BY <1>3 DEF S

-----------------------------------------------------------------------------
(* Value.                                                                  *)

\* The function that Value builds from the first n digits.
Sums(f, d, base, n) == f = [i \in 0..n |-> IF i = 0 THEN 0 ELSE base * f[i - 1] + d[i]]

LEMMA SumsExist == \A d, base : \A n \in Nat : \E f : Sums(f, d, base, n)
<1> SUFFICES ASSUME NEW d, NEW base PROVE \A n \in Nat : \E f : Sums(f, d, base, n)
    OBVIOUS
<1> DEFINE S == {n \in Nat : \E f : Sums(f, d, base, n)}
<1>1. 0 \in S
    <2>1. Sums([i \in 0..0 |-> 0], d, base, 0)
        BY DEF Sums
    <2> QED
        BY <2>1
<1>2. ASSUME NEW n \in Nat, n \in S PROVE n + 1 \in S
    <2>1. PICK f : Sums(f, d, base, n)
        BY <1>2
    <2> DEFINE g == [i \in 0..(n + 1) |-> IF i = n + 1 THEN base * f[n] + d[n + 1] ELSE f[i]]
    <2>2. /\ \A i \in 0..n : g[i] = f[i]
          /\ g[n + 1] = base * f[n] + d[n + 1]
        OBVIOUS
    <2>3. \A i \in 0..n : f[i] = IF i = 0 THEN 0 ELSE base * f[i - 1] + d[i]
        <3> HIDE DEF g
        <3> QED
            BY <2>1 DEF Sums
    <2>4. \A i \in 0..(n + 1) : g[i] = IF i = 0 THEN 0 ELSE base * g[i - 1] + d[i]
        <3> SUFFICES ASSUME NEW i \in 0..(n + 1)
                     PROVE  g[i] = IF i = 0 THEN 0 ELSE base * g[i - 1] + d[i]
            OBVIOUS
        <3> HIDE DEF g
        <3>1. CASE i = n + 1
            BY <2>2, <3>1
        <3>2. CASE i \in 0..n
            <4>1. i = 0 \/ i - 1 \in 0..n
                BY <3>2
            <4> QED
                BY <2>2, <2>3, <3>2, <4>1
        <3> QED
            BY <3>1, <3>2
    <2>5. Sums(g, d, base, n + 1)
        BY <2>4 DEF Sums
    <2> QED
        BY <2>5
<1> HIDE DEF S
<1>3. Nat \subseteq S
    BY <1>1, <1>2, SetInduction
<1> QED
    BY <1>3 DEF S

LEMMA ValueBuilt ==
    ASSUME NEW d, NEW base, NEW n \in Nat, n = Len(d)
    PROVE  \E f : Sums(f, d, base, n) /\ Value(d, base) = f[n]
<1> DEFINE F == CHOOSE f : Sums(f, d, base, n)
<1>1. Sums(F, d, base, n)
    BY SumsExist
<1>2. Value(d, base) = F[n]
    BY DEF Value, Sums
<1> QED
    BY <1>1, <1>2

SumsUpTo(f, d, base, n) ==
    f[0] = 0 /\ \A i \in 1..n : f[i] = base * f[i - 1] + d[i]

\* Its equations, one for the empty prefix and one for each digit.
LEMMA SumsStep ==
    \A d, base, f : \A n \in Nat : Sums(f, d, base, n) => SumsUpTo(f, d, base, n)
<1> SUFFICES ASSUME NEW d, NEW base, NEW n \in Nat, NEW f, Sums(f, d, base, n)
             PROVE  SumsUpTo(f, d, base, n)
    OBVIOUS
<1>1. \A i \in 0..n : f[i] = IF i = 0 THEN 0 ELSE base * f[i - 1] + d[i]
    BY DEF Sums
<1>2. 0 \in 0..n /\ \A i \in 1..n : i \in 0..n /\ i # 0
    OBVIOUS
<1> QED
    BY <1>1, <1>2 DEF SumsUpTo

\* Leading zeros do not count.
LEMMA ValueBehindZeros ==
    ASSUME NEW base \in Nat, NEW w \in Nat, NEW d \in [1..w -> Nat], NEW k \in 0..w, ZeroUpTo(d, k)
    PROVE  Value(Behind(d, k, w), base) = Value(d, base)
<1> DEFINE e == Behind(d, k, w)
<1>1. Len(d) = w /\ Len(e) = w - k /\ w - k \in Nat /\ k \in Nat
    BY DEF Behind
<1>2. \A j \in 1..(w - k) : e[j] = d[j + k]
    BY DEF Behind
<1> HIDE DEF e
<1>3. PICK f : Sums(f, d, base, w) /\ Value(d, base) = f[w]
    BY <1>1, ValueBuilt
<1>4. PICK g : Sums(g, e, base, w - k) /\ Value(e, base) = g[w - k]
    BY <1>1, ValueBuilt
<1>5. /\ f[0] = 0 /\ \A i \in 1..w : f[i] = base * f[i - 1] + d[i]
      /\ g[0] = 0 /\ \A i \in 1..(w - k) : g[i] = base * g[i - 1] + e[i]
    <2>1. SumsUpTo(f, d, base, w) /\ SumsUpTo(g, e, base, w - k)
        BY <1>1, <1>3, <1>4, SumsStep
    <2> QED
        BY <2>1 DEF SumsUpTo
<1>6. f[k] = 0
    <2> DEFINE S == {i \in Nat : i <= k => f[i] = 0}
    <2>1. 0 \in S
        BY <1>5
    <2>2. ASSUME NEW i \in Nat, i \in S PROVE i + 1 \in S
        <3> SUFFICES ASSUME i + 1 <= k PROVE f[i + 1] = 0
            OBVIOUS
        <3>1. i + 1 \in 1..w /\ i + 1 \in 1..k /\ (i + 1) - 1 = i /\ f[i] = 0
            BY <2>2
        <3>2. d[i + 1] = 0
            BY <3>1 DEF ZeroUpTo
        <3> HIDE DEF S
        <3>3. f[i + 1] = base * f[i] + d[i + 1]
            BY <1>5, <3>1
        <3> QED
            BY <3>1, <3>2, <3>3
    <2> HIDE DEF S
    <2>3. Nat \subseteq S
        BY <2>1, <2>2, SetInduction
    <2> QED
        BY <1>1, <2>3 DEF S
<1>7. f[w] = g[w - k]
    <2> DEFINE S == {j \in Nat : j <= w - k => f[k + j] = g[j]}
    <2>1. 0 \in S
        BY <1>1, <1>5, <1>6
    <2>2. ASSUME NEW j \in Nat, j \in S PROVE j + 1 \in S
        <3> SUFFICES ASSUME j + 1 <= w - k PROVE f[k + (j + 1)] = g[j + 1]
            OBVIOUS
        <3>1. /\ j + 1 \in 1..(w - k) /\ (j + 1) - 1 = j
              /\ k + (j + 1) \in 1..w /\ (k + (j + 1)) - 1 = k + j /\ (j + 1) + k = k + (j + 1)
            BY <1>1
        <3>2. f[k + j] = g[j]
            BY <1>1, <2>2, <3>1
        <3>3. e[j + 1] = d[k + (j + 1)]
            BY <1>2, <3>1
        <3> HIDE DEF S
        <3>4. f[k + (j + 1)] = base * f[k + j] + d[k + (j + 1)]
            BY <1>5, <3>1
        <3>5. g[j + 1] = base * g[j] + e[j + 1]
            BY <1>5, <3>1
        <3> QED
            BY <3>2, <3>3, <3>4, <3>5
    <2> HIDE DEF S
    <2>3. Nat \subseteq S
        BY <2>1, <2>2, SetInduction
    <2>4. w - k \in S /\ k + (w - k) = w
        BY <1>1, <2>3
    <2> QED
        BY <1>1, <2>4 DEF S
<1> QED
    BY <1>3, <1>4, <1>7 DEF e

\* Digits are below the base.
LEMMA DigitsTyped ==
    ASSUME NEW base \in Nat \ {0}, NEW w \in Nat, NEW n \in Nat
    PROVE  Digits(n, base, w) \in [1..w -> 0..(base - 1)]
<1>1. ASSUME NEW i \in 1..w PROVE (n \div Power(base, w - i)) % base \in 0..(base - 1)
    <2>1. w - i \in Nat
        OBVIOUS
    <2>2. Power(base, w - i) \in Nat \ {0}
        BY <2>1, PowerPositive
    <2>3. n \div Power(base, w - i) \in Nat
        BY <2>2, Division
    <2> QED
        BY <2>3, Division
<1> QED
    BY <1>1 DEF Digits

\* The digits of a number that fits give it back.
LEMMA ValueOfDigits ==
    ASSUME NEW base \in Nat \ {0}, NEW w \in Nat, NEW n \in Nat, n < Power(base, w)
    PROVE  Value(Digits(n, base, w), base) = n
<1> DEFINE d == Digits(n, base, w)
           high(i) == n \div Power(base, w - i)
<1>1. d \in [1..w -> 0..(base - 1)] /\ \A i \in 1..w : d[i] = high(i) % base
    BY DigitsTyped DEF Digits
<1>2. Len(d) = w
    BY <1>1
<1>3. high(0) = 0
    <2>1. Power(base, w) \in Nat \ {0} /\ w - 0 = w
        BY PowerPositive
    <2>2. n = (Power(base, w) * 0) + n /\ n \in 0..(Power(base, w) - 1)
        BY <2>1
    <2>3. n \div Power(base, w) = 0
        BY <2>1, <2>2, DivisionUnique
    <2> QED
        BY <2>1, <2>3
<1>4. high(w) = n
    <2>1. w - w = 0 /\ Power(base, 0) = 1
        BY PowerZero
    <2>2. n \div 1 = n
        OBVIOUS
    <2> QED
        BY <2>1, <2>2
<1>5. ASSUME NEW i \in 0..(w - 1)
      PROVE  /\ high(i + 1) \in Nat
             /\ high(i) = high(i + 1) \div base
    <2>1. w - (i + 1) \in Nat /\ w - i = (w - (i + 1)) + 1
        OBVIOUS
    <2>2. Power(base, w - (i + 1)) \in Nat \ {0}
        BY <2>1, PowerPositive
    <2>3. Power(base, w - i) = base * Power(base, w - (i + 1))
        BY <2>1, PowerNext
    <2>4. base * Power(base, w - (i + 1)) = Power(base, w - (i + 1)) * base
        BY <2>2
    <2>5. n \div (Power(base, w - (i + 1)) * base) = (n \div Power(base, w - (i + 1))) \div base
        BY <2>2, DivisionTwice
    <2>6. n \div Power(base, w - (i + 1)) \in Nat
        BY <2>2, Division
    <2> QED
        BY <2>3, <2>4, <2>5, <2>6
<1> HIDE DEF d, high
<1>6. PICK f : Sums(f, d, base, w) /\ Value(d, base) = f[w]
    BY <1>2, ValueBuilt
<1>7. f[0] = 0 /\ \A i \in 1..w : f[i] = base * f[i - 1] + d[i]
    <2>1. SumsUpTo(f, d, base, w)
        BY <1>6, SumsStep
    <2> QED
        BY <2>1 DEF SumsUpTo
<1> DEFINE S == {i \in Nat : i <= w => f[i] = high(i)}
<1>8. 0 \in S
    BY <1>3, <1>7
<1>9. ASSUME NEW i \in Nat, i \in S PROVE i + 1 \in S
    <2> SUFFICES ASSUME i + 1 <= w PROVE f[i + 1] = high(i + 1)
        OBVIOUS
    <2>1. i + 1 \in 1..w /\ i \in 0..(w - 1) /\ (i + 1) - 1 = i /\ f[i] = high(i)
        BY <1>9
    <2> HIDE DEF S
    <2>2. f[i + 1] = base * high(i) + d[i + 1]
        BY <1>7, <2>1
    <2>3. d[i + 1] = high(i + 1) % base
        BY <1>1, <2>1
    <2>4. high(i + 1) \in Nat /\ high(i) = high(i + 1) \div base
        BY <1>5, <2>1
    <2>5. high(i + 1) = (base * (high(i + 1) \div base)) + (high(i + 1) % base)
        BY <2>4, Division
    <2> QED
        BY <2>2, <2>3, <2>4, <2>5
<1> HIDE DEF S
<1>10. Nat \subseteq S
    BY <1>8, <1>9, SetInduction
<1>11. f[w] = high(w)
    BY <1>10 DEF S
<1> QED
    BY <1>4, <1>6, <1>11 DEF d

\* So do the digits without their leading zeros.
LEMMA ValueOfTrimmed ==
    ASSUME NEW base \in Nat \ {0}, NEW w \in Nat, NEW n \in Nat, n < Power(base, w)
    PROVE  Value(Trim(Digits(n, base, w)), base) = n
<1> DEFINE d == Digits(n, base, w)
           k == Cardinality(LeadingZeros(d))
<1>1. d \in [1..w -> 0..(base - 1)] /\ d \in [1..w -> Nat]
    <2>1. d \in [1..w -> 0..(base - 1)]
        BY DigitsTyped
    <2>2. 0..(base - 1) \subseteq Nat
        OBVIOUS
    <2> HIDE DEF d
    <2> QED
        BY <2>1, <2>2
<1>0. k = Cardinality(LeadingZeros(d))
    OBVIOUS
<1>2. Value(d, base) = n
    BY ValueOfDigits
<1> HIDE DEF d, k
<1>3. k \in 0..w /\ Trim(d) = Behind(d, k, w) /\ ZeroUpTo(d, k)
    BY <1>0, <1>1, TrimIsTail
<1>4. Value(Behind(d, k, w), base) = Value(d, base)
    BY <1>1, <1>3, ValueBehindZeros
<1> QED
    BY <1>2, <1>3, <1>4 DEF d

\* A number other than zero keeps a digit.
LEMMA TrimmedLength ==
    ASSUME NEW base \in Nat \ {0}, NEW w \in Nat, NEW n \in Nat \ {0}, n < Power(base, w)
    PROVE  Len(Trim(Digits(n, base, w))) \in 1..w
<1> DEFINE d == Digits(n, base, w)
           k == Cardinality(LeadingZeros(d))
           e == Trim(d)
<1>1. d \in [1..w -> 0..(base - 1)]
    BY DigitsTyped
<1>0. k = Cardinality(LeadingZeros(d)) /\ Value(e, base) = n
    BY ValueOfTrimmed
<1>3. k \in 0..w /\ e = Behind(d, k, w)
    <2> HIDE DEF d, k
    <2> QED
        BY <1>0, <1>1, TrimIsTail
<1> HIDE DEF d, k, e
<1>4. Len(e) = w - k
    BY <1>3 DEF Behind
<1>5. Len(e) # 0
    <2> SUFFICES ASSUME Len(e) = 0 PROVE FALSE
        OBVIOUS
    <2>1. PICK f : Sums(f, e, base, 0) /\ Value(e, base) = f[0]
        BY ValueBuilt
    <2>2. f[0] = 0
        <3>1. SumsUpTo(f, e, base, 0)
            BY <2>1, SumsStep
        <3> QED
            BY <3>1 DEF SumsUpTo
    <2> QED
        BY <1>0, <2>1, <2>2
<1> QED
    BY <1>3, <1>4, <1>5 DEF d, e

-----------------------------------------------------------------------------
(* The texts and bytes of a signature.                                     *)

\* The sizes of a hexadecimal digit, of a byte and of a recovery id.
LEMMA Sizes ==
    /\ Nibble \in Nat \ {0} /\ Byte \in Nat \ {0} /\ Nibble <= Byte
    /\ \A v \in RecoveryIds : v \in 0..(Byte - 1) /\ v % Byte = v
<1>1. Nibble \in Nat /\ Nibble >= 2
    BY NibbleAssumption
<1>2. Byte \in Nat /\ Nibble <= Byte
    <2>1. PICK x \in Nat : Nibble = x + 1
        <3>1. Nibble - 1 \in Nat /\ Nibble = (Nibble - 1) + 1
            BY <1>1
        <3> QED
            BY <3>1
    <2>2. Nibble * Nibble = Nibble + Nibble * x /\ Nibble * x \in Nat
        BY <1>1, <2>1
    <2> QED
        BY <1>1, <2>2 DEF Byte
<1>3. ASSUME NEW v \in RecoveryIds PROVE v \in 0..(Byte - 1) /\ v % Byte = v
    <2>1. v \in 0..(Nibble - 1)
        BY NibbleAssumption
    <2>2. v \in 0..(Byte - 1) /\ v = (Byte * 0) + v /\ Byte \in Nat \ {0}
        BY <1>1, <1>2, <2>1
    <2> QED
        BY <2>2, DivisionUnique
<1> QED
    BY <1>1, <1>2, <1>3

\* A scalar fits into Width bytes, and into twice as many hexadecimal digits.
LEMMA ScalarFits ==
    ASSUME NEW n \in Scalars
    PROVE  n \in Nat \ {0} /\ n < Power(Byte, Width) /\ n < Power(Nibble, 2 * Width)
<1>1. Power(Byte, Width) \in Nat
    BY Sizes, WidthAssumption, PowerPositive
<1>2. n \in Nat \ {0} /\ n < Power(Byte, Width)
    BY <1>1 DEF Scalars
<1>3. Power(Byte, Width) = Power(Nibble, 2 * Width)
    BY Sizes, WidthAssumption, PowerOfSquare DEF Byte
<1> QED
    BY <1>2, <1>3

\* Hexadecimal text gives the bytes back.
LEMMA HexRoundTrip ==
    ASSUME NEW n \in Nat, NEW b \in [1..n -> 0..(Byte - 1)]
    PROVE  /\ Hex(b) \in [1..(2 * n) -> 0..(Nibble - 1)]
           /\ Unhex(Hex(b)) = b
<1> DEFINE t == Hex(b)
<1>1. Len(b) = n
    OBVIOUS
<1>2. ASSUME NEW x \in 0..(Byte - 1)
      PROVE  /\ x \div Nibble \in 0..(Nibble - 1) /\ x % Nibble \in 0..(Nibble - 1)
             /\ (Nibble * (x \div Nibble)) + (x % Nibble) = x
    <2>1. x \in Nat /\ Nibble \in Nat \ {0} /\ x < Nibble * Nibble
        BY Sizes DEF Byte
    <2>2. /\ x \div Nibble \in Nat /\ x % Nibble \in 0..(Nibble - 1)
          /\ x = (Nibble * (x \div Nibble)) + (x % Nibble)
        BY <2>1, Division
    <2>3. x \div Nibble < Nibble
        <3> SUFFICES ASSUME ~(x \div Nibble < Nibble) PROVE FALSE
            OBVIOUS
        <3> DEFINE q == x \div Nibble
        <3>1. PICK y \in Nat : q = Nibble + y
            <4>1. q - Nibble \in Nat /\ q = Nibble + (q - Nibble)
                BY <2>1, <2>2
            <4> QED
                BY <4>1
        <3>2. Nibble * q = Nibble * Nibble + Nibble * y /\ Nibble * y \in Nat
            BY <2>1, <3>1
        <3> HIDE DEF q
        <3>3. x = (Nibble * q) + (x % Nibble)
            BY <2>2 DEF q
        <3> QED
            BY <2>1, <2>2, <3>2, <3>3
    <2> QED
        BY <2>1, <2>2, <2>3
<1>3. t = [i \in 1..(2 * n) |->
              IF i % 2 = 1 THEN b[(i + 1) \div 2] \div Nibble ELSE b[i \div 2] % Nibble]
    BY <1>1 DEF Hex
<1>4. ASSUME NEW i \in 1..(2 * n) PROVE t[i] \in 0..(Nibble - 1)
    <2>1. CASE i % 2 = 1
        <3>1. (i + 1) \div 2 \in 1..n
            BY <2>1
        <3>2. t[i] = b[(i + 1) \div 2] \div Nibble
            BY <1>3, <2>1
        <3> QED
            BY <1>2, <3>1, <3>2
    <2>2. CASE i % 2 # 1
        <3>1. i \div 2 \in 1..n
            BY <2>2
        <3>2. t[i] = b[i \div 2] % Nibble
            BY <1>3, <2>2
        <3> QED
            BY <1>2, <3>1, <3>2
    <2> QED
        BY <2>1, <2>2
<1>5. t \in [1..(2 * n) -> 0..(Nibble - 1)]
    BY <1>3, <1>4
<1>6. Len(t) \div 2 = n
    <2>1. Len(t) = 2 * n
        BY <1>5
    <2> QED
        BY <2>1
<1>7. ASSUME NEW i \in 1..n PROVE (Nibble * t[2 * i - 1]) + t[2 * i] = b[i]
    <2>1. /\ 2 * i - 1 \in 1..(2 * n) /\ (2 * i - 1) % 2 = 1 /\ ((2 * i - 1) + 1) \div 2 = i
          /\ 2 * i \in 1..(2 * n) /\ (2 * i) % 2 # 1 /\ (2 * i) \div 2 = i
        OBVIOUS
    <2>2. t[2 * i - 1] = b[i] \div Nibble /\ t[2 * i] = b[i] % Nibble
        BY <1>3, <2>1
    <2> HIDE DEF t
    <2> QED
        BY <1>2, <2>2
<1> HIDE DEF t
<1>8. Unhex(t) = [i \in 1..n |-> b[i]]
    BY <1>6, <1>7 DEF Unhex
<1>9. b = [i \in 1..n |-> b[i]]
    OBVIOUS
<1> QED
    BY <1>5, <1>8, <1>9 DEF t

\* The numbers of a text or of a byte string are read back, with or without leading zeros.
LEMMA NumbersReadBack ==
    ASSUME NEW n \in Scalars
    PROVE  /\ Digits(n, Byte, Width) \in ByteStrings(Width)
           /\ Value(Digits(n, Byte, Width), Byte) = n
           /\ Value(Trim(Digits(n, Byte, Width)), Byte) = n
           /\ Value(Text(n), Nibble) = n
           /\ Len(Text(n)) \in 1..(2 * Width)
<1>1. /\ n \in Nat \ {0} /\ n \in Nat /\ n < Power(Byte, Width) /\ n < Power(Nibble, 2 * Width)
      /\ Byte \in Nat \ {0} /\ Nibble \in Nat \ {0} /\ Width \in Nat /\ 2 * Width \in Nat
    BY ScalarFits, Sizes, WidthAssumption
<1>2. Digits(n, Byte, Width) \in ByteStrings(Width)
    BY <1>1, DigitsTyped DEF ByteStrings
<1>3. Text(n) = Trim(Digits(n, Nibble, 2 * Width))
    BY <1>1 DEF Text
<1>4. /\ Value(Digits(n, Byte, Width), Byte) = n
      /\ Value(Trim(Digits(n, Byte, Width)), Byte) = n
    BY <1>1, ValueOfDigits, ValueOfTrimmed
<1>5. /\ Value(Trim(Digits(n, Nibble, 2 * Width)), Nibble) = n
      /\ Len(Trim(Digits(n, Nibble, 2 * Width))) \in 1..(2 * Width)
    BY <1>1, ValueOfTrimmed, TrimmedLength
<1> QED
    BY <1>2, <1>3, <1>4, <1>5

\* What tss-lib may make.
SignatureSet == [r : Scalars, s : Scalars, v : RecoveryIds]

\* A function on 1..w is a sequence of length w.
LEMMA FunctionsAreSequences ==
    \A T : \A w \in Nat :
        /\ \A d \in [1..w -> T] : d \in Seq(T) /\ Len(d) = w
        /\ \A d \in Seq(T) : Len(d) = w => d \in [1..w -> T]
        /\ \A d, e \in Seq(T), x \in T : (d \o e) \o <<x>> \in Seq(T)
OBVIOUS

\* The 65 bytes: r, s and v at their places.
LEMMA SignatureParts ==
    ASSUME NEW g \in SignatureSet
    PROVE  LET b == SignatureToBytes(g)
           IN  /\ b \in [1..(2 * Width + 1) -> 0..(Byte - 1)]
               /\ SubSeq(b, 1, Width) = Digits(g.r, Byte, Width)
               /\ SubSeq(b, Width + 1, 2 * Width) = Digits(g.s, Byte, Width)
               /\ b[2 * Width + 1] = g.v
<1> DEFINE R == Digits(g.r, Byte, Width)
           S == Digits(g.s, Byte, Width)
           b == SignatureToBytes(g)
<1>1. g.r \in Scalars /\ g.s \in Scalars /\ g.v \in RecoveryIds
    BY DEF SignatureSet
<1>2. R \in [1..Width -> 0..(Byte - 1)] /\ S \in [1..Width -> 0..(Byte - 1)]
    BY <1>1, NumbersReadBack DEF ByteStrings
<1>3. g.v \in 0..(Byte - 1) /\ b = R \o S \o <<g.v>>
    BY <1>1, Sizes, SignatureBytesExact
<1> DEFINE T == 0..(Byte - 1)
<1>0. g.v \in T /\ R \in [1..Width -> T] /\ S \in [1..Width -> T]
    BY <1>2, <1>3
<1> HIDE DEF R, S, b, T
<1>4. /\ R \in Seq(T) /\ S \in Seq(T)
      /\ Len(R) = Width /\ Len(S) = Width /\ Width \in Nat
    BY <1>0, WidthAssumption, FunctionsAreSequences
<1>5. PartsFound(b, R, S, g.v, Width)
    <2>1. Len(R) \in 0..Width /\ Len(S) \in 0..Width
        BY <1>4
    <2> QED
        BY <1>0, <1>3, <1>4, <2>1, JoinedParts
<1>6. Len(b) = 2 * Width + 1
    BY <1>4, <1>5 DEF PartsFound
<1>7. b \in [1..(2 * Width + 1) -> T]
    <2>1. b \in Seq(T)
        BY <1>0, <1>3, <1>4
    <2>2. 2 * Width + 1 \in Nat
        BY <1>4
    <2> QED
        BY <1>6, <2>1, <2>2, FunctionsAreSequences
<1> QED
    BY <1>5, <1>6, <1>7 DEF PartsFound, b, R, S, T

-----------------------------------------------------------------------------
(* The answer.                                                             *)

\* Every stage holds what the stages before it have made of the one signature.
SignatureInv ==
    /\ request \in {"message", "transaction"}
    /\ stage \in {"signing", "completed", "result", "parsed", "answered", "panicked"}
    /\ stage # "signing" => made \in SignatureSet /\ sig = made
    /\ stage \in {"signing", "completed"} => result = None
    /\ stage \in {"signing", "completed", "result"} => parsed = None
    /\ stage \in {"signing", "completed", "result", "parsed"} => raw = None
    /\ stage \in {"result", "parsed"} => result # None
    /\ stage = "parsed" => parsed # None
    /\ result # None =>
          result = [signature |-> Hex(SignatureToBytes(made)),
                    r |-> Text(made.r), s |-> Text(made.s), v |-> made.v]
    /\ parsed # None => parsed = [r |-> made.r, s |-> made.s]
    /\ raw # None =>
          raw = [r |-> Digits(made.r, Byte, Width), s |-> Digits(made.s, Byte, Width),
                 v |-> made.v]

\* No step makes a number out of a text or bytes other than the one they were made of.
LEMMA SignatureStep == SignatureInv /\ [Next]_vars => SignatureInv'
<1> SUFFICES ASSUME SignatureInv, [Next]_vars PROVE SignatureInv'
    OBVIOUS
<1>1. CASE handleSuccess
    <2>1. PICK r \in Scalars, s \in Scalars, v \in RecoveryIds :
              /\ made' = [r |-> r, s |-> s, v |-> v]
              /\ \/ sig' = GetSignature(Digits(r, Byte, Width), Digits(s, Byte, Width), v)
                 \/ sig' = GetSignature(Trim(Digits(r, Byte, Width)), Trim(Digits(s, Byte, Width)), v)
        BY <1>1 DEF handleSuccess
    <2>2. sig' = [r |-> r, s |-> s, v |-> v]
        BY <2>1, NumbersReadBack DEF GetSignature
    <2>3. made' \in SignatureSet /\ sig' = made'
        BY <2>1, <2>2 DEF SignatureSet
    <2>4. /\ stage = "signing" /\ stage' = "completed"
          /\ UNCHANGED <<request, result, parsed, raw>>
        BY <1>1 DEF handleSuccess
    <2> QED
        BY <2>3, <2>4 DEF SignatureInv
<1>2. CASE GetResult
    <2>1. sig = made /\ stage = "completed" /\ stage' = "result"
          /\ UNCHANGED <<request, made, sig, parsed, raw>>
        BY <1>2 DEF SignatureInv, GetResult
    <2>2. result' = [signature |-> Hex(SignatureToBytes(made)),
                     r |-> Text(made.r), s |-> Text(made.s), v |-> made.v]
        BY <1>2, <2>1 DEF GetResult
    <2>3. result' # None
        BY <2>2 DEF None
    <2> QED
        BY <2>1, <2>2, <2>3 DEF SignatureInv
<1>3. CASE SignMessage
    BY <1>3 DEF SignatureInv, SignMessage
<1>4. CASE ParseResult
    <2>1. /\ stage = "result" /\ stage' = "parsed"
          /\ UNCHANGED <<request, made, sig, result, raw>>
          /\ parsed' = [r |-> Value(result.r, Nibble), s |-> Value(result.s, Nibble)]
        BY <1>4 DEF ParseResult
    <2>2. made.r \in Scalars /\ made.s \in Scalars /\ result.r = Text(made.r) /\ result.s = Text(made.s)
        BY <2>1 DEF SignatureInv, SignatureSet
    <2>3. parsed' = [r |-> made.r, s |-> made.s]
        BY <2>1, <2>2, NumbersReadBack
    <2>4. parsed' # None
        BY <2>3 DEF None
    <2> QED
        BY <2>1, <2>3, <2>4 DEF SignatureInv
<1>5. CASE WithSignature
    <2>1. /\ stage = "parsed" /\ raw = None /\ stage' \in {"answered", "panicked"}
          /\ UNCHANGED <<request, made, sig, result, parsed>>
        BY <1>5 DEF SignatureInv, WithSignature
    <2>2. /\ parsed = [r |-> made.r, s |-> made.s] /\ result.v = made.v
          /\ made.v % Byte = made.v
        BY <2>1, Sizes DEF SignatureInv, SignatureSet
    <2>3. raw' # None =>
              raw' = [r |-> Digits(made.r, Byte, Width), s |-> Digits(made.s, Byte, Width),
                      v |-> made.v]
        BY <1>5, <2>1, <2>2, AcceptedIsParsed
    <2> QED
        BY <2>1, <2>3 DEF SignatureInv
<1>6. CASE UNCHANGED vars
    BY <1>6 DEF SignatureInv, vars
<1> QED
    BY <1>1, <1>2, <1>3, <1>4, <1>5, <1>6 DEF Next

\* The shapes follow from what the stages hold.
LEMMA SignatureTyped == SignatureInv => TypeOK
<1> SUFFICES ASSUME SignatureInv PROVE TypeOK
    OBVIOUS
<1>1. stage # "signing" => made \in [r : Scalars, s : Scalars, v : RecoveryIds] /\ sig = made
    BY DEF SignatureInv, SignatureSet
<1>2. (result # None \/ parsed # None \/ raw # None) => made \in SignatureSet
    BY DEF SignatureInv
<1>3. ASSUME result # None
      PROVE  /\ result.signature \in [1..(4 * Width + 2) -> 0..(Nibble - 1)]
             /\ {Len(result.r), Len(result.s)} \subseteq 1..(2 * Width)
    <2>1. /\ result.signature = Hex(SignatureToBytes(made))
          /\ result.r = Text(made.r) /\ result.s = Text(made.s)
        BY <1>3 DEF SignatureInv
    <2>2. made.r \in Scalars /\ made.s \in Scalars /\ made \in SignatureSet
        BY <1>2, <1>3 DEF SignatureSet
    <2>3. SignatureToBytes(made) \in [1..(2 * Width + 1) -> 0..(Byte - 1)]
        BY <2>2, SignatureParts
    <2>4. 2 * Width + 1 \in Nat /\ 2 * (2 * Width + 1) = 4 * Width + 2
        BY WidthAssumption
    <2>5. Hex(SignatureToBytes(made)) \in [1..(4 * Width + 2) -> 0..(Nibble - 1)]
        BY <2>3, <2>4, HexRoundTrip
    <2> QED
        BY <2>1, <2>2, <2>5, NumbersReadBack
<1>4. parsed # None => parsed \in [r : Scalars, s : Scalars]
    BY <1>2 DEF SignatureInv, SignatureSet
<1>5. ASSUME raw # None
      PROVE  raw \in [r : ByteStrings(Width), s : ByteStrings(Width), v : RecoveryIds]
    <2>1. made.r \in Scalars /\ made.s \in Scalars /\ made.v \in RecoveryIds
        BY <1>2, <1>5 DEF SignatureSet
    <2> QED
        BY <1>5, <2>1, NumbersReadBack DEF SignatureInv
<1> QED
    BY <1>1, <1>3, <1>4, <1>5 DEF SignatureInv, TypeOK

\* Both forms of the answer read back as the signature.
LEMMA SignatureAnswered == SignatureInv => AnswerIsSignature
<1> SUFFICES ASSUME SignatureInv, result # None PROVE AnswerIsSignature
    BY DEF AnswerIsSignature
<1>1. made \in SignatureSet
    BY DEF SignatureInv
<1>2. /\ result.signature = Hex(SignatureToBytes(made)) /\ result.v = made.v
      /\ result.r = Text(made.r) /\ result.s = Text(made.s)
    BY DEF SignatureInv
<1>3. made.r \in Scalars /\ made.s \in Scalars
    BY <1>1 DEF SignatureSet
<1> DEFINE b == SignatureToBytes(made)
<1>4. /\ b \in [1..(2 * Width + 1) -> 0..(Byte - 1)]
      /\ SubSeq(b, 1, Width) = Digits(made.r, Byte, Width)
      /\ SubSeq(b, Width + 1, 2 * Width) = Digits(made.s, Byte, Width)
      /\ b[2 * Width + 1] = made.v
    BY <1>1, SignatureParts
<1>5. Unhex(result.signature) = b
    <2>1. 2 * Width + 1 \in Nat
        BY WidthAssumption
    <2> QED
        BY <1>2, <1>4, <2>1, HexRoundTrip
<1> HIDE DEF b
<1>6. /\ Value(SubSeq(b, 1, Width), Byte) = made.r
      /\ Value(SubSeq(b, Width + 1, 2 * Width), Byte) = made.s
      /\ Value(result.r, Nibble) = made.r /\ Value(result.s, Nibble) = made.s
    BY <1>2, <1>3, <1>4, NumbersReadBack
<1> QED
    BY <1>2, <1>4, <1>5, <1>6 DEF AnswerIsSignature

LEMMA SignatureInvariant == Spec => []SignatureInv
<1>1. Init => SignatureInv
    BY DEF Init, SignatureInv
<1> QED
    BY <1>1, SignatureStep, PTL DEF Spec

\* For every base and width: the 65 bytes, the texts, the parsed numbers and the
\* transaction's signature have the shape that their consumers rely on.
THEOREM SignatureTypeCorrect == Spec => []TypeOK
    BY SignatureInvariant, SignatureTyped, PTL

\* For every base and width: what GetResult (signing.go) answers gives back the signature
\* that tss-lib made, from the 65 bytes and from the two texts, whatever zeros r and s
\* begin with.
THEOREM AnswerHolds == Spec => []AnswerIsSignature
    BY SignatureInvariant, SignatureAnswered, PTL
=============================================================================
