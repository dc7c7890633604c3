------------------------ MODULE KeyValidationProofs ------------------------
(***************************************************************************)
(* Proofs about KeyValidation, for every set of declarations, every number *)
(* a caller may write, every format of floats and width of integers and    *)
(* whatever the build makes of a number beyond them.                       *)
(***************************************************************************)
EXTENDS KeyValidation, WellFoundedInduction, TLAPS

(* The inductive invariant. *)

\* A registered key is a declaration with its default in the type of its kind, and
\* the only one of its name.
RegistryInv ==
    /\ overflow \in {"saturates", "indefinite"}
    /\ reg \in Seq(Keys)
    /\ \A i \in DOMAIN reg : reg[i].default.go = GoType(reg[i].kind)
    /\ \A i, j \in DOMAIN reg : reg[i].name = reg[j].name => i = j

\* An override is what Validate returned for something a caller wrote.
Validated(k, v) == v # Error /\ \E raw \in Raws : v = validateAgainst(k, raw)

OverrideInv ==
    /\ DOMAIN over \subseteq Registered
    /\ \A name \in DOMAIN over : Validated(KeyNamed(name), over[name])

ValidationInv == RegistryInv /\ OverrideInv

-----------------------------------------------------------------------------
(* Division, and the conversion of a float64. *)

LEMMA Constants ==
    /\ Unit \in Nat \ {0} /\ Second \in Nat \ {0} /\ MaxInt \in Nat
    /\ Numbers \subseteq Int
  BY ValidationAssumption

LEMMA DivMod ==
    ASSUME NEW a \in Int, NEW b \in Nat \ {0}
    PROVE  /\ a \div b \in Int /\ a % b \in 0..(b - 1)
           /\ a = b * (a \div b) + (a % b)
  OBVIOUS

LEMMA Scaled ==
    ASSUME NEW j \in Int, NEW k \in Int, NEW b \in Nat \ {0}, j < k
    PROVE  j * b + b <= k * b
  OBVIOUS

LEMMA Monotone ==
    ASSUME NEW x \in Int, NEW y \in Int, NEW b \in Nat \ {0}, x <= y
    PROVE  x * b <= y * b
  <1>1. CASE x = y
    BY <1>1
  <1>2. CASE x < y
    <2>1. x * b + b <= y * b
      BY <1>2, Scaled
    <2>2. x * b \in Int /\ y * b \in Int
      OBVIOUS
    <2>3. QED
      BY <2>1, <2>2
  <1>3. QED
    BY <1>1, <1>2

LEMMA DivAtLeast ==
    ASSUME NEW a \in Int, NEW b \in Nat \ {0}, NEW k \in Int, k * b <= a
    PROVE  k <= a \div b
  <1> DEFINE d == a \div b
  <1>1. d \in Int /\ a < d * b + b
    BY DivMod
  <1>2. d < k => d * b + b <= k * b
    BY <1>1, Scaled
  <1>3. d * b \in Int /\ k * b \in Int
    BY <1>1
  <1> HIDE DEF d
  <1>4. QED
    BY <1>1, <1>2, <1>3 DEF d

LEMMA DivAtMost ==
    ASSUME NEW a \in Int, NEW b \in Nat \ {0}, NEW k \in Int, a <= k * b
    PROVE  a \div b <= k
  <1> DEFINE d == a \div b
  <1>1. d \in Int /\ d * b <= a
    BY DivMod
  <1>2. k < d => k * b + b <= d * b
    BY <1>1, Scaled
  <1>3. d * b \in Int /\ k * b \in Int
    BY <1>1
  <1> HIDE DEF d
  <1>4. QED
    BY <1>1, <1>2, <1>3 DEF d

LEMMA DivExactly ==
    ASSUME NEW p \in Int, NEW b \in Nat \ {0}
    PROVE  (p * b) \div b = p
  <1> DEFINE d == (p * b) \div b
  <1>1. p * b \in Int
    OBVIOUS
  <1>2. p <= d /\ d <= p /\ d \in Int
    BY <1>1, DivAtLeast, DivAtMost, DivMod
  <1>3. QED
    BY <1>2

\* Conversion to an integer is towards zero and does not pass a whole number.
LEMMA Truncates ==
    ASSUME NEW a \in Int, NEW b \in Nat \ {0}
    PROVE  /\ Trunc(a, b) \in Int
           /\ \A m \in Int : m * b <= a => m <= Trunc(a, b)
           /\ \A m \in Int : a <= m * b => Trunc(a, b) <= m
  <1>1. CASE a >= 0
    BY <1>1, DivMod, DivAtLeast, DivAtMost DEF Trunc
  <1>2. CASE a < 0
    <2>1. -a \in Int /\ (-a) \div b \in Int /\ Trunc(a, b) = -((-a) \div b)
      BY <1>2, DivMod DEF Trunc
    <2>2. ASSUME NEW m \in Int, m * b <= a PROVE m <= Trunc(a, b)
      <3>1. -a <= (-m) * b /\ -m \in Int
        BY <2>2
      <3>2. (-a) \div b <= -m
        BY <2>1, <3>1, DivAtMost
      <3>3. QED
        BY <2>1, <3>2
    <2>3. ASSUME NEW m \in Int, a <= m * b PROVE Trunc(a, b) <= m
      <3>1. (-m) * b <= -a /\ -m \in Int
        BY <2>3
      <3>2. -m <= (-a) \div b
        BY <2>1, <3>1, DivAtLeast
      <3>3. QED
        BY <2>1, <3>2
    <2>4. QED
      BY <2>1, <2>2, <2>3
  <1>3. QED
    BY <1>1, <1>2

LEMMA TruncatesExactly ==
    ASSUME NEW i \in Int, NEW b \in Nat \ {0}
    PROVE  Trunc(i * b, b) = i
  <1>1. i * b \in Int
    OBVIOUS
  <1>2. i <= Trunc(i * b, b) /\ Trunc(i * b, b) <= i /\ Trunc(i * b, b) \in Int
    BY <1>1, Truncates
  <1>3. QED
    BY <1>2

LEMMA TruncatesMonotonically ==
    ASSUME NEW a \in Int, NEW c \in Int, NEW b \in Nat \ {0}, a <= c
    PROVE  Trunc(a, b) <= Trunc(c, b)
  <1>0. Trunc(a, b) \in Int /\ Trunc(c, b) \in Int
    BY Truncates
  <1>1. CASE a >= 0
    <2>1. /\ a = b * (a \div b) + (a % b) /\ a % b \in 0..(b - 1)
          /\ a \div b \in Int /\ Trunc(a, b) = a \div b
      BY <1>1, DivMod DEF Trunc
    <2>2. (a \div b) * b <= c
      <3>1. (a \div b) * b = b * (a \div b) /\ b * (a \div b) \in Int
        BY <2>1
      <3>2. QED
        BY <2>1, <3>1
    <2>3. QED
      BY <2>1, <2>2, Truncates
  <1>2. CASE a < 0 /\ c >= 0
    <2>1. a <= 0 * b /\ 0 * b <= c
      BY <1>2
    <2>2. Trunc(a, b) <= 0 /\ 0 <= Trunc(c, b)
      BY <2>1, Truncates
    <2>3. QED
      BY <1>0, <2>2
  <1>3. CASE c < 0
    <2> DEFINE e == -c
    <2>1. e \in Int /\ Trunc(c, b) = -(e \div b)
      BY <1>3 DEF Trunc
    <2>2. e = b * (e \div b) + (e % b) /\ e % b \in 0..(b - 1) /\ e \div b \in Int
      BY <2>1, DivMod
    <2>3. c <= (-(e \div b)) * b
      <3>1. (-(e \div b)) * b = -(b * (e \div b)) /\ b * (e \div b) \in Int
        BY <2>2
      <3>2. QED
        BY <2>2, <3>1
    <2>4. a <= (-(e \div b)) * b /\ (-(e \div b)) * b \in Int
      BY <2>2, <2>3
    <2>5. QED
      BY <2>1, <2>2, <2>4, Truncates
  <1>4. QED
    BY <1>1, <1>2, <1>3

LEMMA Wraps ==
    ASSUME NEW x \in Int
    PROVE  Wrap(x) \in Int
  <1> DEFINE m == 2 * (MaxInt + 1)
             y == x + MaxInt + 1
  <1>1. m \in Nat \ {0} /\ y \in Int /\ MaxInt \in Int
    BY Constants
  <1> HIDE DEF m, y
  <1>2. y % m \in Int
    BY <1>1, DivMod
  <1>3. QED
    BY <1>1, <1>2 DEF Wrap, m, y

Int64 == -MaxInt - 1 .. MaxInt

\* A conversion that does not fit is one of the two ends of the type.
LEMMA Converts ==
    ASSUME overflow \in {"saturates", "indefinite"}, NEW f \in Int
    PROVE  /\ ToInt(f) \in Int64
           /\ Trunc(f, Unit) \in Int64 => ToInt(f) = Trunc(f, Unit)
           /\ Trunc(f, Unit) \notin Int64 => ToInt(f) \in {-MaxInt - 1, MaxInt}
  BY Truncates, Constants DEF ToInt, Int64

-----------------------------------------------------------------------------
(* Rounding to a float. *)

LEMMA Format ==
    /\ Significand \in Nat \ {0} /\ Significand % 2 = 0
    /\ Quanta \subseteq Nat \ {0} /\ 1 \in Quanta
    /\ \A q \in Quanta : q # 1 => q % 2 = 0 /\ q \div 2 \in Quanta
    /\ \A p, q \in Quanta : p < q => q % p = 0
  BY FloatAssumption

LEMMA LeastNat ==
    ASSUME NEW S \in SUBSET Nat, S # {}
    PROVE  \E x \in S : \A y \in S : x <= y
  <1> DEFINE R == {ss \in Nat \X Nat : ss[1] < ss[2]}
  <1>1. IsWellFoundedOn(R, Nat)
    BY NatLessThanWellFounded DEF OpToRel
  <1> HIDE DEF R
  <1>2. PICK x \in S : \A y \in S : ~(<<y, x>> \in R)
    BY <1>1, WFMin
  <1>3. ASSUME NEW y \in S PROVE x <= y
    <2>1. x \in Nat /\ y \in Nat
      OBVIOUS
    <2>2. ~(y < x)
      BY <1>2, <2>1 DEF R
    <2>3. QED
      BY <2>1, <2>2
  <1>4. QED
    BY <1>3

\* Of two spacings the finer one fits into half of the other.
LEMMA Halves ==
    ASSUME NEW p \in Quanta, NEW q \in Quanta, p < q
    PROVE  q \div 2 \in Quanta /\ q = 2 * (q \div 2) /\ p <= q \div 2
  <1> DEFINE h == q \div 2
  <1>1. p \in Nat \ {0} /\ q \in Nat \ {0} /\ q # 1
    BY Format
  <1>2. h \in Quanta /\ q % 2 = 0 /\ h \in Nat \ {0}
    BY <1>1, Format
  <1>3. q = 2 * h
    BY <1>1, <1>2
  <1>4. p <= h
    <2>1. q % p = 0
      BY Format
    <2> DEFINE k == q \div p
    <2>2. k \in Int /\ q = p * k
      <3>1. q = p * k + (q % p) /\ k \in Int
        <4>1. q \in Int /\ p \in Nat \ {0}
          BY <1>1
        <4>2. QED
          BY ONLY <4>1, DivMod
      <3> HIDE DEF k
      <3>2. p * k \in Int
        BY <1>1, <3>1
      <3>3. QED
        BY <2>1, <3>1, <3>2
    <2> HIDE DEF k
    <2>3. k > 1
      <3>1. CASE k <= 1
        <4>1. k * p <= 1 * p
          BY <3>1, <1>1, <2>2, Monotone
        <4>2. k * p = p * k /\ 1 * p = p
          BY <1>1, <2>2
        <4>3. QED
          BY <1>1, <2>2, <4>1, <4>2
      <3>2. QED
        BY <2>2, <3>1
    <2>4. 2 * p <= k * p
      BY <1>1, <2>2, <2>3, Monotone
    <2>5. k * p = p * k
      BY <1>1, <2>2
    <2>6. QED
      BY <1>1, <1>2, <1>3, <2>2, <2>4, <2>5
  <1>5. QED
    BY <1>2, <1>3, <1>4

\* The chosen spacing is the least that fits.
LEMMA LeastSpacing ==
    ASSUME NEW a \in Nat, NEW b \in Nat \ {0}, Fitting(a, b) # {}
    PROVE  /\ Spacing(a, b) \in Fitting(a, b)
           /\ \A r \in Fitting(a, b) : Spacing(a, b) <= r
  <1> DEFINE c == a \div b
             S == Fitting(a, b)
             q == Spacing(a, b)
  <1>1. S \in SUBSET Nat /\ S \subseteq Quanta /\ c \in Int
    <2>1. a \in Int
      OBVIOUS
    <2>2. c \in Int
      BY ONLY <2>1, b \in Nat \ {0}, DivMod
    <2>3. QED
      BY <2>2, Format DEF Fitting
  <1>2. PICK x \in S : \A y \in S : x <= y
    BY <1>1, LeastNat
  <1>3. x = 1 \/ x \div 2 \notin S
    <2>1. CASE x # 1
      <3>1. x \in Nat \ {0} /\ x % 2 = 0
        BY <1>1, <2>1, Format
      <3>2. x \div 2 < x /\ x \div 2 \in Int
        BY <3>1
      <3>3. QED
        BY <1>1, <1>2, <3>1, <3>2
    <2>2. QED
      BY <2>1
  <1>4. q \in S /\ (q = 1 \/ q \div 2 \notin S)
    BY <1>2, <1>3 DEF Spacing
  <1> HIDE DEF q
  <1>5. ASSUME NEW r \in S, r < q PROVE FALSE
    <2>1. r \in Quanta /\ q \in Quanta /\ r \in Nat \ {0} /\ q \in Nat \ {0} /\ c < Significand * r
      BY <1>1, <1>4, Format DEF Fitting
    <2> DEFINE h == q \div 2
    <2>2. h \in Quanta /\ r <= h /\ h \in Nat \ {0}
      BY <1>5, <2>1, Halves, Format
    <2> HIDE DEF h
    <2>3. Significand * r <= Significand * h /\ Significand * r \in Int /\ Significand * h \in Int
      <3>1. r * Significand <= h * Significand
        BY <2>1, <2>2, Monotone, Format
      <3>2. r * Significand = Significand * r /\ h * Significand = Significand * h
            /\ r * Significand \in Int /\ h * Significand \in Int
        BY <2>1, <2>2, Format
      <3>3. QED
        BY <3>1, <3>2
    <2>4. c < Significand * h
      BY <1>1, <2>1, <2>3
    <2>5. h \in S
      BY <2>2, <2>4 DEF Fitting
    <2>6. QED
      BY <1>4, <1>5, <2>1, <2>5 DEF h
  <1>6. QED
    <2>1. ASSUME NEW r \in S PROVE q <= r
      <3>1. q \in Nat /\ r \in Nat /\ ~(r < q)
        BY <1>1, <1>4, <1>5
      <3>2. QED
        BY <3>1
    <2>2. QED
      BY <1>4, <2>1 DEF q

\* Whole numbers of grains.
LEMMA FittingWhole ==
    ASSUME NEW c \in Nat, NEW q \in Quanta
    PROVE  q \in Fitting(c, 1) <=> c < Significand * q * 1
  <1>1. c \div 1 = c
    OBVIOUS
  <1>2. Significand * q * 1 = Significand * q
    BY Format
  <1>3. QED
    BY <1>1, <1>2 DEF Fitting

LEMMA RoundsToInt ==
    ASSUME NEW a \in Nat, NEW b \in Nat \ {0}
    PROVE  /\ RoundEven(a, b) \in Nat
           /\ a \div b <= RoundEven(a, b) /\ RoundEven(a, b) <= a \div b + 1
           /\ a % b = 0 => RoundEven(a, b) = a \div b
  <1> DEFINE m == a \div b
             r == a % b
  <1>1. m \in Nat /\ r \in 0..(b - 1)
    <2>1. m \in Int /\ r \in 0..(b - 1)
      BY DivMod
    <2>2. 0 <= m
      BY DivAtLeast
    <2>3. QED
      BY <2>1, <2>2
  <1>2. RoundEven(a, b) = IF 2 * r > b \/ (2 * r = b /\ m % 2 = 1) THEN m + 1 ELSE m
    BY DEF RoundEven
  <1> HIDE DEF m, r
  <1>3. QED
    BY <1>1, <1>2 DEF m, r

LEMMA RoundsMonotonically ==
    ASSUME NEW a \in Nat, NEW c \in Nat, NEW b \in Nat \ {0}, a <= c
    PROVE  RoundEven(a, b) <= RoundEven(c, b)
  <1> DEFINE m == a \div b
             n == c \div b
             r == a % b
             s == c % b
  <1>1. m \in Int /\ n \in Int /\ r \in 0..(b - 1) /\ s \in 0..(b - 1)
    BY DivMod
  <1>2. a = b * m + r /\ c = b * n + s
    BY DivMod
  <1>3. /\ RoundEven(a, b) = IF 2 * r > b \/ (2 * r = b /\ m % 2 = 1) THEN m + 1 ELSE m
        /\ RoundEven(c, b) = IF 2 * s > b \/ (2 * s = b /\ n % 2 = 1) THEN n + 1 ELSE n
    BY DEF RoundEven
  <1> HIDE DEF m, n, r, s
  <1>4. m <= n
    <2>1. m * b <= c
      <3>1. m * b = b * m /\ b * m \in Int
        BY <1>1
      <3>2. QED
        BY <1>1, <1>2, <3>1
    <2>2. QED
      BY <1>1, <2>1, DivAtLeast DEF n
  <1>5. CASE m < n
    BY <1>1, <1>3, <1>5
  <1>6. CASE m = n
    <2>1. r <= s
      <3>1. b * m \in Int
        BY <1>1
      <3>2. QED
        BY <1>1, <1>2, <1>6, <3>1
    <2>2. QED
      BY <1>1, <1>3, <1>6, <2>1
  <1>7. QED
    BY <1>1, <1>4, <1>5, <1>6

\* Twice a spacing is the next one.
LEMMA NextSpacing ==
    ASSUME NEW c \in Nat, Fitting(c, 1) # {}, NEW p \in Quanta, p < Spacing(c, 1)
    PROVE  LET q == Spacing(c, 1)  h == q \div 2 IN
           h \in Quanta /\ q = 2 * h /\ p <= h /\ Significand * h <= c
  <1> DEFINE q == Spacing(c, 1)
             h == q \div 2
  <1>1. q \in Quanta /\ (\A r \in Fitting(c, 1) : q <= r) /\ q \in Nat
    BY LeastSpacing, Format DEF Fitting
  <1>2. h \in Quanta /\ q = 2 * h /\ p <= h /\ h \in Nat \ {0}
    BY <1>1, Halves, Format
  <1> HIDE DEF q
  <1>3. h \notin Fitting(c, 1)
    BY <1>1, <1>2
  <1>4. Significand * h <= c
    <2>1. ~(c < Significand * h * 1)
      BY <1>2, <1>3, FittingWhole
    <2>2. Significand * h \in Int /\ Significand * h * 1 = Significand * h
      BY <1>2, Format
    <2>3. QED
      BY <2>1, <2>2
  <1>5. QED
    BY <1>2, <1>4 DEF q

\* What a rounded number is: it stays below the significand's end and is not less
\* than a multiple of the spacing that the number reaches.
LEMMA RoundedIs ==
    ASSUME NEW c \in Nat, Fitting(c, 1) # {}
    PROVE  LET q == Spacing(c, 1)  m == RoundEven(c, q) IN
           /\ q \in Quanta /\ q \in Nat \ {0} /\ m \in Nat
           /\ Rounded(c, 1) = m * q /\ Rounded(c, 1) \in Nat
           /\ m <= Significand /\ Rounded(c, 1) <= Significand * q
           /\ \A n \in Int : n * q <= c => n * q <= Rounded(c, 1)
  <1> DEFINE q == Spacing(c, 1)
             m == RoundEven(c, q)
  <1>1. q \in Quanta /\ q \in Nat \ {0} /\ c < Significand * q * 1
    <2>1. q \in Fitting(c, 1) /\ q \in Quanta
      BY LeastSpacing DEF Fitting
    <2>2. QED
      BY <2>1, FittingWhole, Format
  <1>2. 1 * q = q
    BY <1>1
  <1>3. Rounded(c, 1) = m * q
    BY <1>2 DEF Rounded
  <1> HIDE DEF q
  <1>4. m \in Nat /\ c \div q <= m /\ m <= c \div q + 1 /\ c \div q \in Int
    <2>1. q \in Nat \ {0} /\ c \in Nat /\ c \in Int
      BY <1>1
    <2>2. m \in Nat /\ c \div q <= m /\ m <= c \div q + 1
      BY ONLY <2>1, RoundsToInt
    <2>3. c \div q \in Int
      BY ONLY <2>1, DivMod
    <2>4. QED
      BY <2>2, <2>3
  <1>5. c \div q < Significand
    <2>1. Significand * q * 1 = Significand * q /\ Significand * q \in Int
      BY <1>1, Format
    <2>2. CASE Significand <= c \div q
      <3>1. Significand * q <= (c \div q) * q
        BY <1>1, <1>4, <2>2, Monotone, Format
      <3>2. (c \div q) * q <= c /\ (c \div q) * q \in Int
        <4>1. c = q * (c \div q) + (c % q) /\ c % q \in 0..(q - 1)
          <5>1. c \in Int /\ q \in Nat \ {0}
            BY <1>1
          <5>2. QED
            BY ONLY <5>1, DivMod
        <4>2. (c \div q) * q = q * (c \div q) /\ q * (c \div q) \in Int
          BY <1>1, <1>4
        <4>3. QED
          BY <4>1, <4>2
      <3>3. QED
        BY <1>1, <2>1, <3>1, <3>2
    <2>3. QED
      BY <1>4, <2>2, Format
  <1>6. m <= Significand
    BY <1>4, <1>5, Format
  <1> HIDE DEF m
  <1>7. m * q <= Significand * q /\ m * q \in Nat
    BY <1>1, <1>4, <1>6, Monotone, Format
  <1>8. ASSUME NEW n \in Int, n * q <= c PROVE n * q <= m * q
    <2>1. n <= c \div q
      BY <1>1, <1>8, DivAtLeast
    <2>2. n <= m
      BY <1>4, <2>1
    <2>3. QED
      BY <1>1, <1>4, <2>2, Monotone
  <1>9. QED
    BY <1>1, <1>3, <1>4, <1>6, <1>7, <1>8 DEF q, m

LEMMA NearestType ==
    ASSUME NEW a \in Nat
    PROVE  Nearest(a, 1) \in Nat
  BY RoundedIs DEF Nearest

LEMMA NearestMonotone ==
    ASSUME NEW a \in Nat, NEW c \in Nat, a <= c
    PROVE  Nearest(a, 1) <= Nearest(c, 1)
  <1>1. Fitting(c, 1) \subseteq Fitting(a, 1)
    <2> SUFFICES ASSUME NEW q \in Fitting(c, 1) PROVE q \in Fitting(a, 1)
      OBVIOUS
    <2>1. q \in Quanta /\ q \in Nat /\ c < Significand * q * 1
      <3>1. q \in Quanta
        BY DEF Fitting
      <3>2. QED
        BY <3>1, FittingWhole, Format
    <2>2. Significand * q * 1 \in Int
      BY <2>1, Format
    <2>3. QED
      BY <2>1, <2>2, FittingWhole
  <1>2. CASE Fitting(a, 1) = {}
    BY <1>1, <1>2 DEF Nearest
  <1>3. CASE Fitting(a, 1) # {} /\ Fitting(c, 1) = {}
    <2> DEFINE q == Spacing(a, 1)
    <2>1. q \in Quanta /\ q \in Nat /\ Rounded(a, 1) <= Significand * q /\ Rounded(a, 1) \in Nat
      BY <1>3, RoundedIs
    <2> HIDE DEF q
    <2>2. ~(c < Significand * q * 1)
      BY <1>3, <2>1, FittingWhole
    <2>3. Significand * q * 1 = Significand * q /\ Significand * q \in Int
      BY <2>1, Format
    <2>4. Nearest(a, 1) = Rounded(a, 1) /\ Nearest(c, 1) = c
      BY <1>3 DEF Nearest
    <2>5. QED
      BY <2>1, <2>2, <2>3, <2>4
  <1>4. CASE Fitting(c, 1) # {}
    <2> DEFINE p == Spacing(a, 1)
               q == Spacing(c, 1)
    <2>1. Fitting(a, 1) # {}
      BY <1>1, <1>4
    <2>2. Nearest(a, 1) = Rounded(a, 1) /\ Nearest(c, 1) = Rounded(c, 1)
      BY <1>4, <2>1 DEF Nearest
    <2>3. p \in Quanta /\ p \in Nat \ {0} /\ q \in Quanta /\ q \in Nat \ {0}
      BY <1>4, <2>1, RoundedIs
    <2>4. p <= q
      BY <1>1, <1>4, <2>1, LeastSpacing
    <2>5. CASE p = q
      <3>1. Rounded(a, 1) = RoundEven(a, q) * q /\ Rounded(c, 1) = RoundEven(c, q) * q
        BY <1>4, <2>1, <2>5, RoundedIs
      <3>2. RoundEven(a, q) <= RoundEven(c, q) /\ RoundEven(a, q) \in Nat /\ RoundEven(c, q) \in Nat
        BY <2>3, RoundsMonotonically, RoundsToInt
      <3> HIDE DEF q
      <3>3. RoundEven(a, q) * q <= RoundEven(c, q) * q
        BY <2>3, <3>2, Monotone
      <3>4. QED
        BY <2>2, <3>1, <3>3
    <2>6. CASE p < q
      <3> DEFINE h == q \div 2
                 n == Significand \div 2
      <3>1. h \in Quanta /\ q = 2 * h /\ p <= h /\ Significand * h <= c
        BY <1>4, <2>3, <2>6, NextSpacing
      <3>2. h \in Nat /\ n \in Int /\ Significand = 2 * n
        <4>1. h \in Nat
          BY ONLY <3>1, Format
        <4>2. n \in Int /\ Significand = 2 * n
          BY Format, DivMod
        <4>3. QED
          BY <4>1, <4>2
      <3>3. n * q = Significand * h /\ Significand * h \in Int
        <4> HIDE DEF h, n, q
        <4>1. n * (2 * h) = (2 * n) * h
          BY <3>2
        <4>2. QED
          BY <3>1, <3>2, <4>1, Format
      <3>4. n * q <= Rounded(c, 1) /\ Rounded(c, 1) \in Nat
        BY <1>4, <3>1, <3>2, <3>3, RoundedIs
      <3>5. Rounded(a, 1) <= Significand * p /\ Rounded(a, 1) \in Nat
        BY <2>1, RoundedIs
      <3> HIDE DEF p, h, n
      <3>6. p * Significand <= h * Significand
        BY <2>3, <3>1, <3>2, Monotone, Format
      <3>7. p * Significand = Significand * p /\ h * Significand = Significand * h
            /\ Significand * p \in Int
        BY <2>3, <3>2, Format
      <3>8. QED
        BY <2>2, <3>3, <3>4, <3>5, <3>6, <3>7
    <2>7. QED
      BY <2>3, <2>4, <2>5, <2>6
  <1>5. QED
    BY <1>2, <1>3, <1>4

\* A rounded number is a float.
LEMMA NearestIsFloat ==
    ASSUME NEW c \in Nat
    PROVE  Nearest(Nearest(c, 1), 1) = Nearest(c, 1)
  <1> DEFINE x == Nearest(c, 1)
  <1>1. CASE Fitting(c, 1) = {}
    BY <1>1 DEF Nearest
  <1>2. CASE Fitting(c, 1) # {}
    <2> DEFINE q == Spacing(c, 1)
               m == RoundEven(c, q)
               r == Spacing(x, 1)
    <2>1. /\ x = m * q /\ x \in Nat /\ m \in Nat /\ m <= Significand
          /\ q \in Quanta /\ q \in Nat \ {0} /\ x <= Significand * q
      BY <1>2, RoundedIs DEF Nearest
    <2> HIDE DEF x, m, q
    <2>2. CASE Fitting(x, 1) = {}
      BY <2>1, <2>2 DEF Nearest, x
    <2>3. CASE Fitting(x, 1) # {}
      <3>1. r \in Quanta /\ r \in Nat \ {0} /\ Nearest(x, 1) = RoundEven(x, r) * r
        BY <2>1, <2>3, RoundedIs DEF Nearest
      <3>2. ASSUME NEW k \in Int, x = k * r PROVE Nearest(x, 1) = x
        <4> HIDE DEF r
        <4>1. x \div r = k
          BY <3>1, <3>2, DivExactly
        <4>2. x % r = 0
          <5>1. x = r * (x \div r) + (x % r) /\ x % r \in 0..(r - 1)
            <6>1. x \in Int /\ r \in Nat \ {0}
              BY <2>1, <3>1
            <6>2. QED
              BY ONLY <6>1, DivMod
          <5>2. r * k = k * r /\ r * k \in Int
            BY <3>1
          <5>3. QED
            BY <3>2, <4>1, <5>1, <5>2
        <4>3. RoundEven(x, r) = k
          BY <2>1, <3>1, <4>1, <4>2, RoundsToInt
        <4>4. QED
          BY <3>1, <3>2, <4>3
      <3>3. CASE r <= q
        <4>1. PICK j \in Int : q = j * r
          <5>1. CASE r = q
            BY <2>1, <5>1
          <5>2. CASE r < q
            <6> HIDE DEF r
            <6>1. q % r = 0
              BY <2>1, <3>1, <5>2, Format
            <6>2. q = r * (q \div r) + (q % r) /\ q \div r \in Int
              BY <2>1, <3>1, DivMod
            <6>3. QED
              <7>1. q = (q \div r) * r
                BY <3>1, <6>1, <6>2
              <7>2. QED
                BY <6>2, <7>1
          <5>3. QED
            BY <2>1, <3>1, <3>3, <5>1, <5>2
        <4> HIDE DEF r
        <4>2. x = (m * j) * r /\ m * j \in Int
          BY <2>1, <3>1, <4>1
        <4>3. QED
          BY <3>2, <4>2 DEF x
      <3>4. CASE q < r
        <4> DEFINE h == r \div 2
                   n == Significand \div 2
        <4>1. h \in Quanta /\ r = 2 * h /\ q <= h /\ Significand * h <= x
          BY <2>1, <2>3, <3>4, NextSpacing
        <4>2. h \in Nat /\ n \in Int /\ Significand = 2 * n
          <5>1. h \in Nat
            BY ONLY <4>1, Format
          <5>2. n \in Int /\ Significand = 2 * n
            BY Format, DivMod
          <5>3. QED
            BY <5>1, <5>2
        <4> HIDE DEF h, n, r
        <4>3. q * Significand <= h * Significand
          BY <2>1, <4>1, <4>2, Monotone, Format
        <4>4. q * Significand = Significand * q /\ h * Significand = Significand * h
              /\ Significand * q \in Int /\ Significand * h \in Int
          BY <2>1, <4>2, Format
        <4>5. x = Significand * h
          BY <2>1, <4>1, <4>3, <4>4
        <4>6. Significand * h = n * r
          <5>1. n * (2 * h) = (2 * n) * h
            BY <4>2
          <5>2. QED
            BY <4>1, <4>2, <5>1
        <4>7. QED
          BY <3>2, <4>2, <4>5, <4>6 DEF x
      <3>5. QED
        BY <2>1, <3>1, <3>3, <3>4
    <2>4. QED
      BY <2>2, <2>3 DEF x
  <1>3. QED
    BY <1>1, <1>2

LEMMA RoundingType ==
    ASSUME NEW a \in Int
    PROVE  Fl(a, 1) \in Int
  <1>1. CASE a >= 0
    BY <1>1, NearestType DEF Fl
  <1>2. CASE a < 0
    <2>1. -a \in Nat
      BY <1>2
    <2>2. QED
      BY <1>2, <2>1, NearestType DEF Fl
  <1>3. QED
    BY <1>1, <1>2

LEMMA RoundingMonotone ==
    ASSUME NEW a \in Int, NEW c \in Int, a <= c
    PROVE  Fl(a, 1) <= Fl(c, 1)
  <1>1. CASE a >= 0
    BY <1>1, NearestMonotone DEF Fl
  <1>2. CASE a < 0 /\ c >= 0
    <2>1. -a \in Nat /\ c \in Nat
      BY <1>2
    <2>2. Nearest(-a, 1) \in Nat /\ Nearest(c, 1) \in Nat
      BY <2>1, NearestType
    <2>3. Fl(a, 1) = -Nearest(-a, 1) /\ Fl(c, 1) = Nearest(c, 1)
      BY <1>2 DEF Fl
    <2>4. QED
      BY <2>2, <2>3
  <1>3. CASE c < 0
    <2>1. -a \in Nat /\ -c \in Nat /\ -c <= -a
      BY <1>3
    <2>2. Nearest(-c, 1) <= Nearest(-a, 1) /\ Nearest(-a, 1) \in Nat /\ Nearest(-c, 1) \in Nat
      BY <2>1, NearestMonotone, NearestType
    <2>3. Fl(a, 1) = -Nearest(-a, 1) /\ Fl(c, 1) = -Nearest(-c, 1)
      BY <1>3 DEF Fl
    <2>4. QED
      BY <2>2, <2>3
  <1>4. QED
    BY <1>1, <1>2, <1>3

LEMMA RoundingIsFloat ==
    ASSUME NEW a \in Int
    PROVE  Fl(Fl(a, 1), 1) = Fl(a, 1)
  <1>1. CASE a >= 0
    BY <1>1, NearestIsFloat, NearestType DEF Fl
  <1>2. CASE a < 0
    <2> DEFINE y == Nearest(-a, 1)
    <2>1. -a \in Nat
      BY <1>2
    <2>2. y \in Nat /\ Nearest(y, 1) = y
      BY <2>1, NearestType, NearestIsFloat
    <2>3. Fl(a, 1) = -y
      BY <1>2 DEF Fl
    <2> HIDE DEF y
    <2>4. CASE -y >= 0
      <3>1. -y = y
        BY <2>2, <2>4
      <3>2. QED
        BY <2>2, <2>3, <2>4, <3>1 DEF Fl
    <2>5. CASE ~(-y >= 0)
      <3>1. -(-y) = y
        BY <2>2
      <3>2. Fl(-y, 1) = -Nearest(y, 1)
        BY <2>5, <3>1 DEF Fl
      <3>3. QED
        BY <2>2, <2>3, <3>2
    <2>6. QED
      BY <2>4, <2>5
  <1>3. QED
    BY <1>1, <1>2

LEMMA ZeroIsZero ==
    ASSUME NEW b \in Nat \ {0}
    PROVE  Fl(0, b) = 0
  <1>1. ASSUME NEW d \in Nat \ {0} PROVE RoundEven(0, d) = 0
    <2>1. 0 \div d = 0 /\ 0 % d = 0
      BY DivMod, DivExactly
    <2>2. QED
      BY <2>1 DEF RoundEven
  <1>2. CASE Fitting(0, b) = {}
    <2>1. 0 \div b = 0
      BY DivExactly
    <2>2. QED
      BY <1>2, <2>1 DEF Fl, Nearest
  <1>3. CASE Fitting(0, b) # {}
    <2> DEFINE q == Spacing(0, b)
    <2>1. q \in Nat \ {0}
      BY <1>3, LeastSpacing, Format DEF Fitting
    <2> HIDE DEF q
    <2>2. b * q \in Nat \ {0}
      BY <2>1
    <2>3. RoundEven(0, b * q) = 0
      BY <1>1, <2>2
    <2>4. RoundEven(0, b * q) * q = 0
      BY <2>1, <2>3
    <2>5. QED
      BY <1>3, <2>4 DEF Fl, Nearest, Rounded, q
  <1>4. QED
    BY <1>2, <1>3

-----------------------------------------------------------------------------
(* What Validate returns, kind by kind. *)

\* A number that was read is a float.
LEMMA RawNumbers ==
    ASSUME NEW raw \in Raws, raw = Null \/ raw.json = "number"
    PROVE  NumberOf(raw) \in Int /\ Fl(NumberOf(raw), 1) = NumberOf(raw)
  <1>1. CASE raw = Null
    BY <1>1, ZeroIsZero DEF NumberOf
  <1>2. CASE raw # Null
    <2>1. raw.json = "number"
      BY <1>2
    <2>2. PICK m \in Numbers : raw = Num(m)
      BY <1>2, <2>1 DEF Raws, Str, Bool, Object
    <2>3. raw.n = m /\ m \in Int
      BY <2>2, Constants DEF Num
    <2>4. QED
      BY <1>2, <2>3, RoundingType, RoundingIsFloat DEF NumberOf
  <1>3. QED
    BY <1>1, <1>2

LEMMA ReadsNumbers ==
    ASSUME NEW m, NEW kind \in {"int", "float", "duration"}
    PROVE  Unmarshals(kind, Num(m)) /\ NumberOf(Num(m)) = Fl(m, 1)
  BY DEF Unmarshals, NumberOf, Num, Null

LEMMA NumericKinds ==
    ASSUME NEW k \in Keys, k.kind \in {"int", "float", "duration"}, NEW raw \in Raws,
           validateAgainst(k, raw) # Error
    PROVE  /\ NumberOf(raw) \in Int /\ Fl(NumberOf(raw), 1) = NumberOf(raw)
           /\ validateAgainst(k, raw) = validateNumber(k, NumberOf(raw))
           /\ validateNumber(k, NumberOf(raw)) # Error
  <1>1. Unmarshals(k.kind, raw)
    BY DEF validateAgainst
  <1>2. raw = Null \/ raw.json = "number"
    BY <1>1 DEF Unmarshals
  <1>3. validateAgainst(k, raw) = validateNumber(k, NumberOf(raw))
    BY <1>1 DEF validateAgainst
  <1>4. QED
    BY <1>2, <1>3, RawNumbers

\* An integer override is the number that was written.
LEMMA IntegerOverride ==
    ASSUME overflow \in {"saturates", "indefinite"}, NEW k \in Keys, k.kind = "int",
           NEW v, Validated(k, v)
    PROVE  \E i \in Int64 :
             v = GoInt(i) /\ checkBounds(k, ToFloat(i)) /\ ToInt(ToFloat(i)) = i
  <1>1. PICK raw \in Raws : v = validateAgainst(k, raw) /\ v # Error
    BY DEF Validated
  <1> DEFINE f == NumberOf(raw)
             i == ToInt(f)
  <1>2. f \in Int /\ v = validateNumber(k, f)
    BY <1>1, NumericKinds
  <1> HIDE DEF f
  <1>3. f = ToFloat(i) /\ checkBounds(k, f) /\ v = GoInt(i)
    BY <1>1, <1>2 DEF validateNumber
  <1>4. i \in Int64
    BY <1>2, Converts
  <1>5. QED
    BY <1>3, <1>4

\* Ticks, as a float number of seconds is converted to them.
LEMMA TicksMonotone ==
    ASSUME NEW b \in Int, NEW f \in Int, b <= f
    PROVE  Ticks(b) \in Int /\ Ticks(f) \in Int /\ Ticks(b) <= Ticks(f)
  <1>1. b * Second \in Int /\ f * Second \in Int /\ b * Second <= f * Second
    BY Monotone, Constants
  <1>2. /\ Fl(b * Second, 1) \in Int /\ Fl(f * Second, 1) \in Int
        /\ Fl(b * Second, 1) <= Fl(f * Second, 1)
    BY <1>1, RoundingType, RoundingMonotone
  <1>3. QED
    BY <1>2, Truncates, TruncatesMonotonically, Constants DEF Ticks

\* Rounding and truncation do not take a duration past a bound as they convert it.
LEMMA DurationOverride ==
    ASSUME overflow \in {"saturates", "indefinite"}, NEW k \in Keys,
           k.kind = "duration", NEW v, Validated(k, v)
    PROVE  \E d \in Int64 : v = GoDuration(d) /\ DurationKeepsBounds(k, d)
  <1>1. PICK raw \in Raws : v = validateAgainst(k, raw) /\ v # Error
    BY DEF Validated
  <1> DEFINE f == NumberOf(raw)
             d == ToDuration(f)
             c == Ticks(f)
  <1>2. f \in Int /\ v = validateNumber(k, f)
    BY <1>1, NumericKinds
  <1> HIDE DEF f
  <1>3. checkBounds(k, f) /\ v = GoDuration(d)
    BY <1>1, <1>2 DEF validateNumber
  <1>4. Fl(f * Second, 1) \in Int
    BY <1>2, RoundingType, Constants
  <1>5. /\ d \in Int64 /\ c \in Int
        /\ c \in Int64 => d = c
        /\ c \notin Int64 => d \in {-MaxInt - 1, MaxInt}
    BY <1>4, Converts, Truncates, Constants DEF ToDuration, Ticks
  <1>6. k.min \subseteq Int /\ k.max \subseteq Int
    BY DEF Keys
  <1>7. \A b \in k.min : Ticks(b) \in Int /\ Ticks(b) <= c
    BY <1>2, <1>3, <1>6, TicksMonotone DEF checkBounds
  <1>8. \A b \in k.max : Ticks(b) \in Int /\ c <= Ticks(b)
    BY <1>2, <1>3, <1>6, TicksMonotone DEF checkBounds
  <1> HIDE DEF c, d
  <1>9. CASE c \in Int64
    BY <1>3, <1>5, <1>7, <1>8, <1>9 DEF DurationKeepsBounds
  <1>10. CASE c \notin Int64
    <2>1. OpenEnded(k)
      <3> SUFFICES ASSUME NEW b \in k.min, NEW e \in k.max,
                          Ticks(b) \in Int64, Ticks(e) \in Int64
                   PROVE  FALSE
        BY DEF OpenEnded, Int64
      <3>1. Ticks(b) <= c /\ c <= Ticks(e)
        BY <1>7, <1>8
      <3>2. QED
        BY <1>5, <1>10, <3>1, Constants DEF Int64
    <2>2. QED
      BY <1>3, <1>5, <1>10, <2>1 DEF DurationKeepsBounds, Overflown
  <1>11. QED
    BY <1>3, <1>5, <1>9, <1>10

LEMMA FloatOverride ==
    ASSUME NEW k \in Keys, k.kind = "float", NEW v, Validated(k, v)
    PROVE  \E f \in Int : v = GoFloat(f) /\ checkBounds(k, f) /\ Fl(f, 1) = f
  <1>1. PICK raw \in Raws : v = validateAgainst(k, raw) /\ v # Error
    BY DEF Validated
  <1>2. /\ NumberOf(raw) \in Int /\ Fl(NumberOf(raw), 1) = NumberOf(raw)
        /\ v = validateNumber(k, NumberOf(raw))
    BY <1>1, NumericKinds
  <1>3. checkBounds(k, NumberOf(raw)) /\ v = GoFloat(NumberOf(raw))
    BY <1>1, <1>2 DEF validateNumber
  <1>4. QED
    BY <1>2, <1>3

LEMMA TextOverride ==
    ASSUME NEW k \in Keys, NEW v, Validated(k, v)
    PROVE  /\ k.kind = "bool" => \E x : v = GoBool(x)
           /\ k.kind = "string" => \E x : v = GoString(x)
           /\ k.kind = "enum" => \E x \in k.enum : v = GoString(x)
  BY DEF Validated, validateAgainst

-----------------------------------------------------------------------------
(* The registry. *)

\* A default in any Go type that Register takes ends up in the type of its kind.
LEMMA Normalized ==
    ASSUME overflow \in {"saturates", "indefinite"}, NEW kind \in Kinds, NEW v \in GoValues,
           normalizeValue(kind, v) # Error
    PROVE  /\ normalizeValue(kind, v) \in GoValues
           /\ normalizeValue(kind, v).go = GoType(kind)
  <1> DEFINE nv == normalizeValue(kind, v)
  <1>1. \A f \in Int : ToInt(f) \in Int
    BY Converts, Constants DEF Int64
  <1>2. /\ \A x \in Int : GoInt(x) \in GoValues /\ GoInt(x).go = "int64"
        /\ \A x \in Int : GoFloat(x) \in GoValues /\ GoFloat(x).go = "float64"
        /\ \A x \in Int : GoDuration(x) \in GoValues /\ GoDuration(x).go = "Duration"
    BY DEF GoValues, GoInt, GoFloat, GoDuration
  <1>3. v.go \in {"int64", "float64", "Duration"} => v.n \in Int
    BY DEF GoValues
  <1>4. CASE v.go = GoType(kind)
    <2>1. nv = v
      BY <1>4 DEF normalizeValue, GoType, Kinds
    <2>2. QED
      BY <1>4, <2>1
  <1>5. CASE kind = "int" /\ v.go = "float64"
    <2>1. nv = GoInt(ToInt(v.n))
      BY <1>5 DEF normalizeValue, GoType
    <2>2. QED
      BY <1>1, <1>2, <1>3, <1>5, <2>1, Constants DEF GoType
  <1>6. CASE kind = "float" /\ v.go = "int64"
    <2>1. nv = GoFloat(ToFloat(v.n))
      BY <1>6 DEF normalizeValue, GoType
    <2>2. ToFloat(v.n) \in Int
      BY <1>3, <1>6, RoundingType, Constants DEF ToFloat
    <2>3. QED
      BY <1>2, <1>6, <2>1, <2>2 DEF GoType
  <1>7. CASE kind = "duration" /\ v.go = "int64"
    <2>1. nv = GoDuration(Wrap(v.n * Second))
      BY <1>7 DEF normalizeValue, GoType
    <2>2. v.n * Second \in Int
      <3>1. v.n \in Int /\ Second \in Int
        BY <1>3, <1>7, Constants
      <3>2. QED
        BY <3>1
    <2>3. Wrap(v.n * Second) \in Int
      BY <2>2, Wraps
    <2>4. QED
      BY <1>2, <1>7, <2>1, <2>3 DEF GoType
  <1>8. CASE kind = "duration" /\ v.go = "float64"
    <2>1. nv = GoDuration(ToInt(Fl(v.n * Second, 1)))
      BY <1>8 DEF normalizeValue, GoType, ToDuration
    <2>2. Fl(v.n * Second, 1) \in Int
      BY <1>3, <1>8, RoundingType, Constants
    <2>3. QED
      BY <1>1, <1>2, <1>8, <2>1, <2>2 DEF GoType
  <1>9. QED
    BY <1>4, <1>5, <1>6, <1>7, <1>8 DEF normalizeValue

\* The name finds its key.
LEMMA Named ==
    ASSUME NEW r, NEW i \in DOMAIN r,
           \A j, l \in DOMAIN r : r[j].name = r[l].name => j = l
    PROVE  r[CHOOSE j \in DOMAIN r : r[j].name = r[i].name] = r[i]
  <1> DEFINE c == CHOOSE j \in DOMAIN r : r[j].name = r[i].name
  <1>1. c \in DOMAIN r /\ r[c].name = r[i].name
    OBVIOUS
  <1>2. c = i
    BY <1>1
  <1>3. QED
    BY <1>2

LEMMA RegisteredKey ==
    ASSUME RegistryInv, NEW name \in Registered
    PROVE  LET k == KeyNamed(name) IN
           k \in Keys /\ k.default.go = GoType(k.kind)
  <1>1. PICK i \in DOMAIN reg : name = reg[i].name
    BY DEF Registered
  <1>2. KeyNamed(name) = reg[i]
    BY <1>1, Named DEF KeyNamed, RegistryInv
  <1>3. reg[i] \in Keys
    BY DEF RegistryInv
  <1>4. QED
    BY <1>2, <1>3 DEF RegistryInv

\* What one override is to its key does not depend on the others.
LEMMA KeyKept ==
    ASSUME overflow' = overflow, reg' = reg, NEW name, name \in Registered,
           Validated(KeyNamed(name), over'[name])
    PROVE  name \in Registered' /\ Validated(KeyNamed(name), over[name])'
  <1>1. KeyNamed(name)' = KeyNamed(name) /\ name \in Registered'
    BY DEF KeyNamed, Registered
  <1>2. QED
    BY <1>1 DEF Validated, validateAgainst, validateNumber, ToDuration, ToInt

LEMMA Kept ==
    ASSUME ValidationInv, overflow' = overflow, reg' = reg, over' = over
    PROVE  ValidationInv'
  <1>1. RegistryInv'
    BY DEF ValidationInv, RegistryInv
  <1>2. ASSUME NEW name \in DOMAIN over'
        PROVE  name \in Registered' /\ Validated(KeyNamed(name), over[name])'
    <2>1. name \in Registered /\ Validated(KeyNamed(name), over'[name])
      BY <1>2 DEF ValidationInv, OverrideInv
    <2>2. QED
      BY <2>1, KeyKept
  <1>3. QED
    BY <1>1, <1>2 DEF ValidationInv, OverrideInv

\* One more key, and every name finds what it found before.
LEMMA RegisterStep ==
    ASSUME ValidationInv, NEW k \in Declarations, Register(k)
    PROVE  ValidationInv'
  <1> DEFINE nv == normalizeValue(k.kind, k.default)
             added == [k EXCEPT !.default = nv]
  <1>1. k \in Keys
    BY DeclarationAssumption
  <1>2. overflow' = overflow /\ over' = over
    BY DEF Register
  <1>3. CASE reg' = reg
    BY <1>2, <1>3, Kept
  <1>4. CASE reg' # reg
    <2>1. /\ k.name \notin Registered /\ nv # Error
          /\ reg' = Append(reg, added)
      BY <1>4 DEF Register
    <2>2. nv \in GoValues /\ nv.go = GoType(k.kind)
      BY <1>1, <2>1, Normalized DEF Keys, ValidationInv, RegistryInv
    <2>3. /\ added \in Keys /\ added.name = k.name /\ added.kind = k.kind
          /\ added.default = nv
      BY <1>1, <2>2 DEF Keys
    <2>4. added.default.go = GoType(added.kind)
      BY <2>2, <2>3
    <2>5. reg \in Seq(Keys) /\ Len(reg) \in Nat /\ DOMAIN reg = 1..Len(reg)
      BY DEF ValidationInv, RegistryInv
    <2> HIDE DEF added, nv
    <2>6. /\ reg' \in Seq(Keys) /\ DOMAIN reg' = 1..(Len(reg) + 1)
          /\ \A i \in DOMAIN reg : reg'[i] = reg[i]
          /\ reg'[Len(reg) + 1] = added
      BY <2>1, <2>3, <2>5
    <2>7. \A i \in DOMAIN reg' : i \in DOMAIN reg \/ i = Len(reg) + 1
      BY <2>5, <2>6
    <2>8. \A i \in DOMAIN reg : reg[i].name # k.name
      BY <2>1 DEF Registered
    <2>9. \A i, j \in DOMAIN reg' : reg'[i].name = reg'[j].name => i = j
      BY <2>3, <2>6, <2>7, <2>8 DEF ValidationInv, RegistryInv
    <2>10. \A i \in DOMAIN reg' : reg'[i].default.go = GoType(reg'[i].kind)
      BY <2>4, <2>6, <2>7 DEF ValidationInv, RegistryInv
    <2>11. RegistryInv'
      BY <1>2, <2>6, <2>9, <2>10 DEF ValidationInv, RegistryInv
    <2>12. ASSUME NEW name \in Registered
           PROVE  name \in Registered' /\ KeyNamed(name)' = KeyNamed(name)
      <3>1. PICK i \in DOMAIN reg : name = reg[i].name
        BY DEF Registered
      <3>2. i \in DOMAIN reg' /\ reg'[i] = reg[i] /\ name = reg'[i].name
        BY <2>5, <2>6, <3>1
      <3>3. KeyNamed(name) = reg[i]
        BY <3>1, Named DEF KeyNamed, ValidationInv, RegistryInv
      <3>4. reg'[CHOOSE j \in DOMAIN reg' : reg'[j].name = name] = reg'[i]
        BY <2>9, <3>2, Named
      <3>5. KeyNamed(name)' = reg[i]
        BY <3>2, <3>4 DEF KeyNamed
      <3>6. QED
        BY <3>2, <3>3, <3>5 DEF Registered
    <2>13. ASSUME NEW name \in DOMAIN over'
           PROVE  name \in Registered' /\ Validated(KeyNamed(name), over[name])'
      <3>1. name \in Registered /\ Validated(KeyNamed(name), over[name])
        BY <1>2, <2>13 DEF ValidationInv, OverrideInv
      <3>2. QED
        BY <1>2, <2>12, <3>1
        DEF Validated, validateAgainst, validateNumber, ToDuration, ToInt
    <2>14. QED
      BY <2>11, <2>13 DEF ValidationInv, OverrideInv
  <1>5. QED
    BY <1>3, <1>4

\* A new override, and the others as they were.
LEMMA OverrideStep ==
    ASSUME ValidationInv, NEW name \in Registered, NEW raw \in Raws, Override(name, raw)
    PROVE  ValidationInv'
  <1>1. overflow' = overflow /\ reg' = reg
    BY DEF Override
  <1>2. RegistryInv'
    BY <1>1 DEF ValidationInv, RegistryInv
  <1>3. /\ validateAgainst(KeyNamed(name), raw) # Error
        /\ DOMAIN over' = DOMAIN over \cup {name}
        /\ \A m \in DOMAIN over' :
             over'[m] = IF m = name THEN validateAgainst(KeyNamed(name), raw) ELSE over[m]
    BY DEF Override
  <1>4. ASSUME NEW m \in DOMAIN over'
        PROVE  m \in Registered /\ Validated(KeyNamed(m), over'[m])
    <2>1. CASE m = name
      BY <1>3, <2>1 DEF Validated
    <2>2. CASE m # name
      BY <1>3, <2>2 DEF ValidationInv, OverrideInv
    <2>3. QED
      BY <2>1, <2>2
  <1>5. ASSUME NEW m \in DOMAIN over'
        PROVE  m \in Registered' /\ Validated(KeyNamed(m), over[m])'
    BY <1>1, <1>4, <1>5, KeyKept
  <1>6. QED
    BY <1>2, <1>5 DEF ValidationInv, OverrideInv

LEMMA ValidationInvariant == Spec => []ValidationInv
  <1>1. Init => ValidationInv
    <2> SUFFICES ASSUME Init PROVE ValidationInv
      OBVIOUS
    <2>1. reg = <<>> /\ DOMAIN reg = {} /\ reg \in Seq(Keys)
      BY DEF Init
    <2>2. DOMAIN over = {}
      BY DEF Init
    <2>3. QED
      BY <2>1, <2>2 DEF Init, ValidationInv, RegistryInv, OverrideInv
  <1>2. ValidationInv /\ [Next]_vars => ValidationInv'
    <2> SUFFICES ASSUME ValidationInv, [Next]_vars PROVE ValidationInv'
      OBVIOUS
    <2>1. ASSUME NEW k \in Declarations, Register(k) PROVE ValidationInv'
      BY <2>1, RegisterStep
    <2>2. CASE Start \/ UNCHANGED vars
      BY <2>2, Kept DEF Start, vars
    <2>3. ASSUME NEW name \in Registered, NEW raw \in Raws, Override(name, raw)
          PROVE  ValidationInv'
      BY <2>3, OverrideStep
    <2>4. QED
      BY <2>1, <2>2, <2>3 DEF Next
  <1>3. QED
    BY <1>1, <1>2, PTL DEF Spec

-----------------------------------------------------------------------------
(* Types. *)

LEMMA OverrideTypes ==
    ASSUME overflow \in {"saturates", "indefinite"}, NEW k \in Keys, NEW v,
           Validated(k, v)
    PROVE  v.go = GoType(k.kind)
  <1>1. k.kind \in Kinds
    BY DEF Keys
  <1>2. CASE k.kind = "int"
    BY <1>2, IntegerOverride DEF GoType, GoInt
  <1>3. CASE k.kind = "duration"
    BY <1>3, DurationOverride DEF GoType, GoDuration
  <1>4. CASE k.kind = "float"
    BY <1>4, FloatOverride DEF GoType, GoFloat
  <1>5. CASE k.kind = "bool"
    BY <1>5, TextOverride DEF GoType, GoBool
  <1>6. CASE k.kind \in {"string", "enum"}
    BY <1>6, TextOverride DEF GoType, GoString
  <1>7. QED
    BY <1>1, <1>2, <1>3, <1>4, <1>5, <1>6 DEF Kinds

\* GettersSeeTheirType: whatever default a service declares and whatever is written,
\* a typed getter finds its own Go type and never falls back to zero.
THEOREM GettersAreTyped == Spec => []GettersSeeTheirType
  <1>1. ValidationInv => GettersSeeTheirType
    <2> SUFFICES ASSUME ValidationInv, NEW name \in Registered
                 PROVE  Resolve(name).go = GoType(KeyNamed(name).kind)
      BY DEF GettersSeeTheirType
    <2>1. /\ KeyNamed(name) \in Keys
          /\ KeyNamed(name).default.go = GoType(KeyNamed(name).kind)
      BY RegisteredKey DEF ValidationInv
    <2>2. CASE name \in DOMAIN over
      <3>1. Validated(KeyNamed(name), over[name])
        BY <2>2 DEF ValidationInv, OverrideInv
      <3>2. Resolve(name) = over[name]
        BY <2>2 DEF Resolve
      <3>3. QED
        BY <2>1, <3>1, <3>2, OverrideTypes DEF ValidationInv, RegistryInv
    <2>3. CASE name \notin DOMAIN over
      BY <2>1, <2>3 DEF Resolve
    <2>4. QED
      BY <2>2, <2>3
  <1>2. QED
    BY <1>1, ValidationInvariant, PTL

-----------------------------------------------------------------------------
(* Bounds. *)

\* OverridesKeepBounds: an override, whoever wrote it, is within the bounds and the
\* enum of its key; for a duration that is within what the bounds convert to, unless
\* the key takes seconds that a time.Duration cannot hold.
THEOREM OverridesAreBounded == Spec => []OverridesKeepBounds
  <1>1. ValidationInv => OverridesKeepBounds
    <2> SUFFICES ASSUME ValidationInv, NEW name \in DOMAIN over
                 PROVE  LET k == KeyNamed(name)  v == over[name] IN
                        /\ k.kind = "enum" => v.s \in k.enum
                        /\ k.kind = "int" => checkBounds(k, ToFloat(v.n))
                        /\ k.kind = "float" => checkBounds(k, v.n)
                        /\ k.kind = "duration" => DurationKeepsBounds(k, v.n)
      BY DEF OverridesKeepBounds
    <2> DEFINE k == KeyNamed(name)
               v == over[name]
    <2>1. overflow \in {"saturates", "indefinite"} /\ Validated(k, v)
      BY DEF ValidationInv, RegistryInv, OverrideInv
    <2>2. k \in Keys
      BY RegisteredKey DEF ValidationInv, OverrideInv
    <2> HIDE DEF k, v
    <2>3. k.kind = "enum" => v.s \in k.enum
      BY <2>1, <2>2, TextOverride DEF GoString
    <2>4. k.kind = "int" => checkBounds(k, ToFloat(v.n))
      BY <2>1, <2>2, IntegerOverride DEF GoInt
    <2>5. k.kind = "float" => checkBounds(k, v.n)
      BY <2>1, <2>2, FloatOverride DEF GoFloat
    <2>6. k.kind = "duration" => DurationKeepsBounds(k, v.n)
      BY <2>1, <2>2, DurationOverride DEF GoDuration
    <2>7. QED
      BY <2>3, <2>4, <2>5, <2>6 DEF k, v
  <1>2. QED
    BY <1>1, ValidationInvariant, PTL

-----------------------------------------------------------------------------
(* A value that is written back. *)

LEMMA IntegerWrittenBack ==
    ASSUME NEW k \in Keys, k.kind = "int", NEW i \in Int64,
           checkBounds(k, ToFloat(i)), ToInt(ToFloat(i)) = i
    PROVE  validateAgainst(k, toJSONValue(GoInt(i))) = GoInt(i)
  <1>1. toJSONValue(GoInt(i)) = Num(i * Unit)
    BY DEF toJSONValue, GoInt
  <1>2. NumberOf(Num(i * Unit)) = ToFloat(i)
    BY ReadsNumbers DEF ToFloat
  <1>3. validateNumber(k, ToFloat(i)) = GoInt(i)
    BY DEF validateNumber
  <1>4. validateAgainst(k, Num(i * Unit)) = validateNumber(k, ToFloat(i))
    BY <1>2, ReadsNumbers DEF validateAgainst
  <1>5. QED
    BY <1>1, <1>3, <1>4

\* Whole seconds that are a float are shown as they are.
LEMMA WholeSeconds ==
    ASSUME NEW d \in Int, d % Second = 0, IsFloat((d \div Second) * Unit)
    PROVE  Seconds(d) = (d \div Second) * Unit /\ Seconds(d) \in Int
           /\ Seconds(d) * Second = d * Unit
  <1> DEFINE s == d \div Second
  <1>1. s \in Int /\ d = s * Second
    <2>1. s \in Int /\ d = Second * s + (d % Second)
      BY DivMod, Constants
    <2>2. Second * s = s * Second /\ Second * s \in Int
      BY <2>1, Constants
    <2>3. QED
      BY <2>1, <2>2
  <1>2. Fl(s * Unit, 1) = s * Unit
    BY DEF IsFloat
  <1> HIDE DEF s
  <1>3. Trunc(d, Second) = s
    BY <1>1, TruncatesExactly, Constants
  <1>4. d - s * Second = 0
    BY <1>1, Constants
  <1>5. ToFloat(0) = 0 /\ Fl(0, Second) = 0
    BY ZeroIsZero, Constants DEF ToFloat
  <1>6. s * Unit \in Int /\ s * Unit + 0 = s * Unit
    BY <1>1, Constants
  <1>7. Seconds(d) = s * Unit
    <2>1. Seconds(d) = Fl(ToFloat(s) + Fl(ToFloat(0), Second), 1)
      BY <1>3, <1>4 DEF Seconds
    <2>2. ToFloat(s) = s * Unit
      BY <1>2 DEF ToFloat
    <2>3. QED
      BY <1>2, <1>5, <1>6, <2>1, <2>2
  <1>8. (s * Unit) * Second = (s * Second) * Unit
    BY <1>1, Constants
  <1>9. QED
    BY <1>1, <1>6, <1>7, <1>8 DEF s

LEMMA DurationWrittenBack ==
    ASSUME overflow \in {"saturates", "indefinite"}, NEW k \in Keys, k.kind = "duration",
           NEW d \in Int64, checkBounds(k, Seconds(d)),
           d % Second = 0, IsFloat(d * Unit), IsFloat((d \div Second) * Unit)
    PROVE  validateAgainst(k, toJSONValue(GoDuration(d))) = GoDuration(d)
  <1> DEFINE m == Seconds(d)
  <1>1. toJSONValue(GoDuration(d)) = Num(m)
    BY DEF toJSONValue, GoDuration
  <1>2. d \in Int
    BY Constants DEF Int64
  <1>3. m \in Int /\ m * Second = d * Unit /\ Fl(m, 1) = m
    BY <1>2, WholeSeconds DEF IsFloat
  <1> HIDE DEF m
  <1>4. Fl(m * Second, 1) = d * Unit
    BY <1>3 DEF IsFloat
  <1>5. ToDuration(m) = d
    <2>1. Trunc(d * Unit, Unit) = d
      BY <1>2, TruncatesExactly, Constants
    <2>2. d * Unit \in Int
      BY ONLY <1>2, Constants
    <2>3. QED
      BY <1>4, <2>1, <2>2, Converts DEF ToDuration
  <1>6. validateNumber(k, m) = GoDuration(d)
    BY <1>5 DEF validateNumber, m
  <1>7. validateAgainst(k, Num(m)) = validateNumber(k, m)
    BY <1>3, ReadsNumbers DEF validateAgainst
  <1>8. QED
    BY <1>1, <1>6, <1>7

\* A PUT of what GET shows for an override is accepted and changes nothing, but for a
\* duration that is not a whole number of seconds float64 holds.
THEOREM ViewsAreWrittenBack == Spec => []ViewIsWrittenBack
  <1>1. ValidationInv => ViewIsWrittenBack
    <2> SUFFICES ASSUME ValidationInv, NEW name \in DOMAIN over
                 PROVE  LET k == KeyNamed(name)  v == over[name] IN
                        /\ k.kind # "duration" => WrittenBack(name) = v
                        /\ /\ k.kind = "duration" /\ checkBounds(k, Seconds(v.n))
                           /\ v.n % Second = 0 /\ IsFloat(v.n * Unit)
                           /\ IsFloat((v.n \div Second) * Unit)
                           => WrittenBack(name) = v
      BY DEF ViewIsWrittenBack
    <2> DEFINE k == KeyNamed(name)
               v == over[name]
    <2>1. overflow \in {"saturates", "indefinite"} /\ Validated(k, v)
      BY DEF ValidationInv, RegistryInv, OverrideInv
    <2>2. k \in Keys
      BY RegisteredKey DEF ValidationInv, OverrideInv
    <2>3. WrittenBack(name) = validateAgainst(k, toJSONValue(v))
      BY DEF WrittenBack
    <2> HIDE DEF k, v
    <2>4. CASE k.kind = "int"
      <3>1. PICK i \in Int64 :
              v = GoInt(i) /\ checkBounds(k, ToFloat(i)) /\ ToInt(ToFloat(i)) = i
        BY <2>1, <2>2, <2>4, IntegerOverride
      <3>2. QED
        BY <2>2, <2>3, <2>4, <3>1, IntegerWrittenBack DEF k, v
    <2>5. CASE k.kind = "duration"
      <3>1. PICK d \in Int64 : v = GoDuration(d)
        BY <2>1, <2>2, <2>5, DurationOverride
      <3>2. v.n = d
        BY <3>1 DEF GoDuration
      <3>3. QED
        BY <2>1, <2>2, <2>3, <2>5, <3>1, <3>2, DurationWrittenBack DEF k, v
    <2>6. CASE k.kind = "float"
      <3>1. PICK f \in Int : v = GoFloat(f) /\ checkBounds(k, f) /\ Fl(f, 1) = f
        BY <2>1, <2>2, <2>6, FloatOverride
      <3>2. toJSONValue(v) = Num(f)
        BY <3>1 DEF toJSONValue, GoFloat
      <3>3. validateAgainst(k, Num(f)) = validateNumber(k, f)
        BY <2>6, <3>1, ReadsNumbers DEF validateAgainst
      <3>4. validateNumber(k, f) = GoFloat(f)
        BY <2>6, <3>1 DEF validateNumber
      <3>5. QED
        BY <2>3, <2>6, <3>1, <3>2, <3>3, <3>4 DEF k, v
    <2>7. CASE k.kind = "bool"
      <3>1. PICK x : v = GoBool(x)
        BY <2>1, <2>2, <2>7, TextOverride
      <3>2. toJSONValue(v) = Bool(x)
        BY <3>1 DEF toJSONValue, GoBool
      <3>3. validateAgainst(k, Bool(x)) = GoBool(x)
        BY <2>7 DEF validateAgainst, Unmarshals, BoolOf, Bool, Null
      <3>4. QED
        BY <2>3, <2>7, <3>1, <3>2, <3>3 DEF k, v
    <2>8. CASE k.kind \in {"string", "enum"}
      <3>1. PICK x : v = GoString(x) /\ (k.kind = "enum" => x \in k.enum)
        BY <2>1, <2>2, <2>8, TextOverride
      <3>2. toJSONValue(v) = Str(x)
        BY <3>1 DEF toJSONValue, GoString
      <3>3. Unmarshals(k.kind, Str(x)) /\ StringOf(Str(x)) = x
        BY <2>8 DEF Unmarshals, StringOf, Str, Null
      <3>4. validateAgainst(k, Str(x)) = GoString(x)
        BY <2>8, <3>1, <3>3 DEF validateAgainst
      <3>5. QED
        BY <2>3, <2>8, <3>1, <3>2, <3>4 DEF k, v
    <2>9. QED
      BY <2>2, <2>4, <2>5, <2>6, <2>7, <2>8 DEF Keys, Kinds, k, v
  <1>2. QED
    BY <1>1, ValidationInvariant, PTL
=============================================================================
