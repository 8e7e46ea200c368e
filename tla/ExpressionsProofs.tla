------------------------- MODULE ExpressionsProofs -------------------------
(***************************************************************************)
(* Proofs about conditions and assignments, for every width of an integer, *)
(* every precision of a double and every expression.                       *)
(*                                                                         *)
(* TypeOK is inductive: every operator gives a value of its type, the      *)
(* infinities and NaN included.  The properties of a comparison and of a   *)
(* step on integers follow from the types of the two operands alone.  What *)
(* they need is arithmetic: that Div and Mod are the division the standard *)
(* defines, that the checks before a multiplication, which divide the      *)
(* limit by one factor, miss no overflow and report none that is not, and  *)
(* which differences of doubles are near zero.                             *)
(***************************************************************************)
EXTENDS Expressions, SequenceTheorems, TLAPS

(***************************************************************************)
(* Division, of the integers and of the machine.                           *)
(***************************************************************************)

(* What the operators of Integers promise for a positive divisor.          *)
LEMMA Division ==
    ASSUME NEW a \in Int, NEW b \in Nat \ {0}
    PROVE  /\ a \div b \in Int
           /\ a % b \in 0 .. b - 1
           /\ a = b * (a \div b) + (a % b)
  BY SMT

(* Quotient and remainder by a positive divisor are unique.                *)
LEMMA Unique ==
    ASSUME NEW b \in Nat \ {0}, NEW p \in Int, NEW q \in Int, NEW m \in 0 .. b - 1, NEW n \in 0 .. b - 1,
           b * p + m = b * q + n
    PROVE  p = q /\ m = n
<1>1. ~(p < q)
  <2>1. ASSUME p < q PROVE FALSE
    <3>1. PICK d \in Int : q = p + d /\ d >= 1
      BY <2>1
    <3>2. b * q = b * p + b * d
      BY <3>1
    <3>3. b * d >= b
      BY <3>1
    <3>. QED BY <3>2, <3>3
  <2>. QED BY <2>1
<1>2. ~(q < p)
  <2>1. ASSUME q < p PROVE FALSE
    <3>1. PICK d \in Int : p = q + d /\ d >= 1
      BY <2>1
    <3>2. b * p = b * q + b * d
      BY <3>1
    <3>3. b * d >= b
      BY <3>1
    <3>. QED BY <3>2, <3>3
  <2>. QED BY <2>1
<1>. QED BY <1>1, <1>2

(* Who has a quotient and a remainder has those of Integers.               *)
LEMMA DivisionIs ==
    ASSUME NEW a \in Int, NEW b \in Nat \ {0}, NEW q \in Int, NEW m \in 0 .. b - 1,
           a = b * q + m
    PROVE  a \div b = q /\ a % b = m
<1>1. PICK p \in Int, n \in 0 .. b - 1 : a = b * p + n /\ p = a \div b /\ n = a % b
  BY Division
<1>2. p = q /\ n = m
  BY <1>1, Unique
<1>. QED BY <1>1, <1>2

(* Wrapping around gives an int64_t, and leaves an int64_t as it is.       *)
LEMMA WrapTyped ==
    ASSUME NEW n \in Int
    PROVE  Wrap(n) \in Int64
<1>. DEFINE width == 2 * MaxInt + 2
<1>1. MaxInt \in Nat \ {0} /\ width \in Nat \ {0} /\ MinInt \in Int
  BY ExpressionsAssumption DEF MinInt
<1>2. (n - MinInt) % width \in 0 .. width - 1
  BY <1>1, Division
<1>. QED BY <1>1, <1>2 DEF Wrap, Int64, MinInt

LEMMA WrapExact ==
    ASSUME NEW n \in Int64
    PROVE  Wrap(n) = n
<1>. DEFINE width == 2 * MaxInt + 2
<1>1. MaxInt \in Nat \ {0} /\ width \in Nat \ {0} /\ MinInt \in Int
  BY ExpressionsAssumption DEF MinInt
<1>2. n - MinInt \in 0 .. width - 1
  BY <1>1 DEF Int64, MinInt
<1>3. n - MinInt = width * 0 + (n - MinInt)
  BY <1>1, <1>2
<1>. HIDE DEF width
<1>4. (n - MinInt) % width = n - MinInt
  BY <1>1, <1>2, <1>3, DivisionIs
<1>. QED BY <1>1, <1>4 DEF Wrap, width, Int64, MinInt

(* The division of C++: the quotient is rounded towards zero, the remainder *)
(* has the sign of the dividend.                                           *)
Remainder(a, b, q, m) == a = q * b + m /\ Abs(m) < Abs(b) /\ m * a >= 0

LEMMA AbsIs ==
    ASSUME NEW n \in Int
    PROVE  /\ Abs(n) \in Nat
           /\ n >= 0 => Abs(n) = n
           /\ n < 0 => Abs(n) = -n
           /\ n # 0 => Abs(n) \in Nat \ {0}
  BY DEF Abs

(* A remainder is on the side of zero its dividend is on.                  *)
LEMMA SameSign ==
    ASSUME NEW m \in Int, NEW a \in Int, m * a >= 0
    PROVE  (a > 0 => m >= 0) /\ (a < 0 => m <= 0)
<1>1. ASSUME a > 0, m < 0 PROVE FALSE
  <2>1. PICK k \in Int : k = -m /\ k >= 1
    BY <1>1
  <2>2. k * a >= a
    BY <1>1, <2>1
  <2>3. m * a = -(k * a)
    BY <2>1
  <2>. QED BY <1>1, <2>2, <2>3
<1>2. ASSUME a < 0, m > 0 PROVE FALSE
  <2>1. PICK k \in Int : k = -a /\ k >= 1
    BY <1>2
  <2>2. m * k >= m
    BY <1>2, <2>1
  <2>3. m * a = -(m * k)
    BY <2>1
  <2>. QED BY <1>2, <2>2, <2>3
<1>. QED BY <1>1, <1>2

(* Div, from the division of the magnitudes.                               *)
LEMMA DivSteps ==
    ASSUME NEW a \in Int, NEW b \in Int \ {0}
    PROVE  \E q \in Nat, n \in 0 .. Abs(b) - 1 :
             /\ Abs(a) = Abs(b) * q + n
             /\ (a < 0) = (b < 0) => Div(a, b) = q
             /\ (a < 0) # (b < 0) => Div(a, b) = -q
             /\ q <= Abs(a)
<1>1. Abs(a) \in Nat /\ Abs(b) \in Nat \ {0}
  BY AbsIs
<1>2. PICK x \in Nat : x = Abs(a)
  BY <1>1
<1>3. PICK y \in Nat \ {0} : y = Abs(b)
  BY <1>1
<1>4. PICK q \in Int, n \in 0 .. y - 1 : x = y * q + n /\ q = x \div y
  <2>1. x \in Int /\ y \in Nat \ {0}
    BY <1>2, <1>3
  <2>. HIDE <1>2, <1>3
  <2>2. \E q \in Int, n \in 0 .. y - 1 : x = y * q + n /\ q = x \div y /\ n = x % y
    BY <2>1, Division
  <2>. QED BY <2>2
<1>5. q >= 0
  <2>1. ASSUME q < 0 PROVE FALSE
    <3>1. PICK k \in Int : k = -q /\ k >= 1
      BY <2>1
    <3>2. y * k >= y /\ y * q = -(y * k)
      BY <3>1
    <3>. QED BY <1>4, <3>2
  <2>. QED BY <2>1
<1>6. y * q >= q
  BY <1>5
<1>7. q <= x
  BY <1>4, <1>6
<1>8. Div(a, b) = IF (a < 0) = (b < 0) THEN q ELSE -q
  BY <1>2, <1>3, <1>4 DEF Div
<1>. QED BY <1>2, <1>3, <1>4, <1>5, <1>7, <1>8

(* Div and Mod are a quotient and a remainder in the sense of C++ ...      *)
LEMMA DivExists ==
    ASSUME NEW a \in Int, NEW b \in Int \ {0}
    PROVE  /\ Div(a, b) \in Int
           /\ Abs(Div(a, b)) <= Abs(a)
           /\ Mod(a, b) \in Int
           /\ Remainder(a, b, Div(a, b), Mod(a, b))
<1>1. PICK q \in Nat, n \in 0 .. Abs(b) - 1 :
         /\ Abs(a) = Abs(b) * q + n
         /\ (a < 0) = (b < 0) => Div(a, b) = q
         /\ (a < 0) # (b < 0) => Div(a, b) = -q
         /\ q <= Abs(a)
  BY DivSteps
<1>2. Div(a, b) \in Int /\ Abs(Div(a, b)) <= Abs(a)
  BY <1>1 DEF Abs
<1>3. PICK d \in Int : d = Div(a, b)
  BY <1>2
<1>4. PICK m \in Int : m = a - b * d /\ m = Mod(a, b)
  BY <1>3 DEF Mod
<1>5. a = d * b + m
  BY <1>4
<1>6. IF a < 0 THEN m = -n ELSE m = n
  <2>1. CASE a < 0 /\ b < 0
    <3>1. -a = (-b) * q + n /\ d = q
      BY <1>1, <1>3, <2>1, AbsIs
    <3>. QED BY <1>4, <2>1, <3>1
  <2>2. CASE a < 0 /\ b >= 0
    <3>1. -a = b * q + n /\ d = -q
      BY <1>1, <1>3, <2>2, AbsIs
    <3>. QED BY <1>4, <2>2, <3>1
  <2>3. CASE a >= 0 /\ b < 0
    <3>1. a = (-b) * q + n /\ d = -q
      BY <1>1, <1>3, <2>3, AbsIs
    <3>. QED BY <1>4, <2>3, <3>1
  <2>4. CASE a >= 0 /\ b >= 0
    <3>1. a = b * q + n /\ d = q
      BY <1>1, <1>3, <2>4, AbsIs
    <3>. QED BY <1>4, <2>4, <3>1
  <2>. QED BY <2>1, <2>2, <2>3, <2>4
<1>7. Abs(m) = n /\ n < Abs(b)
  BY <1>6, AbsIs DEF Abs
<1>8. m * a >= 0
  <2>1. CASE a < 0
    <3>1. PICK k \in Nat : k = -a
      BY <2>1
    <3>2. m * a = n * k /\ n * k >= 0
      BY <1>6, <2>1, <3>1
    <3>. QED BY <3>2
  <2>2. CASE a >= 0
    <3>1. m = n
      BY <1>6, <2>2
    <3>2. n * a >= 0
      BY <2>2
    <3>. QED BY <3>1, <3>2
  <2>. QED BY <2>1, <2>2
<1>. QED BY <1>2, <1>3, <1>4, <1>5, <1>7, <1>8, AbsIs DEF Remainder

(* ... and there are no others.                                            *)
LEMMA DivUnique ==
    ASSUME NEW a \in Int, NEW b \in Int \ {0}, NEW q \in Int, NEW m \in Int,
           Remainder(a, b, q, m)
    PROVE  q = Div(a, b)
<1>1. PICK k \in Nat, n \in 0 .. Abs(b) - 1 :
         /\ Abs(a) = Abs(b) * k + n
         /\ (a < 0) = (b < 0) => Div(a, b) = k
         /\ (a < 0) # (b < 0) => Div(a, b) = -k
  BY DivSteps
<1>2. a = q * b + m /\ Abs(m) < Abs(b) /\ m * a >= 0
  BY DEF Remainder
<1>3. PICK c \in Nat \ {0} : c = Abs(b)
  BY AbsIs
<1>4. a = 0 => k = 0
  <2>1. SUFFICES ASSUME a = 0 PROVE k = 0
    OBVIOUS
  <2>2. c * k + n = c * 0 + 0 /\ n \in 0 .. c - 1 /\ 0 \in 0 .. c - 1
    BY <1>1, <1>3, <2>1, AbsIs
  <2>. HIDE <1>1, <1>2, <1>3, <2>1
  <2>. QED BY <2>2, Unique
<1>5. CASE a >= 0 /\ m >= 0 /\ b > 0
  <2>1. c = b /\ m \in 0 .. c - 1 /\ n \in 0 .. c - 1 /\ a = c * k + n
    BY <1>1, <1>2, <1>3, <1>5, AbsIs
  <2>2. c * q + m = c * k + n
    BY <1>2, <2>1
  <2>3. q = k
    BY <2>1, <2>2, Unique
  <2>. QED BY <1>1, <1>5, <2>3
<1>6. CASE a >= 0 /\ m >= 0 /\ b < 0
  <2>1. c = -b /\ m \in 0 .. c - 1 /\ n \in 0 .. c - 1 /\ a = c * k + n
    BY <1>1, <1>2, <1>3, <1>6, AbsIs
  <2>2. c * (-q) + m = c * k + n
    BY <1>2, <2>1
  <2>3. -q = k
    BY <2>1, <2>2, Unique
  <2>. QED BY <1>1, <1>6, <2>3
<1>7. CASE a <= 0 /\ m <= 0 /\ b > 0
  <2>1. c = b /\ -m \in 0 .. c - 1 /\ n \in 0 .. c - 1 /\ -a = c * k + n
    BY <1>1, <1>2, <1>3, <1>7 DEF Abs
  <2>2. c * (-q) + (-m) = c * k + n
    BY <1>2, <2>1
  <2>3. -q = k
    BY <2>1, <2>2, Unique
  <2>. QED BY <1>1, <1>4, <1>7, <2>3
<1>8. CASE a <= 0 /\ m <= 0 /\ b < 0
  <2>1. c = -b /\ -m \in 0 .. c - 1 /\ n \in 0 .. c - 1 /\ -a = c * k + n
    BY <1>1, <1>2, <1>3, <1>8 DEF Abs
  <2>2. c * q + (-m) = c * k + n
    BY <1>2, <2>1
  <2>3. q = k
    BY <2>1, <2>2, Unique
  <2>. QED BY <1>1, <1>4, <1>8, <2>3
<1>9. (a >= 0 /\ m >= 0) \/ (a <= 0 /\ m <= 0)
  BY <1>2, SameSign
<1>. QED BY <1>5, <1>6, <1>7, <1>8, <1>9

(* The quotient the property speaks of is the one the model computes.      *)
LEMMA QuotientIs ==
    ASSUME NEW l \in Int64, NEW r \in Int64 \ {0}
    PROVE  Quotient(l, r) = Div(l, r)
<1>1. MaxInt \in Nat /\ MinInt \in Int /\ l \in Int /\ r \in Int \ {0} /\ MinInt = -MaxInt - 1
  BY ExpressionsAssumption DEF Int64, MinInt
<1>2. /\ Div(l, r) \in Int
      /\ Abs(Div(l, r)) <= Abs(l)
      /\ Mod(l, r) \in Int
      /\ Remainder(l, r, Div(l, r), Mod(l, r))
  BY <1>1, DivExists
<1>3. Div(l, r) \in MinInt .. -MinInt
  BY <1>1, <1>2 DEF Abs, Int64
<1>4. Mod(l, r) \in Int64
  BY <1>1, <1>2 DEF Abs, Int64, Remainder
<1>5. \A q \in MinInt .. -MinInt :
         (\E m \in Int64 : l = q * r + m /\ Abs(m) < Abs(r) /\ m * l >= 0) <=> q = Div(l, r)
  <2>1. TAKE q \in MinInt .. -MinInt
  <2>2. ASSUME q = Div(l, r)
        PROVE  \E m \in Int64 : l = q * r + m /\ Abs(m) < Abs(r) /\ m * l >= 0
    BY <1>2, <1>4, <2>2 DEF Remainder
  <2>3. ASSUME NEW m \in Int64, l = q * r + m /\ Abs(m) < Abs(r) /\ m * l >= 0
        PROVE  q = Div(l, r)
    <3>1. m \in Int /\ q \in Int
      BY <1>1 DEF Int64
    <3>. QED BY <1>1, <2>3, <3>1, DivUnique DEF Remainder
  <2>. QED BY <2>2, <2>3
<1>. QED BY <1>3, <1>5 DEF Quotient

(* One more multiple of a number is at least that number away.             *)
LEMMA Scaled ==
    ASSUME NEW l \in Int, NEW p \in Int, NEW q \in Int, p < q
    PROVE  /\ l > 0 => l * p + l <= l * q
           /\ l < 0 => l * q <= l * p + l
<1>1. PICK d \in Nat : q = p + 1 + d
  <2>1. q - p - 1 \in Nat
    OBVIOUS
  <2>. QED BY <2>1
<1>2. l * q = l * p + l + l * d
  BY <1>1
<1>3. l > 0 => l * d >= 0
  OBVIOUS
<1>4. l < 0 => l * d <= 0
  <2>1. ASSUME l < 0 PROVE l * d <= 0
    <3>1. PICK k \in Nat : k = -l
      BY <2>1
    <3>2. l * d = -(k * d) /\ k * d >= 0
      BY <3>1
    <3>. QED BY <3>2
  <2>. QED BY <2>1
<1>. QED BY <1>2, <1>3, <1>4

(* The four checks before a multiplication, which divide the limit by the  *)
(* left factor, are exact: in the sign case that applies, the quotient is  *)
(* passed by the right factor just when the product passes the limit.      *)
LEMMA MulOverflowExact ==
    ASSUME NEW l \in Int64, NEW r \in Int64
    PROVE  MulOverflow(l, r) <=> l * r \notin Int64
<1>1. /\ MaxInt \in Nat /\ MinInt \in Int /\ l \in Int /\ r \in Int /\ MinInt = -MaxInt - 1
      /\ MaxInt > 0
  BY ExpressionsAssumption DEF Int64, MinInt
<1>2. \A x \in Int : x \in Int64 <=> MinInt <= x /\ x <= MaxInt
  BY <1>1 DEF Int64
<1>3. PICK product \in Int : product = l * r
  BY <1>1
<1>4. CASE l = 0 \/ r = 0
  <2>1. l * r = 0
    BY <1>1, <1>4
  <2>2. 0 \in Int64
    BY <1>1, <1>2
  <2>. QED BY <1>1, <1>4, <2>1, <2>2 DEF MulOverflow
<1>5. ASSUME l # 0 /\ r # 0, NEW top \in {MaxInt, MinInt}
      PROVE  \E q \in Int, m \in Int :
               /\ q = Div(top, l)
               /\ top = l * q + m
               /\ Abs(m) < Abs(l)
               /\ (top = MaxInt => m >= 0)
               /\ (top = MinInt => m <= 0)
  <2>1. top \in Int
    BY <1>1
  <2>2. PICK q \in Int, m \in Int : q = Div(top, l) /\ Remainder(top, l, q, m)
    BY <1>1, <1>5, <2>1, DivExists
  <2>3. top = q * l + m /\ Abs(m) < Abs(l) /\ m * top >= 0
    BY <2>2 DEF Remainder
  <2>4. (top > 0 => m >= 0) /\ (top < 0 => m <= 0)
    BY <2>1, <2>3, SameSign
  <2>5. q * l = l * q
    BY <1>1
  <2>. QED BY <1>1, <2>1, <2>2, <2>3, <2>4, <2>5
<1>6. CASE l > 0 /\ r > 0
  <2>1. PICK q \in Int, m \in Int :
           q = Div(MaxInt, l) /\ MaxInt = l * q + m /\ Abs(m) < Abs(l) /\ m >= 0
    BY <1>5, <1>6
  <2>2. m < l
    BY <1>1, <1>6, <2>1 DEF Abs
  <2>3. MulOverflow(l, r) <=> q < r
    BY <1>1, <1>6, <2>1 DEF MulOverflow
  <2>4. q < r => product > MaxInt
    BY <1>1, <1>3, <1>6, <2>1, <2>2, Scaled
  <2>5. r <= q => product <= MaxInt
    BY <1>1, <1>3, <1>6, <2>1, Scaled
  <2>6. product >= 0
    BY <1>1, <1>3, <1>6
  <2>. QED BY <1>1, <1>2, <1>3, <2>3, <2>4, <2>5, <2>6
<1>7. CASE l < 0 /\ r < 0
  <2>1. PICK q \in Int, m \in Int :
           q = Div(MaxInt, l) /\ MaxInt = l * q + m /\ Abs(m) < Abs(l) /\ m >= 0
    BY <1>5, <1>7
  <2>2. m < -l
    BY <1>1, <1>7, <2>1 DEF Abs
  <2>3. MulOverflow(l, r) <=> q > r
    BY <1>1, <1>7, <2>1 DEF MulOverflow
  <2>4. r < q => product > MaxInt
    BY <1>1, <1>3, <1>7, <2>1, <2>2, Scaled
  <2>5. q <= r => product <= MaxInt
    BY <1>1, <1>3, <1>7, <2>1, Scaled
  <2>6. product >= 0
    BY <1>1, <1>3, <1>7, Scaled
  <2>. QED BY <1>1, <1>2, <1>3, <2>3, <2>4, <2>5, <2>6
<1>8. CASE l > 0 /\ r < 0
  <2>1. PICK q \in Int, m \in Int :
           q = Div(MinInt, l) /\ MinInt = l * q + m /\ Abs(m) < Abs(l) /\ m <= 0
    BY <1>5, <1>8
  <2>2. m > -l
    BY <1>1, <1>8, <2>1 DEF Abs
  <2>3. MulOverflow(l, r) <=> q > r
    BY <1>1, <1>8, <2>1 DEF MulOverflow
  <2>4. r < q => product < MinInt
    BY <1>1, <1>3, <1>8, <2>1, <2>2, Scaled
  <2>5. q <= r => product >= MinInt
    BY <1>1, <1>3, <1>8, <2>1, Scaled
  <2>6. product <= 0
    BY <1>1, <1>3, <1>8, Scaled
  <2>. QED BY <1>1, <1>2, <1>3, <2>3, <2>4, <2>5, <2>6
<1>9. CASE l < 0 /\ r > 0
  <2>1. PICK q \in Int, m \in Int :
           q = Div(MinInt, l) /\ MinInt = l * q + m /\ Abs(m) < Abs(l) /\ m <= 0
    BY <1>5, <1>9
  <2>2. m > l
    BY <1>1, <1>9, <2>1 DEF Abs
  <2>3. MulOverflow(l, r) <=> q < r
    BY <1>1, <1>9, <2>1 DEF MulOverflow
  <2>4. q < r => product < MinInt
    BY <1>1, <1>3, <1>9, <2>1, <2>2, Scaled
  <2>5. r <= q => product >= MinInt
    BY <1>1, <1>3, <1>9, <2>1, Scaled
  <2>6. product <= 0
    BY <1>1, <1>3, <1>9, Scaled
  <2>. QED BY <1>1, <1>2, <1>3, <2>3, <2>4, <2>5, <2>6
<1>. QED BY <1>1, <1>4, <1>6, <1>7, <1>8, <1>9

(* A quotient of two int64_t is one, but for the smallest by -1, and so is a *)
(* remainder, that of the smallest by -1 included.                         *)
LEMMA DivTyped ==
    ASSUME NEW l \in Int64, NEW r \in Int64 \ {0}
    PROVE  /\ ~Traps(l, r) => Div(l, r) \in Int64
           /\ Traps(l, r) => Div(l, r) = -MinInt
           /\ Mod(l, r) \in Int64
<1>1. /\ MaxInt \in Nat /\ MinInt \in Int /\ l \in Int /\ r \in Int \ {0} /\ MinInt = -MaxInt - 1
  BY ExpressionsAssumption DEF Int64, MinInt
<1>2. MinInt <= l /\ l <= MaxInt /\ MinInt <= r /\ r <= MaxInt
  BY <1>1 DEF Int64
<1>3. PICK q \in Nat, n \in 0 .. Abs(r) - 1 :
         /\ Abs(l) = Abs(r) * q + n
         /\ (l < 0) = (r < 0) => Div(l, r) = q
         /\ (l < 0) # (r < 0) => Div(l, r) = -q
         /\ q <= Abs(l)
  BY <1>1, DivSteps
<1>4. Abs(l) \in Nat /\ Abs(l) <= -MinInt /\ Abs(r) \in Nat \ {0}
  BY <1>1, <1>2 DEF Abs
<1>5. Abs(r) = 1 => Abs(l) = q /\ n = 0
  <2>1. SUFFICES ASSUME Abs(r) = 1 PROVE Abs(l) = q /\ n = 0
    OBVIOUS
  <2>. QED BY <1>3, <2>1
<1>6. Abs(r) > 1 => q <= MaxInt
  <2>1. SUFFICES ASSUME Abs(r) > 1, q > MaxInt PROVE FALSE
    BY <1>1
  <2>2. PICK d \in Nat : Abs(r) = 2 + d
    <3>1. Abs(r) - 2 \in Nat
      BY <1>4, <2>1
    <3>. QED BY <1>4, <3>1
  <2>3. Abs(l) = 2 * q + d * q + n /\ d * q >= 0
    BY <1>3, <2>2
  <2>. QED BY <1>1, <1>3, <1>4, <2>1, <2>3
<1>10. /\ l < 0 /\ r < 0 => Div(l, r) = q
       /\ l < 0 /\ r > 0 => Div(l, r) = -q
       /\ l >= 0 /\ r < 0 => Div(l, r) = -q
       /\ l >= 0 /\ r > 0 => Div(l, r) = q
  BY <1>1, <1>3
<1>7. Traps(l, r) => Div(l, r) = -MinInt
  <2>1. SUFFICES ASSUME l = MinInt, r = -1 PROVE Div(l, r) = -MinInt
    BY DEF Traps
  <2>2. Abs(r) = 1 /\ Abs(l) = -MinInt
    <3>1. r < 0 /\ r + 1 = 0
      BY <1>1, <2>1
    <3>2. l < 0
      BY <1>1, <2>1
    <3>. QED BY <1>1, <2>1, <3>1, <3>2, AbsIs
  <2>3. l < 0 /\ r < 0 /\ q = -MinInt
    BY <1>1, <1>5, <2>1, <2>2
  <2>. QED BY <1>10, <2>3
<1>8. ~Traps(l, r) => Div(l, r) \in Int64
  <2>1. SUFFICES ASSUME ~(l = MinInt /\ r = -1) PROVE Div(l, r) \in Int64
    BY DEF Traps
  <2>2. CASE Abs(r) > 1
    BY <1>1, <1>3, <1>6, <2>2 DEF Int64
  <2>3. CASE r = 1
    <3>1. Abs(r) = 1 /\ Abs(l) = q
      BY <1>5, <2>3 DEF Abs
    <3>2. Div(l, r) = l
      BY <1>1, <1>10, <2>3, <3>1 DEF Abs
    <3>. QED BY <3>2
  <2>4. CASE r = -1
    <3>1. r < 0 /\ Abs(r) = 1 /\ Abs(l) = q
      <4>1. r < 0 /\ r + 1 = 0
        BY <1>1, <2>4
      <4>. QED BY <1>1, <1>5, <4>1, AbsIs
    <3>2. Div(l, r) = -l
      <4>1. CASE l < 0
        BY <1>1, <1>10, <3>1, <4>1, AbsIs
      <4>2. CASE l >= 0
        BY <1>1, <1>10, <3>1, <4>2, AbsIs
      <4>. QED BY <1>1, <4>1, <4>2
    <3>. QED BY <1>1, <1>2, <2>1, <2>4, <3>2 DEF Int64
  <2>. QED BY <1>1, <1>4, <2>2, <2>3, <2>4 DEF Abs
<1>9. Mod(l, r) \in Int64
  <2>1. PICK m \in Int : m = Mod(l, r) /\ Abs(m) < Abs(r)
    BY <1>1, DivExists DEF Remainder
  <2>2. Abs(r) <= -MinInt
    BY <1>1, <1>2 DEF Abs
  <2>. QED BY <1>1, <2>1, <2>2 DEF Abs, Int64
<1>. QED BY <1>7, <1>8, <1>9

(* LOG(FATAL) or a trap.                                                   *)
Stops(v) == v \in {Fatal, Trap}

(* The five operations on integers: what they give is exact, and when they *)
(* end the process there is a reason.                                      *)
LEMMA IntArithmeticIs ==
    ASSUME NEW op \in ArithmeticOps, NEW l \in Int64, NEW r \in Int64,
           NEW result, result = IntArithmetic(op, l, r)
    PROVE  /\ result \in IntValues \cup {Fatal, Trap}
           /\ ~Stops(result) /\ ~(op = "SUB" /\ l >= 0 /\ r = MinInt) =>
                result = IntValue(Exact(op, l, r))
           /\ Stops(result) =>
                \/ op \in {"DIV", "MOD"} /\ r = 0
                \/ op = "MUL" /\ l = -1 /\ r > 0
                \/ op = "MOD" /\ Traps(l, r)
                \/ Exact(op, l, r) \notin Int64
<1>1. /\ MaxInt \in Nat /\ MinInt \in Int /\ l \in Int /\ r \in Int /\ MinInt = -MaxInt - 1
  BY ExpressionsAssumption DEF Int64, MinInt
<1>2. MinInt <= l /\ l <= MaxInt /\ MinInt <= r /\ r <= MaxInt
  BY <1>1 DEF Int64
<1>3. \A n \in Int : n \in Int64 <=> MinInt <= n /\ n <= MaxInt
  BY <1>1 DEF Int64
<1>4. \A n \in Int : Wrap(n) \in Int64
  BY WrapTyped
<1>5. \A n \in Int64 : Wrap(n) = n
  BY WrapExact
<1>6. \A n \in Int64 : IntValue(n) \in IntValues /\ ~Stops(IntValue(n))
  BY DEF IntValue, IntValues, Stops, Fatal, Trap
<1>7. Stops(Fatal) /\ Stops(Trap)
  BY DEF Stops
<1>8. op \in {"ADD", "SUB", "MUL", "DIV", "MOD"}
  BY DEF ArithmeticOps
<1>9. CASE op = "ADD"
  <2>1. Exact(op, l, r) = l + r
    BY <1>9 DEF Exact
  <2>2. PICK sum \in Int : sum = l + r
    BY <1>1
  <2>3. AddOverflow(l, r) <=> sum \notin Int64
    BY <1>1, <1>2, <1>3, <2>2 DEF AddOverflow
  <2>4. result = IF AddOverflow(l, r) THEN Fatal ELSE IntValue(Wrap(sum))
    BY <1>9, <2>2 DEF IntArithmetic
  <2>. QED BY <1>4, <1>5, <1>6, <1>7, <1>9, <2>1, <2>2, <2>3, <2>4
<1>10. CASE op = "SUB"
  <2>1. Exact(op, l, r) = l - r
    BY <1>10 DEF Exact
  <2>2. PICK difference \in Int : difference = l - r
    BY <1>1
  <2>3. r # MinInt => Wrap(-r) = -r
    BY <1>1, <1>2, <1>3, <1>5
  <2>4. SubOverflow(l, r) => difference \notin Int64
    BY <1>1, <1>2, <1>3, <2>2, <2>3 DEF SubOverflow
  <2>5. ~SubOverflow(l, r) /\ ~(l >= 0 /\ r = MinInt) => difference \in Int64
    BY <1>1, <1>2, <1>3, <2>2, <2>3 DEF SubOverflow
  <2>6. result = IF SubOverflow(l, r) THEN Fatal ELSE IntValue(Wrap(difference))
    BY <1>10, <2>2 DEF IntArithmetic
  <2>. QED BY <1>4, <1>5, <1>6, <1>7, <1>10, <2>1, <2>2, <2>4, <2>5, <2>6
<1>11. CASE op = "MUL"
  <2>1. Exact(op, l, r) = l * r
    BY <1>11 DEF Exact
  <2>2. PICK product \in Int : product = l * r
    BY <1>1
  <2>3. MulOverflow(l, r) <=> product \notin Int64
    BY <2>2, MulOverflowExact
  <2>4. result = IF l < 0 /\ r > 0 /\ Traps(MinInt, l) THEN Trap
                 ELSE IF MulOverflow(l, r) THEN Fatal ELSE IntValue(Wrap(product))
    BY <1>11, <2>2 DEF IntArithmetic
  <2>5. Traps(MinInt, l) => l = -1
    BY DEF Traps
  <2>. QED BY <1>4, <1>5, <1>6, <1>7, <1>11, <2>1, <2>2, <2>3, <2>4, <2>5
<1>12. CASE op = "DIV"
  <2>1. result = IF r = 0 THEN Fatal ELSE IF Traps(l, r) THEN Trap ELSE IntValue(Div(l, r))
    BY <1>12 DEF IntArithmetic
  <2>2. CASE r = 0
    BY <1>7, <1>12, <2>1, <2>2
  <2>3. CASE r # 0
    <3>1. Exact(op, l, r) = Div(l, r)
      BY <1>12, <2>3, QuotientIs DEF Exact
    <3>2. Traps(l, r) => Div(l, r) \notin Int64
      BY <1>1, <1>3, <2>3, DivTyped
    <3>3. ~Traps(l, r) => Div(l, r) \in Int64
      BY <2>3, DivTyped
    <3>. QED BY <1>6, <1>7, <1>12, <2>1, <2>3, <3>1, <3>2, <3>3
  <2>. QED BY <2>2, <2>3
<1>13. CASE op = "MOD"
  <2>1. result = IF r = 0 THEN Fatal ELSE IF Traps(l, r) THEN Trap ELSE IntValue(Mod(l, r))
    BY <1>13 DEF IntArithmetic
  <2>2. CASE r = 0
    BY <1>7, <1>13, <2>1, <2>2
  <2>3. CASE r # 0
    <3>1. Exact(op, l, r) = Mod(l, r)
      BY <1>13, <2>3, QuotientIs DEF Exact, Mod
    <3>2. Mod(l, r) \in Int64
      BY <2>3, DivTyped
    <3>. QED BY <1>6, <1>7, <1>13, <2>1, <2>3, <3>1, <3>2
  <2>. QED BY <2>2, <2>3
<1>. QED BY <1>8, <1>9, <1>10, <1>11, <1>12, <1>13

-----------------------------------------------------------------------------

(* A value by its type.                                                    *)
LEMMA ValueCases ==
    ASSUME NEW x \in Values
    PROVE  /\ x = [type |-> x.type, val |-> x.val]
           /\ x.val \in Int
           /\ \/ x.type = "int" /\ x.val \in Int64
              \/ x.type = "double" /\ x.val \in Doubles
              \/ x.type = "bool" /\ x.val \in 0 .. 1
              \/ x.type = "string" /\ x.val \in 0 .. MaxLen
<1>1. MaxInt \in Nat /\ MinInt \in Int /\ MaxDouble \in Nat /\ MaxLen \in Nat
  BY ExpressionsAssumption DEF MinInt
<1>2. Int64 \subseteq Int
  BY <1>1 DEF Int64
<1>3. CASE x \in IntValues
  BY <1>2, <1>3 DEF IntValues
<1>4. CASE x \in DoubleValues
  BY <1>1, <1>4 DEF DoubleValues, Doubles, Infinity, NaN
<1>5. CASE x \in BoolValues
  BY <1>5 DEF BoolValues
<1>6. CASE x \in StringValues
  BY <1>1, <1>6 DEF StringValues
<1>. QED BY <1>3, <1>4, <1>5, <1>6 DEF Values

(* The doubles, finite and not.                                            *)
LEMMA DoublesAre ==
    /\ MaxDouble \in Nat /\ Eps \in Nat \ {0} /\ Scale \in Nat \ {0}
    /\ Infinity \in Int /\ Infinity = MaxDouble + 1 /\ NaN \in Int /\ NaN = MaxDouble + 2
    /\ \A d \in Int : IsFinite(d) <=> -MaxDouble <= d /\ d <= MaxDouble
    /\ \A d : d \in Doubles <=> d \in Int /\ (IsFinite(d) \/ d \in {Infinity, -Infinity, NaN})
    /\ ~IsFinite(Infinity) /\ ~IsFinite(-Infinity) /\ ~IsFinite(NaN)
    /\ NaN # Infinity /\ NaN # -Infinity /\ Infinity # -Infinity
    /\ Eps <= MaxDouble
<1>1. MaxDouble \in Nat /\ Eps \in Nat \ {0} /\ Scale \in Nat \ {0} /\ Eps <= MaxDouble
  <2>1. Scale \in Nat \ {0} /\ MaxInt \in Nat \ {0} /\ MaxDouble \in Nat /\ Eps \in 1 .. Scale
    BY ExpressionsAssumption
  <2>2. MaxInt * Scale + Scale <= MaxDouble /\ MaxInt * Scale >= 0
    BY <2>1, ExpressionsAssumption
  <2>. QED BY <2>1, <2>2
<1>. QED BY <1>1 DEF Infinity, NaN, Doubles, IsFinite

LEMMA RoundTyped ==
    ASSUME NEW d \in Int
    PROVE  /\ Round(d) \in Doubles /\ Round(d) # NaN
           /\ IsFinite(d) => Round(d) = d
           /\ ~IsFinite(d) => Round(d) \in {Infinity, -Infinity}
  BY DoublesAre DEF Round

LEMMA BoolTyped ==
    ASSUME NEW b
    PROVE  BoolValue(b) \in BoolValues
  BY DEF BoolValue, BoolValues

(* A number as a double: that of an integer is finite.                     *)
LEMMA AsDoubleTyped ==
    ASSUME NEW x \in Values, IsArithmetic(x)
    PROVE  /\ AsDouble(x) \in Doubles
           /\ x.type = "double" => AsDouble(x) = x.val
<1>1. CASE IsInt(x)
  <2>1. MaxInt \in Nat /\ Scale \in Nat \ {0} /\ MaxInt * Scale + Scale <= MaxDouble
    BY ExpressionsAssumption
  <2>2. PICK n \in Int : n = x.val /\ -MaxInt - 1 <= n /\ n <= MaxInt
    BY <1>1, <2>1, ValueCases DEF IsInt, Int64, MinInt
  <2>3. Scale * n <= Scale * MaxInt
    BY <2>1, <2>2, Scaled
  <2>4. Scale * (-MaxInt - 1) <= Scale * n
    BY <2>1, <2>2, Scaled
  <2>5. PICK top \in Int : top = MaxInt * Scale
    BY <2>1
  <2>6. PICK d \in Int : d = n * Scale
    BY <2>1
  <2>7. Scale * n = d /\ Scale * MaxInt = top /\ Scale * (-MaxInt - 1) = -top - Scale
    BY <2>1, <2>5, <2>6
  <2>8. -MaxDouble <= d /\ d <= MaxDouble
    BY <2>1, <2>3, <2>4, <2>5, <2>7, DoublesAre
  <2>9. AsDouble(x) = d
    BY <1>1, <2>2, <2>6 DEF AsDouble
  <2>. QED BY <1>1, <2>8, <2>9, DoublesAre DEF IsInt
<1>2. CASE x.type = "double"
  BY <1>2, ValueCases DEF AsDouble, IsInt
<1>. QED BY <1>1, <1>2 DEF IsArithmetic, IsInt

(* The operations on two doubles give a double.                            *)
LEMMA PlusTyped ==
    ASSUME NEW a \in Doubles, NEW b \in Doubles
    PROVE  Plus(a, b) \in Doubles
<1>1. a \in Int /\ b \in Int /\ a + b \in Int
  BY DoublesAre
<1>2. CASE IsFinite(a) /\ IsFinite(b)
  BY <1>1, <1>2, RoundTyped DEF Plus
<1>3. CASE ~IsFinite(a) /\ (IsFinite(b) \/ a = b)
  BY <1>3 DEF Plus
<1>4. CASE IsFinite(a) /\ ~IsFinite(b)
  BY <1>4 DEF Plus
<1>5. CASE ~IsFinite(a) /\ ~IsFinite(b) /\ a # b
  BY <1>5, DoublesAre DEF Plus
<1>. QED BY <1>2, <1>3, <1>4, <1>5

LEMMA OppositeTyped ==
    ASSUME NEW a \in Doubles
    PROVE  /\ Opposite(a) \in Doubles
           /\ IsFinite(a) <=> IsFinite(Opposite(a))
           /\ a = NaN <=> Opposite(a) = NaN
           /\ a # NaN => Opposite(a) = -a
  BY DoublesAre DEF Opposite

LEMMA SignedTyped ==
    ASSUME NEW a, NEW b
    PROVE  SignedInfinity(a, b) \in Doubles
<1>1. Infinity \in Doubles /\ -Infinity \in Doubles
  BY DoublesAre
<1>. QED BY <1>1 DEF SignedInfinity

LEMMA TimesTyped ==
    ASSUME NEW a \in Doubles, NEW b \in Doubles
    PROVE  Times(a, b) \in Doubles
<1>1. a \in Int /\ b \in Int /\ Scale \in Int \ {0} /\ NaN \in Doubles
  BY DoublesAre
<1>2. CASE IsFinite(a) /\ IsFinite(b)
  <2>1. a * b \in Int
    BY <1>1
  <2>2. Div(a * b, Scale) \in Int
    BY <1>1, <2>1, DivExists
  <2>. QED BY <1>2, <2>2, RoundTyped DEF Times
<1>3. CASE ~(IsFinite(a) /\ IsFinite(b))
  BY <1>1, <1>3, SignedTyped DEF Times
<1>. QED BY <1>2, <1>3

LEMMA OverTyped ==
    ASSUME NEW a \in Doubles, NEW b \in Doubles, ~NearZero(b)
    PROVE  /\ Over(a, b) \in Doubles
           /\ FMod(a, b) \in Doubles
<1>1. a \in Int /\ b \in Int /\ Scale \in Nat \ {0} /\ NaN \in Doubles /\ 0 \in Doubles
  BY DoublesAre
<1>2. b # 0
  <2>1. b = 0 => Abs(b) < Eps /\ b # NaN
    BY DoublesAre DEF Abs
  <2>. QED BY <2>1 DEF NearZero
<1>3. CASE IsFinite(a) /\ IsFinite(b)
  <2>1. a * Scale \in Int
    BY <1>1
  <2>2. Div(a * Scale, b) \in Int
    BY <1>1, <1>2, <2>1, DivExists
  <2>3. a \notin {Infinity, -Infinity} /\ b \notin {Infinity, -Infinity}
    BY <1>3, DoublesAre
  <2>4. Over(a, b) \in Doubles
    BY <1>3, <2>2, <2>3, RoundTyped DEF Over
  <2>5. Mod(a, b) \in Int /\ Abs(Mod(a, b)) < Abs(b)
    BY <1>1, <1>2, DivExists DEF Remainder
  <2>6. IsFinite(Mod(a, b))
    BY <1>1, <1>3, <2>5, DoublesAre DEF Abs
  <2>7. FMod(a, b) = Mod(a, b)
    BY <1>3, <2>3 DEF FMod
  <2>. QED BY <2>4, <2>5, <2>6, <2>7, DoublesAre
<1>4. CASE ~(IsFinite(a) /\ IsFinite(b))
  BY <1>1, <1>4, SignedTyped DEF Over, FMod
<1>. QED BY <1>3, <1>4

(* Which doubles almostEqual() takes for equal.                            *)
LEMMA AlmostEqualIs ==
    ASSUME NEW a \in Doubles, NEW b \in Doubles
    PROVE  AlmostEqual(a, b) <=> IsFinite(a) /\ IsFinite(b) /\ Abs(a - b) < Eps
<1>1. a \in Int /\ b \in Int /\ a - b \in Int
  BY DoublesAre
<1>2. CASE IsFinite(a) /\ IsFinite(b)
  <2>1. IsFinite(Opposite(b)) /\ Opposite(b) = -b
    BY <1>2, OppositeTyped, DoublesAre
  <2>2. Minus(a, b) = Round(a - b)
    BY <1>1, <1>2, <2>1 DEF Minus, Plus
  <2>3. CASE IsFinite(a - b)
    <3>1. Minus(a, b) = a - b
      BY <1>1, <2>2, <2>3, RoundTyped
    <3>. QED BY <1>1, <1>2, <2>3, <3>1, DoublesAre DEF AlmostEqual, NearZero
  <2>4. CASE ~IsFinite(a - b)
    <3>1. Minus(a, b) \in {Infinity, -Infinity}
      BY <1>1, <2>2, <2>4, RoundTyped
    <3>2. ~(Abs(a - b) < Eps)
      BY <1>1, <2>4, DoublesAre DEF Abs
    <3>3. ~(Abs(Minus(a, b)) < Eps)
      BY <3>1, DoublesAre DEF Abs
    <3>. QED BY <3>2, <3>3 DEF AlmostEqual, NearZero
  <2>. QED BY <2>3, <2>4
<1>3. CASE ~(IsFinite(a) /\ IsFinite(b))
  <2>1. Minus(a, b) \in {Infinity, -Infinity, NaN}
    <3>1. Opposite(b) \in Doubles /\ (IsFinite(b) <=> IsFinite(Opposite(b)))
      BY OppositeTyped
    <3>. QED BY <1>3, <3>1, DoublesAre DEF Minus, Plus
  <2>2. ~NearZero(Minus(a, b))
    BY <2>1, DoublesAre DEF NearZero, Abs
  <2>. QED BY <1>3, <2>2 DEF AlmostEqual
<1>. QED BY <1>2, <1>3

(* The five operations on doubles.                                         *)
LEMMA DoubleArithmeticIs ==
    ASSUME NEW op \in ArithmeticOps, NEW l \in Doubles, NEW r \in Doubles
    PROVE  DoubleArithmetic(op, l, r) \in DoubleValues \cup {Fatal}
<1>1. op \in {"ADD", "SUB", "MUL", "DIV", "MOD"}
  BY DEF ArithmeticOps
<1>2. \A d \in Doubles : DoubleValue(d) \in DoubleValues
  BY DEF DoubleValue, DoubleValues
<1>3. CASE op = "ADD"
  BY <1>2, <1>3, PlusTyped DEF DoubleArithmetic
<1>4. CASE op = "SUB"
  BY <1>2, <1>4, PlusTyped, OppositeTyped DEF DoubleArithmetic, Minus
<1>5. CASE op = "MUL"
  BY <1>2, <1>5, TimesTyped DEF DoubleArithmetic
<1>6. CASE op = "DIV"
  BY <1>2, <1>6, OverTyped DEF DoubleArithmetic
<1>7. CASE op = "MOD"
  BY <1>2, <1>7, OverTyped DEF DoubleArithmetic
<1>. QED BY <1>1, <1>3, <1>4, <1>5, <1>6, <1>7

BinaryOps == ArithmeticOps \cup RelationalOps \cup LogicalOps

Outcomes == Values \cup {Error, Fatal, Trap} \cup [type : {"string"}, val : Nat]

(* ArithmeticExpression::eval, ApplyUnary and every binary operator.       *)
LEMMA ApplyArithmeticIs ==
    ASSUME NEW op \in ArithmeticOps, NEW l \in Values, NEW r \in Values
    PROVE  ApplyArithmetic(op, l, r) \in Outcomes
<1>1. CASE IsInt(l) /\ IsInt(r)
  <2>1. l.val \in Int64 /\ r.val \in Int64
    BY <1>1, ValueCases DEF IsInt
  <2>2. IntArithmetic(op, l.val, r.val) \in IntValues \cup {Fatal, Trap}
    BY <2>1, IntArithmeticIs
  <2>3. l.type # "string"
    BY <1>1 DEF IsInt
  <2>4. ApplyArithmetic(op, l, r) = IntArithmetic(op, l.val, r.val)
    BY <1>1, <2>3 DEF ApplyArithmetic
  <2>. QED BY <2>2, <2>4 DEF Outcomes, Values
<1>2. CASE IsArithmetic(l) /\ IsArithmetic(r) /\ ~(IsInt(l) /\ IsInt(r))
  <2>1. DoubleArithmetic(op, AsDouble(l), AsDouble(r)) \in DoubleValues \cup {Fatal}
    BY <1>2, AsDoubleTyped, DoubleArithmeticIs
  <2>2. l.type # "string"
    BY <1>2 DEF IsArithmetic
  <2>3. ApplyArithmetic(op, l, r) = DoubleArithmetic(op, AsDouble(l), AsDouble(r))
    BY <1>2, <2>2 DEF ApplyArithmetic
  <2>. QED BY <2>1, <2>3 DEF Outcomes, Values
<1>3. CASE ~(IsArithmetic(l) /\ IsArithmetic(r))
  <2>1. ~(IsInt(l) /\ IsInt(r))
    BY <1>3 DEF IsInt, IsArithmetic
  <2>2. CASE op = "ADD" /\ l.type = "string" /\ r.type = "string"
    <3>1. l.val \in 0 .. MaxLen /\ r.val \in 0 .. MaxLen
      BY <2>2, ValueCases
    <3>2. l.val + r.val \in Nat
      BY <3>1, ExpressionsAssumption
    <3>3. ApplyArithmetic(op, l, r) = [type |-> "string", val |-> l.val + r.val]
      BY <1>3, <2>1, <2>2 DEF ApplyArithmetic
    <3>. QED BY <3>2, <3>3 DEF Outcomes
  <2>3. CASE ~(op = "ADD" /\ l.type = "string" /\ r.type = "string")
    <3>1. ApplyArithmetic(op, l, r) = Error
      BY <1>3, <2>1, <2>3 DEF ApplyArithmetic
    <3>. QED BY <3>1 DEF Outcomes
  <2>. QED BY <2>2, <2>3
<1>. QED BY <1>1, <1>2, <1>3

LEMMA ApplyUnaryIs ==
    ASSUME NEW op \in UnaryOps, NEW x \in Values
    PROVE  ApplyUnary(op, x) \in Values \cup {Error}
<1>1. op \in {"PLUS", "NEGATE", "NOT"}
  BY DEF UnaryOps
<1>2. x.val \in Int /\ -x.val \in Int
  BY ValueCases
<1>3. CASE op = "PLUS"
  BY <1>3 DEF ApplyUnary
<1>4. CASE op = "NEGATE" /\ IsInt(x)
  <2>1. IntValue(Wrap(-x.val)) \in IntValues
    BY <1>2, WrapTyped DEF IntValue, IntValues
  <2>2. x.type # "double"
    BY <1>4 DEF IsInt
  <2>. QED BY <1>4, <2>1, <2>2 DEF ApplyUnary, Values
<1>5. CASE op = "NEGATE" /\ x.type = "double"
  <2>1. DoubleValue(Opposite(x.val)) \in DoubleValues /\ ~IsInt(x)
    BY <1>5, ValueCases, OppositeTyped DEF IsInt, DoubleValue, DoubleValues
  <2>. QED BY <1>5, <2>1 DEF ApplyUnary, Values
<1>6. CASE op = "NEGATE" /\ ~IsInt(x) /\ x.type # "double"
  BY <1>6 DEF ApplyUnary
<1>7. CASE op = "NOT"
  <2>1. BoolValue(~AsBool(x)) \in BoolValues
    BY BoolTyped
  <2>. QED BY <1>7, <2>1 DEF ApplyUnary, Values
<1>. QED BY <1>1, <1>3, <1>4, <1>5, <1>6, <1>7

LEMMA ApplyIs ==
    ASSUME NEW op \in BinaryOps, NEW l \in Values, NEW r \in Values
    PROVE  /\ Apply(op, l, r) \in Outcomes
           /\ op \notin ArithmeticOps => Apply(op, l, r) \in BoolValues
           /\ op \in ArithmeticOps => Apply(op, l, r) = ApplyArithmetic(op, l, r)
<1>1. CASE op \in ArithmeticOps
  <2>1. Apply(op, l, r) = ApplyArithmetic(op, l, r)
    BY <1>1 DEF Apply, ArithmeticOps, RelationalOps, LogicalOps
  <2>. QED BY <1>1, <2>1, ApplyArithmeticIs
<1>2. CASE op \in RelationalOps
  <2>1. op \notin ArithmeticOps
    BY <1>2 DEF ArithmeticOps, RelationalOps
  <2>2. Apply(op, l, r) = BoolValue(Compare(op, l, r))
    BY <1>2, <2>1 DEF Apply, RelationalOps, LogicalOps
  <2>3. Apply(op, l, r) \in BoolValues
    BY <2>2, BoolTyped
  <2>. QED BY <2>1, <2>3 DEF Outcomes, Values
<1>3. CASE op \in LogicalOps
  <2>1. op \notin ArithmeticOps /\ op \notin RelationalOps
    BY <1>3 DEF ArithmeticOps, RelationalOps, LogicalOps
  <2>2. Apply(op, l, r) = BoolValue(Connect(op, l, r))
    BY <1>3, <2>1 DEF Apply
  <2>3. Apply(op, l, r) \in BoolValues
    BY <2>2, BoolTyped
  <2>. QED BY <2>1, <2>3 DEF Outcomes, Values
<1>. QED BY <1>1, <1>2, <1>3 DEF BinaryOps

-----------------------------------------------------------------------------

(* The code leaves a wrong integer in two cases and in no others, whatever *)
(* the operator, the operands and the width of an integer: the smallest    *)
(* integer subtracted from one that is not negative, which isSubOverflow   *)
(* does not see, and the opposite of the smallest, which nothing checks.   *)
(* In both what is left is wrong for every such operand.                   *)
THEOREM SilentWraps ==
    /\ \A op \in ArithmeticOps, l, r \in Int64 :
         IntArithmetic(op, l, r) \notin {Fatal, Trap, IntValue(Exact(op, l, r))}
           <=> op = "SUB" /\ l >= 0 /\ r = MinInt
    /\ \A n \in Int64 : ApplyUnary("NEGATE", IntValue(n)) # IntValue(-n) <=> n = MinInt
<1>1. /\ MaxInt \in Nat \ {0} /\ MinInt \in Int /\ MinInt = -MaxInt - 1
      /\ \A n \in Int64 : n \in Int /\ MinInt <= n /\ n <= MaxInt
      /\ MinInt \in Int64
  BY ExpressionsAssumption DEF Int64, MinInt
<1>2. ASSUME NEW op \in ArithmeticOps, NEW l \in Int64, NEW r \in Int64,
             ~(op = "SUB" /\ l >= 0 /\ r = MinInt)
      PROVE  IntArithmetic(op, l, r) \in {Fatal, Trap, IntValue(Exact(op, l, r))}
  BY <1>2, IntArithmeticIs DEF Stops
<1>3. Wrap(-MinInt) = MinInt
  <2>. DEFINE width == 2 * MaxInt + 2
  <2>1. width \in Nat \ {0} /\ -MinInt - MinInt = width * 1 + 0 /\ -MinInt - MinInt \in Int
    BY <1>1
  <2>. HIDE DEF width
  <2>2. (-MinInt - MinInt) % width = 0
    BY <2>1, DivisionIs
  <2>. QED BY <1>1, <2>2 DEF Wrap, width
<1>4. ASSUME NEW l \in Int64, l >= 0
      PROVE  IntArithmetic("SUB", l, MinInt) \notin {Fatal, Trap, IntValue(Exact("SUB", l, MinInt))}
  <2>1. ~SubOverflow(l, MinInt)
    BY <1>1, <1>3, <1>4 DEF SubOverflow
  <2>2. PICK n \in Int64 : n = Wrap(l - MinInt)
    <3>1. l - MinInt \in Int
      BY <1>1
    <3>. QED BY <3>1, WrapTyped
  <2>3. IntArithmetic("SUB", l, MinInt) = IntValue(n)
    BY <2>1, <2>2 DEF IntArithmetic
  <2>4. Exact("SUB", l, MinInt) = l - MinInt
    BY DEF Exact
  <2>5. n # l - MinInt
    BY <1>1, <1>4
  <2>. QED BY <2>3, <2>4, <2>5 DEF IntValue, Fatal, Trap
<1>5. ASSUME NEW n \in Int64
      PROVE  ApplyUnary("NEGATE", IntValue(n)) # IntValue(-n) <=> n = MinInt
  <2>1. ApplyUnary("NEGATE", IntValue(n)) = IntValue(Wrap(-n))
    BY DEF ApplyUnary, IntValue, IsInt
  <2>2. n # MinInt => Wrap(-n) = -n
    <3>1. n # MinInt => -n \in Int64
      BY <1>1 DEF Int64
    <3>. QED BY <3>1, WrapExact
  <2>3. MinInt # -MinInt
    BY <1>1
  <2>. QED BY <1>3, <2>1, <2>2, <2>3 DEF IntValue
<1>6. "SUB" \in ArithmeticOps
  BY DEF ArithmeticOps
<1>. QED BY <1>1, <1>2, <1>4, <1>5, <1>6

(* A step of an operator keeps the types, whatever it gives.               *)
LEMMA PushTyped ==
    ASSUME TypeOK, proc = "runs", NEW n \in 0 .. Len(stack), NEW result,
           Push(SubSeq(stack, 1, n), result)
    PROVE  TypeOK'
<1>1. SubSeq(stack, 1, n) \in Seq(Values)
  BY SubSeqProperties DEF TypeOK
<1>2. CASE result \in Values /\ stack' = Append(SubSeq(stack, 1, n), result)
           /\ UNCHANGED <<ctx, rc, proc>>
  <2>1. stack' \in Seq(Values)
    BY <1>1, <1>2, AppendProperties
  <2>. QED BY <1>2, <2>1 DEF TypeOK
<1>3. CASE Fail
  BY <1>3 DEF Fail, TypeOK
<1>4. CASE result \in {Fatal, Trap} /\ proc' = result.type /\ UNCHANGED <<ctx, stack, rc>>
  BY <1>4 DEF Fatal, Trap, TypeOK
<1>. QED BY <1>2, <1>3, <1>4 DEF Push

LEMMA InitTyped == Init => TypeOK
  BY DEF Init, TypeOK

LEMMA NextTyped == TypeOK /\ [Next]_vars => TypeOK'
<1>1. SUFFICES ASSUME TypeOK, [Next]_vars PROVE TypeOK'
  OBVIOUS
<1>2. ASSUME Constant PROVE TypeOK'
  <2>1. PICK x \in Literals : stack' = Append(stack, x)
    BY <1>2 DEF Constant
  <2>2. stack' \in Seq(Values)
    BY <1>1, <2>1, AppendProperties DEF Literals, TypeOK
  <2>. QED BY <1>1, <1>2, <2>2 DEF Constant, TypeOK
<1>3. ASSUME Condition PROVE TypeOK'
  BY <1>1, <1>3 DEF Condition, TypeOK
<1>4. ASSUME Ended \/ UNCHANGED vars PROVE TypeOK'
  BY <1>1, <1>4 DEF Ended, vars, TypeOK
<1>5. ASSUME NEW x \in Vars, Variable(x) PROVE TypeOK'
  <2>1. CASE ctx[x] = Null /\ Fail
    BY <1>1, <2>1 DEF Fail, TypeOK
  <2>2. CASE ctx[x] # Null /\ stack' = Append(stack, ctx[x]) /\ UNCHANGED <<ctx, rc, proc>>
    <3>1. ctx[x] \in Values
      BY <1>1, <2>2 DEF TypeOK
    <3>2. stack' \in Seq(Values)
      BY <1>1, <2>2, <3>1, AppendProperties DEF TypeOK
    <3>. QED BY <1>1, <2>2, <3>2 DEF TypeOK
  <2>. QED BY <1>5, <2>1, <2>2 DEF Variable
<1>6. ASSUME NEW x \in Vars, Assign(x) PROVE TypeOK'
  <2>1. stack[1] \in Values
    BY <1>1, <1>6, ElementOfSeq DEF Assign, TypeOK
  <2>. QED BY <1>1, <1>6, <2>1 DEF Assign, TypeOK
<1>7. ASSUME NEW x \in Vars, ResultVar(x) PROVE TypeOK'
  BY <1>1, <1>7 DEF ResultVar, TypeOK, Values
<1>8. ASSUME NEW op \in UnaryOps, Unary(op) PROVE TypeOK'
  <2>1. Len(stack) - 1 \in 0 .. Len(stack)
    BY <1>1, <1>8, LenProperties DEF Unary, TypeOK
  <2>. QED BY <1>1, <1>8, <2>1, PushTyped DEF Unary
<1>9. ASSUME NEW op \in BinaryOps, Binary(op) PROVE TypeOK'
  <2>1. Len(stack) - 2 \in 0 .. Len(stack)
    BY <1>1, <1>9, LenProperties DEF Binary, TypeOK
  <2>. QED BY <1>1, <1>9, <2>1, PushTyped DEF Binary
<1>. QED BY <1>1, <1>2, <1>3, <1>4, <1>5, <1>6, <1>7, <1>8, <1>9 DEF Next, BinaryOps

(* Every variable of the context and every operand is a value of its type. *)
THEOREM TypeCorrect == Spec => []TypeOK
  BY InitTyped, NextTyped, PTL DEF Spec

-----------------------------------------------------------------------------

(* The two operands an operator takes from the stack.                      *)
LEMMA Operands ==
    ASSUME TypeOK, Len(stack) > 1
    PROVE  stack[Len(stack) - 1] \in Values /\ stack[Len(stack)] \in Values
<1>1. Len(stack) \in Nat /\ Len(stack) - 1 \in 1 .. Len(stack) /\ Len(stack) \in 1 .. Len(stack)
  BY LenProperties DEF TypeOK
<1>. QED BY <1>1, ElementOfSeq DEF TypeOK

(* What an operator has pushed is on top.                                  *)
LEMMA OnTop ==
    ASSUME TypeOK, Len(stack) > 1, NEW result \in Values,
           stack' = Append(SubSeq(stack, 1, Len(stack) - 2), result)
    PROVE  stack'[Len(stack')] = result
<1>1. Len(stack) - 2 \in 0 .. Len(stack)
  BY LenProperties DEF TypeOK
<1>2. PICK rest \in Seq(Values) : rest = SubSeq(stack, 1, Len(stack) - 2)
  <2>1. PICK n \in 0 .. Len(stack) : n = Len(stack) - 2
    BY <1>1
  <2>2. SubSeq(stack, 1, n) \in Seq(Values)
    BY SubSeqProperties DEF TypeOK
  <2>. QED BY <2>1, <2>2
<1>3. stack' = Append(rest, result)
  BY <1>2
<1>. QED BY <1>3, AppendProperties

(* boost::variant's order, written out.                                    *)
LEMMA Comparing ==
    ASSUME NEW l \in Values, NEW r \in Values
    PROVE  /\ Less(l, r) <=> \/ Which(l) = Which(r) /\ ~Unordered(l, r) /\ l.val < r.val
                             \/ Which(l) # Which(r) /\ Which(l) < Which(r)
           /\ Which(l) \in 0 .. 3
           /\ Which(l) = Which(r) <=> l.type = r.type
           /\ Equal(l, r) \in BOOLEAN
           /\ Less(l, r) \in BOOLEAN
<1>1. l.type \in {"int", "double", "bool", "string"} /\ r.type \in {"int", "double", "bool", "string"}
  BY ValueCases
<1>2. \A x \in Values : /\ x.type = "int" => Which(x) = 0
                        /\ x.type = "double" => Which(x) = 1
                        /\ x.type = "bool" => Which(x) = 2
                        /\ x.type = "string" => Which(x) = 3
  BY DEF Which
<1>3. Which(l) \in 0 .. 3 /\ (Which(l) = Which(r) <=> l.type = r.type)
  BY <1>1, <1>2
<1>4. Equal(l, r) \in BOOLEAN
  <2>1. CASE IsArithmetic(l) /\ IsArithmetic(r) /\ ~(IsInt(l) /\ IsInt(r))
    <3>1. Equal(l, r) = AlmostEqual(AsDouble(l), AsDouble(r))
      BY <2>1 DEF Equal
    <3>. QED BY <3>1 DEF AlmostEqual, NearZero
  <2>2. CASE ~(IsArithmetic(l) /\ IsArithmetic(r) /\ ~(IsInt(l) /\ IsInt(r)))
    <3>1. Equal(l, r) = (l = r)
      BY <2>2 DEF Equal
    <3>. QED BY <3>1
  <2>. QED BY <2>1, <2>2
<1>5. Less(l, r) \in BOOLEAN
  <2>1. CASE Which(l) = Which(r)
    <3>1. Less(l, r) = (~Unordered(l, r) /\ l.val < r.val)
      BY <2>1 DEF Less
    <3>. QED BY <3>1
  <2>2. CASE Which(l) # Which(r)
    <3>1. Less(l, r) = (Which(l) < Which(r))
      BY <2>2 DEF Less
    <3>. QED BY <3>1
  <2>. QED BY <2>1, <2>2
<1>. QED BY <1>3, <1>4, <1>5 DEF Less

(* == is symmetric, and reflexive but for what is incomparable with        *)
(* itself; two values that differ are equal only when both are finite      *)
(* numbers within Eps, and doubles when they have one type.                *)
LEMMA EqualIs ==
    ASSUME NEW l \in Values, NEW r \in Values
    PROVE  /\ Equal(l, r) <=> Equal(r, l)
           /\ l = r /\ ~Incomparable(l, r) => Equal(l, r)
           /\ Incomparable(l, r) => ~Equal(l, r)
           /\ Equal(l, r) /\ l # r =>
                /\ IsArithmetic(l) /\ IsArithmetic(r)
                /\ l.type = r.type => l.type = "double"
                /\ IsFinite(AsDouble(l)) /\ IsFinite(AsDouble(r))
                /\ Abs(AsDouble(l) - AsDouble(r)) < Eps
<1>. DEFINE mixed == IsArithmetic(l) /\ IsArithmetic(r) /\ ~(IsInt(l) /\ IsInt(r))
<1>1. CASE mixed
  <2>1. PICK a \in Doubles : a = AsDouble(l)
    BY <1>1, AsDoubleTyped
  <2>2. PICK b \in Doubles : b = AsDouble(r)
    BY <1>1, AsDoubleTyped
  <2>3. Equal(l, r) <=> IsFinite(a) /\ IsFinite(b) /\ Abs(a - b) < Eps
    BY <1>1, <2>1, <2>2, AlmostEqualIs DEF Equal
  <2>4. Equal(r, l) <=> IsFinite(b) /\ IsFinite(a) /\ Abs(b - a) < Eps
    BY <1>1, <2>1, <2>2, AlmostEqualIs DEF Equal
  <2>5. a \in Int /\ b \in Int /\ Eps \in Nat \ {0}
    BY DoublesAre
  <2>6. Abs(a - b) = Abs(b - a)
    BY <2>5 DEF Abs
  <2>7. l = r => Abs(a - b) < Eps
    BY <2>1, <2>2, <2>5 DEF Abs
  <2>8. l.type = r.type => l.type = "double"
    BY <1>1 DEF IsArithmetic, IsInt
  <2>9. (l.type = "double" => a = l.val) /\ (r.type = "double" => b = r.val)
    BY <1>1, <2>1, <2>2, AsDoubleTyped
  <2>10. Incomparable(l, r) => ~(IsFinite(a) /\ IsFinite(b))
    BY <2>9, DoublesAre DEF Incomparable
  <2>11. l = r /\ ~Incomparable(l, r) => IsFinite(a) /\ IsFinite(b)
    BY <2>1, <2>2, <2>8, <2>9 DEF Incomparable
  <2>. QED BY <1>1, <2>1, <2>2, <2>3, <2>4, <2>6, <2>7, <2>8, <2>10, <2>11
<1>2. CASE ~mixed
  <2>1. Equal(l, r) <=> l = r
    BY <1>2 DEF Equal
  <2>2. Equal(r, l) <=> r = l
    BY <1>2 DEF Equal
  <2>3. ~Incomparable(l, r)
    BY <1>2 DEF Incomparable, IsArithmetic, IsInt
  <2>. QED BY <2>1, <2>2, <2>3
<1>. QED BY <1>1, <1>2

LEMMA Consistent == TypeOK => ComparisonsConsistent
<1>1. SUFFICES ASSUME TypeOK, Len(stack) > 1 PROVE ComparisonsConsistent
  BY DEF ComparisonsConsistent
<1>2. PICK l \in Values : l = stack[Len(stack) - 1]
  BY <1>1, Operands
<1>3. PICK r \in Values : r = stack[Len(stack)]
  BY <1>1, Operands
<1>. DEFINE before == Compare("LT", l, r)
            after == Compare("GT", l, r)
            same == Compare("EQ", l, r)
<1>4. /\ before = Less(l, r) /\ after = Less(r, l) /\ same = Equal(l, r)
      /\ Compare("EQ", r, l) = Equal(r, l)
      /\ Compare("NE", l, r) = ~Equal(l, r)
      /\ Compare("LE", l, r) = ~Less(r, l)
  BY DEF Compare
<1>5. l.val \in Int /\ r.val \in Int
  BY ValueCases
<1>6. /\ Less(l, r) <=> \/ Which(l) = Which(r) /\ ~Unordered(l, r) /\ l.val < r.val
                        \/ Which(l) # Which(r) /\ Which(l) < Which(r)
      /\ Less(r, l) <=> \/ Which(l) = Which(r) /\ ~Unordered(r, l) /\ r.val < l.val
                        \/ Which(l) # Which(r) /\ Which(r) < Which(l)
      /\ Which(l) \in 0 .. 3 /\ Which(r) \in 0 .. 3
      /\ Which(l) = Which(r) <=> l.type = r.type
  BY Comparing
<1>7. l.type = r.type /\ l.val = r.val <=> l = r
  BY ValueCases
<1>8. /\ Unordered(l, r) <=> Unordered(r, l)
      /\ Unordered(l, r) => l.type = r.type
      /\ Unordered(l, r) => Incomparable(l, r)
      /\ Incomparable(l, r) => Unordered(l, r) \/ l = r
  BY DEF Unordered, Incomparable
<1>9. /\ ~(Less(l, r) /\ Less(r, l))
      /\ ~Less(l, r) /\ ~Less(r, l) <=> l = r \/ Unordered(l, r)
  BY <1>5, <1>6, <1>7, <1>8
<1>10. /\ Equal(l, r) \in BOOLEAN /\ Equal(r, l) \in BOOLEAN
       /\ Less(l, r) \in BOOLEAN /\ Less(r, l) \in BOOLEAN
  BY Comparing
<1>11. Incomparable(l, r) \in BOOLEAN /\ Unordered(l, r) \in BOOLEAN
  BY DEF Incomparable, Unordered
<1>12. /\ ~(before /\ after)
       /\ same = Compare("EQ", r, l)
       /\ same = ~Compare("NE", l, r)
  BY <1>4, <1>9, <1>10, EqualIs
<1>13. (before \/ after \/ same) = ~Incomparable(l, r)
  BY <1>4, <1>8, <1>9, <1>10, <1>11, EqualIs
<1>14. Compare("LE", l, r) = (before \/ l = r \/ Unordered(l, r))
  BY <1>4, <1>9, <1>10, <1>11
<1>15. same /\ (before \/ after) =>
         /\ IsArithmetic(l) /\ IsArithmetic(r)
         /\ l.type = r.type => l.type = "double"
         /\ IsFinite(AsDouble(l)) /\ IsFinite(AsDouble(r))
         /\ Abs(AsDouble(l) - AsDouble(r)) < Eps
  BY <1>4, <1>9, EqualIs
<1>. HIDE DEF before, after, same
<1>. QED BY <1>2, <1>3, <1>12, <1>13, <1>14, <1>15 DEF ComparisonsConsistent, before, after, same

(* ==, != and the comparisons of RelationalExpression::eval agree as far   *)
(* as they do, for values of all four types, the infinities and NaN        *)
(* included: no two values are each less than the other, == does not       *)
(* depend on the order of its sides, values that are less and equal at     *)
(* once are finite numbers within Eps, and none of <, > and == holds       *)
(* exactly when both are doubles and one is NaN or both the same infinity. *)
THEOREM ComparisonsAgree == Spec => []ComparisonsConsistent
  BY TypeCorrect, Consistent, PTL

(* The operands that IntegersOnTop speaks of.                              *)
LEMMA IntegerOperands ==
    ASSUME TypeOK, IntegersOnTop
    PROVE  /\ Len(stack) > 1
           /\ stack[Len(stack) - 1] \in Values /\ stack[Len(stack)] \in Values
           /\ stack[Len(stack) - 1].val \in Int64 /\ stack[Len(stack)].val \in Int64
           /\ IsInt(stack[Len(stack) - 1]) /\ IsInt(stack[Len(stack)])
<1>1. Len(stack) > 1 /\ IsInt(stack[Len(stack) - 1]) /\ IsInt(stack[Len(stack)])
  BY DEF IntegersOnTop
<1>2. stack[Len(stack) - 1] \in Values /\ stack[Len(stack)] \in Values
  BY <1>1, Operands
<1>. QED BY <1>1, <1>2, ValueCases DEF IsInt

(* On integers, Apply is the arithmetic of the machine.                    *)
LEMMA OnIntegers ==
    ASSUME NEW op \in ArithmeticOps, NEW x \in Values, NEW y \in Values, IsInt(x), IsInt(y)
    PROVE  Apply(op, x, y) = IntArithmetic(op, x.val, y.val)
<1>1. Apply(op, x, y) = ApplyArithmetic(op, x, y)
  BY ApplyIs DEF BinaryOps
<1>2. x.type # "string"
  BY DEF IsInt
<1>. QED BY <1>1, <1>2 DEF ApplyArithmetic

(* A step of an operation on integers that does not end the process ...    *)
LEMMA StepExact ==
    ASSUME TypeOK, IntegersOnTop,
           NEW l, l = stack[Len(stack) - 1].val, NEW r, r = stack[Len(stack)].val,
           NEW op \in ArithmeticOps, Binary(op), proc' = "runs",
           ~(op = "SUB" /\ l >= 0 /\ r = MinInt)
    PROVE  stack'[Len(stack')] = IntValue(Exact(op, l, r))
<1>1. PICK x \in Values, y \in Values :
         /\ x = stack[Len(stack) - 1] /\ y = stack[Len(stack)]
         /\ l = x.val /\ r = y.val
         /\ l \in Int64 /\ r \in Int64
         /\ IsInt(x) /\ IsInt(y)
  BY IntegerOperands
<1>2. Len(stack) > 1
  BY IntegerOperands
<1>3. PICK result : result = IntArithmetic(op, l, r)
  OBVIOUS
<1>4. Push(SubSeq(stack, 1, Len(stack) - 2), result)
  BY <1>1, <1>3, OnIntegers DEF Binary
<1>5. /\ result \in IntValues \cup {Fatal, Trap}
      /\ ~Stops(result) => result = IntValue(Exact(op, l, r))
  BY <1>1, <1>3, IntArithmeticIs
<1>6. result # Error
  BY <1>5 DEF IntValues, Fatal, Trap, Error
<1>7. result \notin {Fatal, Trap}
  <2>1. ASSUME result \in {Fatal, Trap} PROVE FALSE
    <3>1. result \notin Values
      BY <2>1 DEF Fatal, Trap, Values, IntValues, DoubleValues, BoolValues, StringValues
    <3>2. proc' = result.type
      BY <1>4, <1>6, <3>1 DEF Push
    <3>. QED BY <2>1, <3>2 DEF Fatal, Trap
  <2>. QED BY <2>1
<1>8. result \in Values /\ stack' = Append(SubSeq(stack, 1, Len(stack) - 2), result)
  BY <1>4, <1>6, <1>7 DEF Push
<1>9. stack'[Len(stack')] = result
  BY <1>2, <1>8, OnTop
<1>. QED BY <1>5, <1>7, <1>9 DEF Stops

(* The overflow checks of ArithmeticExpression::eval let nothing but the   *)
(* exact result through, for every width of an integer: what an operation  *)
(* on two integers leaves is their exact sum, difference, product,         *)
(* quotient or remainder, but for the smallest integer subtracted from     *)
(* one that is not negative.                                               *)
THEOREM ResultsAreExact == Spec => IntegersExact
<1>1. ASSUME TypeOK, IntegersOnTop
      PROVE  LET l == stack[Len(stack) - 1].val
                 r == stack[Len(stack)].val
             IN \A op \in ArithmeticOps :
                  Binary(op) /\ proc' = "runs" /\ ~(op = "SUB" /\ l >= 0 /\ r = MinInt)
                    => stack'[Len(stack')] = IntValue(Exact(op, l, r))
  BY <1>1, StepExact
<1>2. TypeOK => (IntegersOnTop =>
        LET l == stack[Len(stack) - 1].val
            r == stack[Len(stack)].val
        IN \A op \in ArithmeticOps :
             /\ Binary(op)
             /\ proc' = "runs"
             /\ ~(op = "SUB" /\ l >= 0 /\ r = MinInt)
             => stack'[Len(stack')] = IntValue(Exact(op, l, r)))
  BY <1>1
<1>. QED BY <1>2, TypeCorrect, PTL DEF IntegersExact

(* ... and one that does.                                                  *)
LEMMA StepEnds ==
    ASSUME TypeOK, [Next]_vars, proc = "runs", proc' # "runs", IntegersOnTop,
           NEW l, l = stack[Len(stack) - 1].val, NEW r, r = stack[Len(stack)].val
    PROVE  /\ \E op \in ArithmeticOps : Binary(op)
           /\ \A op \in ArithmeticOps :
                Binary(op) =>
                    \/ op \in {"DIV", "MOD"} /\ r = 0
                    \/ op = "MUL" /\ l = -1 /\ r > 0
                    \/ op = "MOD" /\ Traps(l, r)
                    \/ Exact(op, l, r) \notin Int64
<1>1. PICK x \in Values, y \in Values :
         /\ x = stack[Len(stack) - 1] /\ y = stack[Len(stack)]
         /\ l = x.val /\ r = y.val
         /\ l \in Int64 /\ r \in Int64
         /\ IsInt(x) /\ IsInt(y)
  BY IntegerOperands
<1>2. ASSUME NEW rest, NEW result, Push(rest, result) PROVE result \in {Fatal, Trap}
  BY <1>2 DEF Push, Fail
<1>3. \A v \in Values \cup {Error} : v \notin {Fatal, Trap}
  BY DEF Error, Fatal, Trap, Values, IntValues, DoubleValues, BoolValues, StringValues
<1>4. ~(\E op \in UnaryOps : Unary(op))
  <2>1. ASSUME NEW op \in UnaryOps, Unary(op) PROVE FALSE
    <3>1. ApplyUnary(op, stack[Len(stack)]) \in {Fatal, Trap}
      BY <1>2, <2>1 DEF Unary
    <3>. QED BY <1>1, <1>3, <3>1, ApplyUnaryIs
  <2>. QED BY <2>1
<1>5. \E op \in BinaryOps : Binary(op)
  BY <1>4 DEF Next, vars, Constant, Condition, Ended, Variable, Assign, ResultVar, Fail, BinaryOps
<1>6. ASSUME NEW op \in BinaryOps, Binary(op)
      PROVE  op \in ArithmeticOps /\ Stops(IntArithmetic(op, l, r))
  <2>1. Apply(op, x, y) \in {Fatal, Trap}
    BY <1>1, <1>2, <1>6 DEF Binary
  <2>2. op \in ArithmeticOps
    BY <1>3, <2>1, ApplyIs DEF Values
  <2>. QED BY <1>1, <2>1, <2>2, OnIntegers DEF Stops
<1>7. ASSUME NEW op \in ArithmeticOps, Binary(op)
      PROVE  \/ op \in {"DIV", "MOD"} /\ r = 0
             \/ op = "MUL" /\ l = -1 /\ r > 0
             \/ op = "MOD" /\ Traps(l, r)
             \/ Exact(op, l, r) \notin Int64
  <2>1. Stops(IntArithmetic(op, l, r))
    BY <1>6, <1>7 DEF BinaryOps
  <2>. QED BY <1>1, <2>1, IntArithmeticIs
<1>. QED BY <1>5, <1>6, <1>7

(* The process is not ended for nothing: a LOG(FATAL) or a trap of an      *)
(* operation on integers, whichever it was, means a divisor that is zero   *)
(* or an exact result that is no int64_t, but for the two cases named in   *)
(* EndsForAReason.                                                         *)
THEOREM EndsAreJustified == Spec => EndsForAReason
<1>1. ASSUME TypeOK, [Next]_vars, proc = "runs", proc' # "runs", IntegersOnTop
      PROVE  LET l == stack[Len(stack) - 1].val
                 r == stack[Len(stack)].val
             IN /\ \E op \in ArithmeticOps : Binary(op)
                /\ \A op \in ArithmeticOps :
                     Binary(op) =>
                         \/ op \in {"DIV", "MOD"} /\ r = 0
                         \/ op = "MUL" /\ l = -1 /\ r > 0
                         \/ op = "MOD" /\ Traps(l, r)
                         \/ Exact(op, l, r) \notin Int64
  BY <1>1, StepEnds
<1>2. TypeOK /\ [Next]_vars => (proc = "runs" /\ proc' # "runs" /\ IntegersOnTop =>
        LET l == stack[Len(stack) - 1].val
            r == stack[Len(stack)].val
        IN /\ \E op \in ArithmeticOps : Binary(op)
           /\ \A op \in ArithmeticOps :
                Binary(op) =>
                    \/ op \in {"DIV", "MOD"} /\ r = 0
                    \/ op = "MUL" /\ l = -1 /\ r > 0
                    \/ op = "MOD" /\ Traps(l, r)
                    \/ Exact(op, l, r) \notin Int64)
  BY <1>1
<1>. QED BY <1>2, TypeCorrect, PTL DEF EndsForAReason, Spec
=============================================================================
