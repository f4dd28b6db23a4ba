--------------------------- MODULE NetworkProofs ----------------------------
(***************************************************************************)
(* The checks of addresses, for every width of an address: what they say   *)
(* through masks and successors is what is meant of sets of addresses.     *)
(***************************************************************************)
EXTENDS NetworkCheck, FiniteSetTheorems, WellFoundedInduction, TLAPS

-----------------------------------------------------------------------------
(* Powers of two. *)

Below == {ss \in Nat \X Nat : ss[1] < ss[2]}

LEMMA Least ==
  ASSUME NEW S \in SUBSET Nat, S # {}
  PROVE  \E x \in S : \A y \in S : x <= y
<1>1. IsWellFoundedOn(Below, Nat)
  BY NatLessThanWellFounded, Zenon DEF OpToRel, Below
<1>2. PICK x \in S : \A y \in S : <<y, x>> \notin Below
  BY <1>1, WFMin, Zenon
<1>3. \A y \in S : y \in Nat /\ x \in Nat /\ ~(y < x)
  BY <1>2, Zenon DEF Below
<1> QED
  BY <1>3

\* A set of n numbers has 2^n subsets.
LEMMA PowerIsNat ==
  ASSUME NEW n \in Nat
  PROVE  2^n \in Nat /\ Cardinality(SUBSET (1 .. n)) = 2^n /\ IsFiniteSet(SUBSET (1 .. n))
<1>1. IsFiniteSet(1 .. n) /\ Cardinality(1 .. n) = n
  BY FS_Interval
<1>2. Cardinality(SUBSET (1 .. n)) = 2^n /\ IsFiniteSet(SUBSET (1 .. n))
  BY <1>1, FS_SUBSET
<1> QED
  BY <1>2, FS_CardinalityType

\* Half of the subsets of n + 1 numbers have the last one.
LEMMA PowerDoubles ==
  ASSUME NEW n \in Nat
  PROVE  2^(n + 1) = 2 * 2^n
<1> DEFINE S == SUBSET (1 .. n)
           T == {x \cup {n + 1} : x \in S}
           f == [x \in S |-> x \cup {n + 1}]
<1>1. IsFiniteSet(S) /\ Cardinality(S) = 2^n /\ 2^n \in Nat
  BY PowerIsNat
<1>2. Cardinality(SUBSET (1 .. n + 1)) = 2^(n + 1)
  BY PowerIsNat
<1>3. f \in Bijection(S, T)
  <2>1. f \in [S -> T] /\ \A y \in T : \E x \in S : f[x] = y
    OBVIOUS
  <2>2. ASSUME NEW x \in S, NEW y \in S, f[x] = f[y]
        PROVE  x = y
    <3>1. n + 1 \notin x /\ n + 1 \notin y
      OBVIOUS
    <3> QED
      BY <2>2, <3>1
  <2> QED
    BY <2>1, <2>2 DEF Bijection, Injection, Surjection, IsInjective
<1>4. IsFiniteSet(T) /\ Cardinality(T) = Cardinality(S)
  BY <1>1, <1>3, FS_Bijection DEF ExistsBijection
<1>5. S \cap T = {}
  OBVIOUS
<1>6. SUBSET (1 .. n + 1) = S \cup T
  <2>1. ASSUME NEW x \in SUBSET (1 .. n + 1)
        PROVE  x \in S \cup T
    <3>1. CASE n + 1 \in x
      <4>1. x \ {n + 1} \in S /\ x = (x \ {n + 1}) \cup {n + 1}
        BY <3>1
      <4> QED
        BY <4>1
    <3>2. CASE n + 1 \notin x
      BY <3>2
    <3> QED
      BY <3>1, <3>2
  <2>2. ASSUME NEW x \in S \cup T
        PROVE  x \in SUBSET (1 .. n + 1)
    OBVIOUS
  <2> QED
    BY <2>1, <2>2
<1>7. Cardinality(S \cup T) = Cardinality(S) + Cardinality(T) - Cardinality(S \cap T)
  BY <1>1, <1>4, FS_Union
<1>8. Cardinality(S \cap T) = 0
  BY <1>5, FS_EmptySet
<1>9. 2^(n + 1) = Cardinality(S \cup T)
  BY <1>2, <1>6, Zenon
<1> HIDE DEF S, T
<1> QED
  BY <1>1, <1>4, <1>7, <1>8, <1>9

LEMMA PowerIsPositive ==
  ASSUME NEW n \in Nat
  PROVE  2^n \in Nat /\ 2^n >= 1
<1> DEFINE S == {k \in Nat : ~(2^k >= 1)}
<1>1. SUFFICES S = {}
  BY <1>1, PowerIsNat
<1>2. SUFFICES ASSUME S # {}
               PROVE  FALSE
  OBVIOUS
<1>3. PICK k \in S : \A j \in S : k <= j
  BY <1>2, Least
<1>4. k # 0
  <2>1. 2^0 = 1
    OBVIOUS
  <2>2. k = 0 => 2^k = 1
    BY <2>1, Zenon
  <2> QED
    BY <2>2
<1>5. k - 1 \in Nat /\ k - 1 \notin S
  BY <1>3, <1>4
<1>6. 2^(k - 1) \in Nat /\ 2^(k - 1) >= 1
  BY <1>5, PowerIsNat
<1>7. 2^((k - 1) + 1) = 2 * 2^(k - 1)
  BY <1>5, PowerDoubles
<1>8. (k - 1) + 1 = k
  OBVIOUS
<1>9. 2^k = 2 * 2^(k - 1)
  BY <1>7, <1>8, Zenon
<1> QED
  BY <1>6, <1>9

\* The longer prefix holds a whole fraction of what the shorter one does.
LEMMA PowerDivides ==
  ASSUME NEW m \in Nat, NEW n \in Nat
  PROVE  \E t \in Nat : t >= 1 /\ 2^(m + n) = 2^m * t
<1> DEFINE Holds(k) == \E t \in Nat : t >= 1 /\ 2^(m + k) = 2^m * t
           S == {k \in Nat : ~Holds(k)}
<1>1. 2^m \in Nat
  BY PowerIsNat
<1>2. Holds(0)
  <2>1. m + 0 = m
    OBVIOUS
  <2>2. 2^(m + 0) = 2^m * 1
    BY <1>1, <2>1
  <2> QED
    BY <2>2
<1>3. ASSUME NEW k \in Nat, Holds(k)
      PROVE  Holds(k + 1)
  <2>1. PICK t \in Nat : t >= 1 /\ 2^(m + k) = 2^m * t
    BY <1>3
  <2>2. 2^((m + k) + 1) = 2 * 2^(m + k)
    BY PowerDoubles
  <2>3. (m + k) + 1 = m + (k + 1)
    OBVIOUS
  <2>4. 2^(m + (k + 1)) = 2 * (2^m * t)
    BY <2>1, <2>2, <2>3, Zenon
  <2>5. \A a \in Nat : 2 * (a * t) = a * (2 * t)
    OBVIOUS
  <2>6. 2^(m + (k + 1)) = 2^m * (2 * t)
    BY <1>1, <2>4, <2>5
  <2>7. 2 * t \in Nat /\ 2 * t >= 1
    BY <2>1
  <2> QED
    BY <2>6, <2>7
<1> HIDE DEF Holds
<1>4. S = {}
  <2>1. SUFFICES ASSUME S # {}
                 PROVE  FALSE
    OBVIOUS
  <2>2. PICK k \in S : \A j \in S : k <= j
    BY <2>1, Least
  <2>3. k # 0
    BY <1>2
  <2>4. k - 1 \in Nat /\ k - 1 \notin S
    BY <2>2, <2>3
  <2>5. Holds((k - 1) + 1)
    BY <1>3, <2>4
  <2>6. (k - 1) + 1 = k
    OBVIOUS
  <2> QED
    BY <2>5, <2>6
<1> QED
  BY <1>4 DEF Holds

LEMMA SmallPowers ==
  ASSUME NEW n \in Nat
  PROVE  /\ 2^n > 2 <=> n >= 2
         /\ 2^n = 1 <=> n = 0
         /\ n >= 2 => 2^n >= 4
<1>1. n = 0 => 2^n = 1
  OBVIOUS
<1>2. n = 1 => 2^n = 2
  OBVIOUS
<1>3. ASSUME n >= 2
      PROVE  2^n \in Nat /\ 2^n >= 4
  <2>1. n - 2 \in Nat /\ n - 1 \in Nat /\ (n - 2) + 1 = n - 1 /\ (n - 1) + 1 = n
    BY <1>3
  <2>2. 2^(n - 2) \in Nat /\ 2^(n - 2) >= 1
    BY <2>1, PowerIsPositive
  <2>3. 2^((n - 2) + 1) = 2 * 2^(n - 2) /\ 2^((n - 1) + 1) = 2 * 2^(n - 1)
    BY <2>1, PowerDoubles
  <2>4. 2^(n - 1) = 2 * 2^(n - 2) /\ 2^n = 2 * 2^(n - 1)
    BY <2>1, <2>3, Zenon
  <2> QED
    BY <2>2, <2>4
<1> QED
  BY <1>1, <1>2, <1>3

-----------------------------------------------------------------------------
(* Division. *)

LEMMA Division ==
  ASSUME NEW a \in Nat, NEW s \in Nat, s >= 1
  PROVE  /\ a \div s \in Nat /\ a % s \in 0 .. s - 1
         /\ a = (a \div s) * s + (a % s)
OBVIOUS

LEMMA Quotient ==
  ASSUME NEW s \in Nat, s >= 1, NEW q \in Nat, NEW a \in Nat
  PROVE  a \div s = q <=> (q * s <= a /\ a < q * s + s)
OBVIOUS

LEMMA CoarserQuotient ==
  ASSUME NEW s \in Nat, s >= 1, NEW t \in Nat, t >= 1, NEW a \in Nat, NEW b \in Nat,
         a \div s = b \div s
  PROVE  a \div (s * t) = b \div (s * t)
<1> DEFINE u == a \div s
           v == u \div t
           w == u % t
<1>1. u \in Nat /\ u * s <= a /\ a < u * s + s /\ u * s <= b /\ b < u * s + s
  BY Division, Quotient
<1> HIDE DEF u
<1>2. v \in Nat /\ w \in 0 .. t - 1 /\ u = v * t + w
  BY <1>1, Division
<1> HIDE DEF v, w
<1>3. s * t \in Nat /\ s * t >= 1
  OBVIOUS
<1>4. u * s = v * (s * t) + w * s
  BY <1>2
<1>5. 0 <= w * s /\ w * s + s <= s * t /\ w * s \in Nat
  BY <1>2
<1> DEFINE x == v * (s * t)
           y == w * s
           z == s * t
<1>6. x \in Nat /\ y \in Nat /\ z \in Nat /\ z >= 1 /\ x = v * z
  BY <1>2, <1>3, <1>5
<1>7. x + y <= a /\ a < x + y + s /\ x + y <= b /\ b < x + y + s /\ y + s <= z /\ 0 <= y
  BY <1>1, <1>4, <1>5
<1> HIDE DEF x, y, z
<1>8. x <= a /\ a < x + z /\ x <= b /\ b < x + z
  BY <1>6, <1>7
<1>9. a \div z = v /\ b \div z = v
  BY <1>2, <1>6, <1>8, Quotient
<1> QED
  BY <1>9 DEF z

-----------------------------------------------------------------------------
(* Segments. *)

FourPrefixes == [addr : Addresses, bits : 0 .. W]
Base(p) == Masked(p)
Last(p) == Masked(p) + Size(p) - 1

\* A prefix splits the addresses into segments of its size.
LEMMA SizeFacts ==
  ASSUME NEW p \in Prefixes
  PROVE  /\ Size(p) \in Nat /\ Size(p) >= 1
         /\ \E t \in Nat : t >= 1 /\ 2^W = Size(p) * t
         /\ Size(p) > 2 <=> p.bits <= W - 2
         /\ p.bits <= W - 2 => Size(p) >= 4
<1>1. W - p.bits \in Nat /\ p.bits \in Nat /\ (W - p.bits) + p.bits = W
  BY WidthAssumption DEF Prefixes
<1>2. \E t \in Nat : t >= 1 /\ 2^((W - p.bits) + p.bits) = 2^(W - p.bits) * t
  BY <1>1, PowerDivides
<1>3. \E t \in Nat : t >= 1 /\ 2^W = 2^(W - p.bits) * t
  BY <1>1, <1>2, Zenon
<1>4. 2^(W - p.bits) \in Nat /\ 2^(W - p.bits) >= 1
  BY <1>1, PowerIsPositive
<1>5. /\ 2^(W - p.bits) > 2 <=> W - p.bits >= 2
      /\ W - p.bits >= 2 => 2^(W - p.bits) >= 4
  BY <1>1, SmallPowers
<1>6. W - p.bits >= 2 <=> p.bits <= W - 2
  BY <1>1, WidthAssumption
<1> QED
  BY <1>3, <1>4, <1>5, <1>6, Zenon DEF Size

LEMMA AddressesAreNats == Addresses \subseteq Nat /\ 2^W \in Nat
<1>1. 2^W \in Nat /\ 2^W >= 1
  BY PowerIsPositive, WidthAssumption
<1> QED
  BY <1>1 DEF Addresses

\* A segment is an interval, and its first address is the masked one.
LEMMA SegmentIsInterval ==
  ASSUME NEW p \in FourPrefixes
  PROVE  /\ Base(p) \in Nat /\ Base(p) <= p.addr /\ p.addr <= Last(p)
         /\ Last(p) \in Addresses
         /\ Segment(p) = Base(p) .. Last(p)
<1> DEFINE s == Size(p)
           a == p.addr
           q == a \div s
<1>1. p \in Prefixes /\ a \in Nat /\ a < 2^W /\ 2^W \in Nat
  BY AddressesAreNats DEF FourPrefixes, Prefixes, Literals, Addresses
<1>2. s \in Nat /\ s >= 1
  BY <1>1, SizeFacts
<1>3. PICK t \in Nat : t >= 1 /\ 2^W = s * t
  BY <1>1, SizeFacts
<1>4. Base(p) = q * s
  BY DEF Base, Masked
<1> HIDE DEF s, a
<1>5. q \in Nat /\ a % s \in 0 .. s - 1 /\ a = q * s + (a % s)
  BY <1>1, <1>2, Division
<1> HIDE DEF q
<1>6. q * s \in Nat
  BY <1>2, <1>5
<1>7. q * s + s <= 2^W
  <2>1. q < t
    <3>1. SUFFICES ASSUME q >= t
                   PROVE  FALSE
      BY <1>3, <1>5
    <3>2. q * s >= s * t
      BY <3>1, <1>2, <1>3, <1>5
    <3> QED
      BY <3>2, <1>1, <1>3, <1>5, <1>6
  <2>2. (q + 1) * s <= s * t
    BY <2>1, <1>2, <1>3, <1>5
  <2>3. (q + 1) * s = q * s + s
    BY <1>2, <1>5
  <2> QED
    BY <2>2, <2>3, <1>3
<1>8. Last(p) = q * s + s - 1
  BY <1>4 DEF Last, Base, s
<1>9. a - (a % s) = q * s
  BY <1>1, <1>5, <1>6
<1>10. Segment(p) = {x \in Addresses : \E k \in 0 .. s - 1 : x = a - (a % s) + k}
  BY DEF Segment, s, a
<1>11. Segment(p) = Base(p) .. Last(p)
  <2> DEFINE b == q * s
  <2>1. Segment(p) = {x \in Addresses : \E k \in 0 .. s - 1 : x = b + k}
    BY <1>9, <1>10
  <2>2. Base(p) = b /\ Last(p) = b + s - 1 /\ b \in Nat /\ b + s <= 2^W
    BY <1>4, <1>6, <1>7, <1>8
  <2> HIDE DEF b
  <2>3. ASSUME NEW x \in b .. b + s - 1
        PROVE  x \in Addresses /\ \E k \in 0 .. s - 1 : x = b + k
    <3>1. x \in Addresses
      BY <1>1, <1>2, <2>2 DEF Addresses
    <3>2. x - b \in 0 .. s - 1 /\ x = b + (x - b)
      BY <1>2, <2>2
    <3> QED
      BY <3>1, <3>2
  <2>4. ASSUME NEW k \in 0 .. s - 1
        PROVE  b + k \in b .. b + s - 1
    BY <1>2, <2>2
  <2> QED
    BY <2>1, <2>2, <2>3, <2>4
<1>12. Base(p) <= a /\ a <= Last(p) /\ Base(p) \in Nat
  BY <1>2, <1>4, <1>5, <1>6, <1>8
<1>13. Last(p) \in Addresses
  BY <1>1, <1>2, <1>6, <1>7, <1>8 DEF Addresses
<1> QED
  BY <1>11, <1>12, <1>13 DEF a

\* Masks tell who is on a segment.
LEMMA ContainsIsMember ==
  ASSUME NEW p \in FourPrefixes, NEW a
  PROVE  Contains(p, a) <=> a \in Segment(p)
<1>1. Segment(p) \subseteq Addresses
  BY DEF Segment
<1>2. CASE a \notin Addresses
  BY <1>1, <1>2 DEF Contains, IsFour
<1>3. CASE a \in Addresses
  <2> DEFINE s == Size(p)
             q == p.addr \div s
             r == a \div s
  <2>1. p \in Prefixes /\ p.addr \in Nat /\ a \in Nat
    BY <1>3, AddressesAreNats DEF FourPrefixes, Prefixes, Literals
  <2>2. s \in Nat /\ s >= 1
    BY <2>1, SizeFacts
  <2>3. Size([p EXCEPT !.addr = a]) = s /\ [p EXCEPT !.addr = a].addr = a
    BY DEF Size, FourPrefixes
  <2>4. Contains(p, a) <=> r * s = q * s
    BY <1>3, <2>3 DEF Contains, IsFour, Masked
  <2>5. Segment(p) = q * s .. q * s + s - 1
    BY SegmentIsInterval DEF Base, Last, Masked
  <2> HIDE DEF s
  <2>6. q \in Nat /\ r \in Nat
    BY <2>1, <2>2, Division
  <2>7. q * s \in Nat
    BY <2>2, <2>6
  <2>8. r = q <=> (q * s <= a /\ a < q * s + s)
    BY <2>1, <2>2, <2>6, Quotient
  <2>9. r * s = q * s <=> r = q
    BY <2>2, <2>6
  <2> HIDE DEF q, r
  <2>10. a \in q * s .. q * s + s - 1 <=> (q * s <= a /\ a < q * s + s)
    BY <2>1, <2>2, <2>7
  <2> QED
    BY <2>4, <2>5, <2>8, <2>9, <2>10
<1> QED
  BY <1>2, <1>3

\* The last address of a segment is the one whose successor is not on it.
LEMMA SuccessorInside ==
  ASSUME NEW p \in FourPrefixes, NEW a \in Segment(p)
  PROVE  Contains(p, NextAddr(a)) <=> a # Last(p)
<1>1. /\ Segment(p) = Base(p) .. Last(p) /\ Base(p) \in Nat
      /\ Last(p) \in Nat /\ Last(p) <= 2^W - 1 /\ 2^W \in Nat
  BY SegmentIsInterval, AddressesAreNats DEF Addresses
<1>2. Contains(p, NextAddr(a)) <=> NextAddr(a) \in Base(p) .. Last(p)
  BY <1>1, ContainsIsMember
<1>3. a \in Nat /\ Base(p) <= a /\ a <= Last(p)
  BY <1>1
<1> QED
  BY <1>1, <1>2, <1>3 DEF NextAddr, NotAddress

LEMMA SegmentEnds ==
  ASSUME NEW p \in FourPrefixes
  PROVE  /\ Min(Segment(p)) = Base(p)
         /\ Max(Segment(p)) = Last(p)
         /\ Cardinality(Segment(p)) = Size(p)
<1>1. /\ Segment(p) = Base(p) .. Last(p) /\ Base(p) \in Nat /\ Last(p) \in Nat
      /\ Base(p) <= Last(p)
  <2>1. /\ Segment(p) = Base(p) .. Last(p) /\ Base(p) \in Nat /\ Last(p) \in Nat
        /\ Base(p) <= p.addr /\ p.addr <= Last(p)
    BY SegmentIsInterval, AddressesAreNats
  <2>2. p.addr \in Nat
    BY AddressesAreNats DEF FourPrefixes
  <2> QED
    BY <2>1, <2>2
<1>2. Size(p) \in Nat /\ Size(p) >= 1 /\ Last(p) = Base(p) + Size(p) - 1
  BY SizeFacts DEF FourPrefixes, Prefixes, Literals, Last, Base
<1>3. Min(Base(p) .. Last(p)) = Base(p) /\ Max(Base(p) .. Last(p)) = Last(p)
  BY <1>1 DEF Min, Max
<1>4. Cardinality(Base(p) .. Last(p)) = Last(p) - Base(p) + 1
  BY <1>1, FS_Interval
<1> QED
  BY <1>1, <1>2, <1>3, <1>4

\* Who may be a host, said with masks and successors.
LEMMA HostTest ==
  ASSUME NEW p \in FourPrefixes, NEW a
  PROVE  a \in Hosts(Segment(p))
           <=> Contains(p, a) /\ a # Masked(p) /\ ~IsBroadcast(p, a)
<1>1. CASE a \notin Segment(p)
  BY <1>1, ContainsIsMember DEF Hosts
<1>2. CASE a \in Segment(p)
  <2>1. /\ Min(Segment(p)) = Masked(p) /\ Max(Segment(p)) = Last(p)
        /\ Cardinality(Segment(p)) = Size(p)
    BY SegmentEnds DEF Base
  <2>2. Size(p) > 2 <=> p.bits < W - 1
    <3>1. Size(p) > 2 <=> p.bits <= W - 2
      BY SizeFacts DEF FourPrefixes, Prefixes, Literals
    <3>2. p.bits <= W - 2 <=> p.bits < W - 1
      BY WidthAssumption DEF FourPrefixes
    <3> QED
      BY <3>1, <3>2
  <2>3. IsBroadcast(p, a) <=> (Size(p) > 2 /\ a = Last(p))
    BY <1>2, <2>2, SuccessorInside DEF IsBroadcast
  <2>4. Contains(p, a)
    BY <1>2, ContainsIsMember
  <2> QED
    BY <1>2, <2>1, <2>3, <2>4, Zenon DEF Hosts
<1> QED
  BY <1>1, <1>2

\* Two segments are nested or apart, and the shorter prefix tells which.
LEMMA ShorterDecides ==
  ASSUME NEW p \in FourPrefixes, NEW q \in FourPrefixes, p.bits <= q.bits
  PROVE  Masked(p) = Masked([q EXCEPT !.bits = p.bits]) <=> Segment(p) \cap Segment(q) # {}
<1> DEFINE o == [q EXCEPT !.bits = p.bits]
<1>1. o \in FourPrefixes /\ o.addr = q.addr /\ Size(o) = Size(p)
  BY DEF FourPrefixes, Size
<1>2. Contains(p, q.addr) <=> Masked(p) = Masked(o)
  <2>1. Masked([p EXCEPT !.addr = q.addr]) = Masked(o)
    BY DEF Masked, Size, FourPrefixes
  <2> QED
    BY <2>1 DEF Contains, IsFour, FourPrefixes
<1>3. q.addr \in Segment(q)
  BY ContainsIsMember DEF Contains, IsFour, FourPrefixes
<1>4. ASSUME NEW a \in Segment(p), a \in Segment(q)
      PROVE  Masked(p) = Masked(o)
  <2> DEFINE s == Size(q)
  <2>1. a \in Nat /\ q.addr \in Nat
    BY AddressesAreNats DEF FourPrefixes, Segment
  <2>2. s \in Nat /\ s >= 1
    BY SizeFacts DEF FourPrefixes, Prefixes, Literals
  <2>3. PICK t \in Nat : t >= 1 /\ Size(p) = s * t
    <3>1. /\ W - q.bits \in Nat /\ q.bits - p.bits \in Nat
          /\ (W - q.bits) + (q.bits - p.bits) = W - p.bits
      BY WidthAssumption DEF FourPrefixes
    <3>2. \E t \in Nat : t >= 1 /\ 2^((W - q.bits) + (q.bits - p.bits)) = 2^(W - q.bits) * t
      BY <3>1, PowerDivides
    <3> QED
      BY <3>1, <3>2, Zenon DEF Size
  <2>4. a \div s = q.addr \div s
    <3>1. Contains(q, a)
      BY <1>4, ContainsIsMember
    <3>2. (a \div s) * s = (q.addr \div s) * s
      BY <3>1 DEF Contains, Masked, Size, FourPrefixes
    <3>3. a \div s \in Nat /\ q.addr \div s \in Nat
      BY <2>1, <2>2, Division
    <3> HIDE DEF s
    <3> QED
      BY <3>2, <3>3, <2>2
  <2>5. a \div (s * t) = q.addr \div (s * t)
    BY <2>1, <2>2, <2>3, <2>4, CoarserQuotient
  <2>6. Masked([p EXCEPT !.addr = a]) = Masked(o)
    BY <2>3, <2>5, <1>1 DEF Masked, Size, FourPrefixes
  <2>7. Masked([p EXCEPT !.addr = a]) = Masked(p)
    BY <1>4, ContainsIsMember DEF Contains
  <2> QED
    BY <2>6, <2>7
<1>5. ASSUME Masked(p) = Masked(o)
      PROVE  q.addr \in Segment(p) \cap Segment(q)
  BY <1>2, <1>3, <1>5, ContainsIsMember
<1> QED
  BY <1>4, <1>5

LEMMA OverlapIsMeeting ==
  ASSUME NEW p \in FourPrefixes, NEW q \in FourPrefixes
  PROVE  Overlaps(p, q) <=> Segment(p) \cap Segment(q) # {}
<1>1. p.bits \in Nat /\ q.bits \in Nat
  BY WidthAssumption DEF FourPrefixes
<1>2. CASE p.bits <= q.bits
  <2>1. Min({p.bits, q.bits}) = p.bits
    BY <1>1, <1>2 DEF Min
  <2>2. [p EXCEPT !.bits = p.bits] = p
    BY DEF FourPrefixes
  <2> QED
    BY <1>2, <2>1, <2>2, ShorterDecides DEF Overlaps
<1>3. CASE q.bits <= p.bits
  <2>1. Min({p.bits, q.bits}) = q.bits
    BY <1>1, <1>3 DEF Min
  <2>2. [q EXCEPT !.bits = q.bits] = q
    BY DEF FourPrefixes
  <2>3. Masked(q) = Masked([p EXCEPT !.bits = q.bits]) <=> Segment(q) \cap Segment(p) # {}
    BY <1>3, ShorterDecides
  <2> QED
    BY <2>1, <2>2, <2>3 DEF Overlaps
<1> QED
  BY <1>1, <1>2, <1>3

\* A segment has room for two hosts when two bits are left for them.
LEMMA RoomForTwo ==
  ASSUME NEW p \in FourPrefixes
  PROVE  Cardinality(Hosts(Segment(p))) >= 2 <=> p.bits <= W - 2
<1> DEFINE b == Base(p)
           s == Size(p)
<1>1. Segment(p) = b .. b + s - 1 /\ b \in Nat
  BY SegmentIsInterval DEF Last, Base
<1>2. /\ s \in Nat /\ s >= 1
      /\ s > 2 <=> p.bits <= W - 2
      /\ p.bits <= W - 2 => s >= 4
  BY SizeFacts DEF FourPrefixes, Prefixes, Literals
<1>3. Min(Segment(p)) = b /\ Max(Segment(p)) = b + s - 1 /\ Cardinality(Segment(p)) = s
  BY SegmentEnds DEF Last, Base
<1>4. CASE p.bits <= W - 2
  <2>1. Hosts(Segment(p)) = Segment(p) \ {b, b + s - 1}
    BY <1>2, <1>3, <1>4 DEF Hosts
  <2> HIDE DEF b, s
  <2>2. Hosts(Segment(p)) = b + 1 .. b + s - 2
    <3>1. \A x : x \in b .. b + s - 1 /\ x \notin {b, b + s - 1} <=> x \in b + 1 .. b + s - 2
      BY <1>1, <1>2
    <3> QED
      BY <1>1, <2>1, <3>1
  <2>3. Cardinality(b + 1 .. b + s - 2) = s - 2
    BY <1>1, <1>2, <1>4, FS_Interval
  <2> QED
    BY <1>2, <1>4, <2>2, <2>3
<1>5. CASE ~(p.bits <= W - 2)
  <2>1. Hosts(Segment(p)) = Segment(p) \ {b}
    BY <1>2, <1>3, <1>5 DEF Hosts
  <2> HIDE DEF b, s
  <2>2. Hosts(Segment(p)) = b + 1 .. b + s - 1
    <3>1. \A x : x \in b .. b + s - 1 /\ x # b <=> x \in b + 1 .. b + s - 1
      BY <1>1, <1>2
    <3> QED
      BY <1>1, <2>1, <3>1
  <2>3. Cardinality(b + 1 .. b + s - 1) = s - 1
    BY <1>1, <1>2, <1>5, FS_Interval
  <2> QED
    BY <1>2, <1>5, <2>2, <2>3
<1> QED
  BY <1>4, <1>5

-----------------------------------------------------------------------------
(* The checks. *)

\* What CheckNetwork asks of the addresses of a block.
LEMMA AcceptedHosts ==
  ASSUME NEW n, n.net \in Prefixes, NEW a
  PROVE  AddressPasses(n) /\ GatewayPasses(n) /\ Contains(n.net, a)
           <=> /\ IsFour(n.net.addr)
               /\ n.net.addr \in Hosts(Segment(n.net))
               /\ n.gateway \in Hosts(Segment(n.net)) \ {n.net.addr}
               /\ a \in Segment(n.net)
<1>1. CASE ~IsFour(n.net.addr)
  BY <1>1 DEF AddressPasses
<1>2. CASE IsFour(n.net.addr)
  <2>1. n.net \in FourPrefixes
    BY <1>2 DEF FourPrefixes, Prefixes, IsFour
  <2>2. Contains(n.net, n.net.addr)
    BY <1>2, <2>1 DEF Contains, FourPrefixes
  <2> QED
    BY <1>2, <2>1, <2>2, HostTest, ContainsIsMember, Zenon DEF AddressPasses, GatewayPasses
<1> QED
  BY <1>1, <1>2

LEMMA AcceptedSegment ==
  ASSUME NEW p \in Prefixes, NEW a, NEW S, \A r \in S : r \in Prefixes /\ IsFour(r.addr)
  PROVE  SpecClusterNetwork(p, a, S)
           <=> /\ IsFour(p.addr)
               /\ p.addr = Min(Segment(p))
               /\ Cardinality(Hosts(Segment(p))) >= 2
               /\ a \in Hosts(Segment(p))
               /\ \A r \in S : Segment(p) \cap Segment(r) = {}
<1>1. CASE ~IsFour(p.addr)
  BY <1>1 DEF SpecClusterNetwork, SegmentPasses
<1>2. CASE IsFour(p.addr)
  <2>1. p \in FourPrefixes
    BY <1>2 DEF FourPrefixes, Prefixes, IsFour
  <2>2. \A r \in S : ~Overlaps(p, r) <=> Segment(p) \cap Segment(r) = {}
    <3>1. \A r \in S : r \in FourPrefixes
      BY DEF FourPrefixes, Prefixes, IsFour
    <3> QED
      BY <2>1, <3>1, OverlapIsMeeting
  <2>3. Min(Segment(p)) = Masked(p)
    BY <2>1, SegmentEnds DEF Base
  <2>4. SegmentPasses(p, S)
          <=> /\ p.addr = Min(Segment(p))
              /\ Cardinality(Hosts(Segment(p))) >= 2
              /\ \A r \in S : Segment(p) \cap Segment(r) = {}
    BY <1>2, <2>1, <2>2, <2>3, RoomForTwo, Zenon DEF SegmentPasses
  <2>5. ASSUME SegmentPasses(p, S)
        PROVE  ClusterAddressPasses(p, a) <=> a \in Hosts(Segment(p))
    <3>1. p.addr = Masked(p) /\ p.bits < W - 1
      BY <2>5, <2>1, WidthAssumption DEF SegmentPasses, FourPrefixes
    <3>2. Contains(p, a) => IsFour(a)
      BY DEF Contains
    <3> QED
      BY <2>1, <3>1, <3>2, HostTest, Zenon DEF ClusterAddressPasses, IsBroadcast
  <2> QED
    BY <1>2, <2>4, <2>5, Zenon DEF SpecClusterNetwork
<1> QED
  BY <1>1, <1>2

Shapes == net \in Prefixes /\ mac \in Macs

LEMMA ShapesKept == Spec => []Shapes
<1>1. Init => Shapes
  <2>1. 0 \in 0 .. W /\ NotAddress \in Literals
    BY WidthAssumption DEF Literals
  <2>2. [addr |-> NotAddress, bits |-> 0] \in Prefixes
    BY <2>1, Zenon DEF Prefixes
  <2> QED
    BY <2>2, Zenon DEF Init, Shapes, Macs
<1>2. Shapes /\ [Next]_vars => Shapes'
  BY DEF Shapes, Next, vars, EditAddress, EditGateway, EditResolvers, EditMac, EditMaintenance
<1> QED
  BY <1>1, <1>2, PTL DEF Spec

\* For addresses of any width, /0, /31, /32 and the last address of all
\* included: the static blocks that CheckNetwork lets through are those that
\* leave the node reachable, no more and no fewer (network.go: CheckNetwork).
THEOREM StaticBlocksReach == Spec => []AcceptedIsReachable
<1>1. Shapes => AcceptedIsReachable
  <2>1. SUFFICES ASSUME Shapes
                 PROVE  AcceptedIsReachable
    OBVIOUS
  <2>2. /\ Block.net = net /\ Block.gateway = gateway
        /\ Block.resolvers = resolvers /\ Block.mac = mac
    BY DEF Block
  <2>3. mac \notin {"", "bad"} <=> mac = "mac"
    BY <2>1 DEF Shapes, Macs
  <2>4. ResolversPass(Block) <=> resolvers # {} /\ \A r \in resolvers : IsFour(r)
    BY <2>2 DEF ResolversPass, IsFour
  <2>5. AddressPasses(Block) /\ GatewayPasses(Block) /\ Contains(net, maintenance)
          <=> /\ IsFour(net.addr)
              /\ net.addr \in Hosts(Segment(net))
              /\ gateway \in Hosts(Segment(net)) \ {net.addr}
              /\ maintenance \in Segment(net)
    BY <2>1, <2>2, AcceptedHosts DEF Shapes
  <2> QED
    BY <2>2, <2>3, <2>4, <2>5, Zenon DEF AcceptedIsReachable, CheckNetwork
<1> QED
  BY <1>1, ShapesKept, PTL

\* The cluster networks that are let through are whole segments apart from the
\* reserved ones, and the VM's address a host of it (clusternet.go:
\* specClusterNetwork).
THEOREM ClusterAddressesAreHosts == Spec => []ClusterAddressIsHost
<1>1. Shapes => ClusterAddressIsHost
  BY AcceptedSegment, ReservedAssumption, Zenon DEF Shapes, ClusterAddressIsHost
<1> QED
  BY <1>1, ShapesKept, PTL
=============================================================================
