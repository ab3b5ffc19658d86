---------------------------- MODULE SlicesProofs ----------------------------
(****************************************************************************)
(* What the loops over slices compute, for slices of any length.  The       *)
(* induction is over an initial segment of the naturals, from the fact      *)
(* that every set of naturals has a least element.                          *)
(****************************************************************************)
EXTENDS Slices, SequencesExt, WellFoundedInduction, TLAPS

\* Every set of naturals that is not empty has a least element.
LEMMA LeastElement ==
    ASSUME NEW T, T \subseteq Nat, T # {}
    PROVE  \E x \in T : \A y \in T : x <= y
<1> DEFINE R == OpToRel(<, Nat)
<1>1. \A x, y \in Nat : x < y => <<x, y>> \in R
    BY DEF OpToRel
<1>2. IsWellFoundedOn(R, Nat)
    BY NatLessThanWellFounded
<1> HIDE DEF R
<1>3. PICK x \in T : \A y \in T : ~(<<y, x>> \in R)
    BY <1>2, WFMin
<1>4. ASSUME NEW y \in T PROVE x <= y
  <2>1. x \in Nat /\ y \in Nat
      BY <1>3, <1>4
  <2>2. ~(y < x)
      BY <1>1, <1>3, <1>4, <2>1
  <2> QED BY <2>1, <2>2
<1> QED BY <1>3, <1>4

\* induction on an initial segment: a set of naturals that has 0 and is closed
LEMMA InductUpTo ==
    ASSUME NEW n \in Nat, NEW T, 0 \in T, \A i \in 1..n : i - 1 \in T => i \in T
    PROVE  0..n \subseteq T
<1> SUFFICES ASSUME (0..n) \ T # {} PROVE FALSE
    OBVIOUS
<1> DEFINE U == (0..n) \ T
<1>0. U \subseteq Nat /\ U # {}
    OBVIOUS
<1> HIDE DEF U
<1>1. PICK x \in U : \A y \in U : x <= y
    BY <1>0, LeastElement
<1> USE DEF U
<1>2. x \in 1..n /\ x - 1 \in 0..n
    BY <1>1
<1>3. x - 1 \in T
    BY <1>1, <1>2
<1> QED BY <1>1, <1>2, <1>3

\* A slice whose elements have a size.
Sized(s) == Len(s) \in Nat /\ \A i \in 1..Len(s) : s[i].size \in Nat

PrefixBytes(f, s, n) ==
    /\ f \in [0..n -> Nat] /\ f[0] = 0
    /\ \A i \in 1..n : f[i] = f[i - 1] + s[i].size

\* There is a function that sums up the sizes, by induction over its domain.
LEMMA BytesExist ==
    ASSUME NEW s, Sized(s)
    PROVE  \E f : PrefixBytes(f, s, Len(s))
<1> DEFINE N == {n \in 0..Len(s) : \E f : PrefixBytes(f, s, n)}
<1>0. Len(s) \in Nat /\ \A i \in 1..Len(s) : s[i].size \in Nat
    BY DEF Sized
<1>1. 0 \in N
  <2>1. PrefixBytes([i \in 0..0 |-> 0], s, 0)
      BY DEF PrefixBytes
  <2> QED BY <1>0, <2>1
<1>2. ASSUME NEW i \in 1..Len(s), i - 1 \in N PROVE i \in N
  <2>1. PICK f : PrefixBytes(f, s, i - 1)
      BY <1>2
  <2> DEFINE g == [j \in 0..i |-> IF j = i THEN f[i - 1] + s[i].size ELSE f[j]]
  <2>2. /\ f \in [0..(i - 1) -> Nat] /\ f[0] = 0
        /\ \A j \in 1..(i - 1) : f[j] = f[j - 1] + s[j].size
      BY <2>1 DEF PrefixBytes
  <2>3. i - 1 \in 0..(i - 1) /\ s[i].size \in Nat /\ i \in Nat
      BY <1>0
  <2>4. \A j \in 0..i : IF j = i THEN g[j] = f[i - 1] + s[i].size
                                 ELSE j \in 0..(i - 1) /\ g[j] = f[j] /\ f[j] \in Nat
      BY <1>0, <2>2
  <2>5. g \in [0..i -> Nat]
      BY <1>0, <2>2, <2>3, <2>4
  <2> HIDE DEF g
  <2>6. g[0] = 0 /\ \A j \in 1..i : g[j] = g[j - 1] + s[j].size
    <3>1. g[0] = 0 /\ g[i] = g[i - 1] + s[i].size
        BY <2>2, <2>3, <2>4
    <3>2. ASSUME NEW j \in 1..i, j # i PROVE g[j] = g[j - 1] + s[j].size
      <4>1. j \in 1..(i - 1) /\ j \in 0..i /\ j - 1 \in 0..i /\ j - 1 # i
          BY <2>3, <3>2
      <4> QED BY <2>2, <2>4, <3>2, <4>1
    <3> QED BY <3>1, <3>2
  <2>7. PrefixBytes(g, s, i)
      BY <2>5, <2>6 DEF PrefixBytes
  <2> QED BY <2>7
<1> HIDE DEF N
<1>3. 0..Len(s) \subseteq N
    BY <1>0, <1>1, <1>2, InductUpTo
<1>4. Len(s) \in N
    BY <1>0, <1>3
<1> QED BY <1>4 DEF N

\* The equation by which the bytes of a slice are defined.
LEMMA BytesEquation ==
    ASSUME NEW s, Sized(s)
    PROVE  /\ BytesUpTo(s) \in [0..Len(s) -> Nat]
           /\ BytesUpTo(s)[0] = 0
           /\ \A i \in 1..Len(s) : BytesUpTo(s)[i] = BytesUpTo(s)[i - 1] + s[i].size
<1> DEFINE F(g) == [i \in 0..Len(s) |-> IF i = 0 THEN 0 ELSE g[i - 1] + s[i].size]
           b == BytesUpTo(s)
<1>0. Len(s) \in Nat /\ \A i \in 1..Len(s) : s[i].size \in Nat
    BY DEF Sized
<1>1. PICK f : PrefixBytes(f, s, Len(s))
    BY BytesExist
<1>2. f = F(f)
    BY <1>0, <1>1 DEF PrefixBytes
<1>3. BytesUpTo(s) = CHOOSE g : g = F(g)
    BY DEF BytesUpTo
<1>4. b = F(b)
    BY <1>2, <1>3, Zenon
<1>5. b[0] = 0 /\ \A i \in 1..Len(s) : b[i] = b[i - 1] + s[i].size
    BY <1>0, <1>4
<1> HIDE DEF b
<1> DEFINE N == {n \in Int : b[n] \in Nat}
<1>6. 0 \in N
    BY <1>5
<1>7. ASSUME NEW i \in 1..Len(s), i - 1 \in N PROVE i \in N
    BY <1>0, <1>5, <1>7
<1> HIDE DEF N
<1>8. 0..Len(s) \subseteq N
    BY <1>0, <1>6, <1>7, InductUpTo
<1>9. \A i \in 0..Len(s) : b[i] \in Nat
    BY <1>8 DEF N
<1>10. b = [i \in 0..Len(s) |-> b[i]]
    BY <1>4
<1>11. b \in [0..Len(s) -> Nat]
    BY <1>9, <1>10
<1> QED BY <1>5, <1>11 DEF b

\* The bytes of a slice whose elements are those of another, from position k on.
LEMMA BytesShifted ==
    ASSUME NEW s, Sized(s), NEW t, Sized(t), NEW k \in Nat, k + Len(t) <= Len(s),
           \A i \in 1..Len(t) : s[k + i].size = t[i].size
    PROVE  BytesUpTo(s)[k + Len(t)] = BytesUpTo(s)[k] + Bytes(t)
<1> DEFINE a == BytesUpTo(s)
           b == BytesUpTo(t)
           N == {n \in Int : a[k + n] = a[k] + b[n]}
<1>0. Len(s) \in Nat /\ Len(t) \in Nat /\ \A i \in 1..Len(t) : t[i].size \in Nat
    BY DEF Sized
<1>1. /\ a \in [0..Len(s) -> Nat]
      /\ \A i \in 1..Len(s) : a[i] = a[i - 1] + s[i].size
    BY BytesEquation
<1>2. /\ b \in [0..Len(t) -> Nat] /\ b[0] = 0
      /\ \A i \in 1..Len(t) : b[i] = b[i - 1] + t[i].size
    BY BytesEquation
<1> HIDE DEF a, b
<1>3. 0 \in N
  <2>1. k \in 0..Len(s) /\ k + 0 = k
      BY <1>0
  <2>2. a[k] \in Nat
      BY <1>1, <2>1
  <2> QED BY <1>2, <2>1, <2>2
<1>4. ASSUME NEW i \in 1..Len(t), i - 1 \in N PROVE i \in N
  <2>1. /\ k + i \in 1..Len(s) /\ k + (i - 1) = (k + i) - 1 /\ i - 1 \in 0..Len(t)
        /\ k \in 0..Len(s)
      BY <1>0
  <2>2. a[k + i] = a[k + (i - 1)] + s[k + i].size
      BY <1>1, <2>1
  <2>3. s[k + i].size = t[i].size /\ t[i].size \in Nat
      BY <1>0
  <2>4. b[i] = b[i - 1] + t[i].size
      BY <1>2
  <2>5. b[i - 1] \in Nat /\ a[k] \in Nat
      BY <1>1, <1>2, <2>1
  <2>6. a[k + (i - 1)] = a[k] + b[i - 1]
      BY <1>4
  <2>7. a[k + i] = a[k] + b[i]
      BY <2>2, <2>3, <2>4, <2>5, <2>6
  <2> QED BY <2>7
<1> HIDE DEF N
<1>5. 0..Len(t) \subseteq N
    BY <1>0, <1>3, <1>4, InductUpTo
<1>6. Len(t) \in N
    BY <1>0, <1>5
<1> QED BY <1>6 DEF N, Bytes, a, b

\* The size of a slice is a natural number.
LEMMA BytesNat ==
    ASSUME NEW s, Sized(s)
    PROVE  Bytes(s) \in Nat
<1>1. BytesUpTo(s) \in [0..Len(s) -> Nat]
    BY BytesEquation
<1> QED BY <1>1 DEF Bytes, Sized

\* An empty slice has no bytes.
LEMMA BytesEmpty == Bytes(<<>>) = 0
<1>1. Sized(<<>>)
    BY DEF Sized
<1>2. BytesUpTo(<<>>)[0] = 0
    BY <1>1, BytesEquation
<1> QED BY <1>2 DEF Bytes

\* Slices with the same sizes have the same bytes.
LEMMA BytesSame ==
    ASSUME NEW s, Sized(s), NEW t, Sized(t),
           Len(s) = Len(t), \A i \in 1..Len(t) : s[i].size = t[i].size
    PROVE  Bytes(s) = Bytes(t)
<1>0. 0 \in Nat /\ 0 + Len(t) <= Len(s) /\ \A i \in 1..Len(t) : s[0 + i].size = t[i].size
    BY DEF Sized
<1>1. BytesUpTo(s)[0 + Len(t)] = BytesUpTo(s)[0] + Bytes(t)
    BY <1>0, BytesShifted
<1>2. BytesUpTo(s)[0] = 0 /\ Bytes(t) \in Nat
    BY BytesEquation, BytesNat
<1> QED BY <1>1, <1>2 DEF Bytes, Sized

\* An element at the end adds its size.
LEMMA BytesAppend ==
    ASSUME NEW T, NEW s \in Seq(T), Sized(s), NEW e \in T, e.size \in Nat
    PROVE  Sized(Append(s, e)) /\ Bytes(Append(s, e)) = Bytes(s) + e.size
<1> DEFINE u == Append(s, e)
<1>1. /\ Len(s) \in Nat /\ Len(u) = Len(s) + 1 /\ u[Len(s) + 1] = e
      /\ \A i \in 1..Len(s) : u[i] = s[i]
    OBVIOUS
<1> HIDE DEF u
<1>2. Sized(u)
    BY <1>1 DEF Sized
<1>3. 0 \in Nat /\ 0 + Len(s) <= Len(u) /\ \A i \in 1..Len(s) : u[0 + i].size = s[i].size
    BY <1>1
<1>4. BytesUpTo(u)[0 + Len(s)] = BytesUpTo(u)[0] + Bytes(s)
    BY <1>2, <1>3, BytesShifted
<1>5. BytesUpTo(u)[0] = 0 /\ Bytes(s) \in Nat
    BY <1>2, BytesEquation, BytesNat
<1>6. BytesUpTo(u)[Len(u)] = BytesUpTo(u)[Len(s)] + e.size
  <2>1. Len(u) \in 1..Len(u) /\ Len(u) - 1 = Len(s)
      BY <1>1
  <2>2. \A i \in 1..Len(u) : BytesUpTo(u)[i] = BytesUpTo(u)[i - 1] + u[i].size
      BY <1>2, BytesEquation
  <2> QED BY <1>1, <2>1, <2>2
<1>7. Bytes(u) = Bytes(s) + e.size
    BY <1>1, <1>4, <1>5, <1>6 DEF Bytes
<1> QED BY <1>2, <1>7 DEF u

\* An element at the front adds its size.
LEMMA BytesCons ==
    ASSUME NEW T, NEW s \in Seq(T), Sized(s), NEW e \in T, e.size \in Nat
    PROVE  Sized(<<e>> \o s) /\ Bytes(<<e>> \o s) = e.size + Bytes(s)
<1> DEFINE u == <<e>> \o s
<1>1. /\ Len(s) \in Nat /\ Len(u) = 1 + Len(s) /\ u[1] = e
      /\ \A i \in 1..Len(s) : u[1 + i] = s[i]
    OBVIOUS
<1> HIDE DEF u
<1>2. Sized(u)
  <2>1. ASSUME NEW i \in 1..Len(u) PROVE u[i].size \in Nat
    <3>1. CASE i = 1
        BY <1>1, <3>1
    <3>2. CASE i # 1
      <4>1. i - 1 \in 1..Len(s) /\ u[1 + (i - 1)] = u[i]
          BY <1>1, <3>2
      <4> QED BY <1>1, <4>1 DEF Sized
    <3> QED BY <3>1, <3>2
  <2> QED BY <1>1, <2>1 DEF Sized
<1>3. 1 \in Nat /\ 1 + Len(s) <= Len(u) /\ \A i \in 1..Len(s) : u[1 + i].size = s[i].size
    BY <1>1
<1>4. BytesUpTo(u)[1 + Len(s)] = BytesUpTo(u)[1] + Bytes(s)
    BY <1>2, <1>3, BytesShifted
<1>5. BytesUpTo(u)[1] = e.size
  <2>1. /\ BytesUpTo(u)[0] = 0
        /\ \A i \in 1..Len(u) : BytesUpTo(u)[i] = BytesUpTo(u)[i - 1] + u[i].size
      BY <1>2, BytesEquation
  <2>2. 1 \in 1..Len(u) /\ 1 - 1 = 0
      BY <1>1
  <2> QED BY <1>1, <2>1, <2>2
<1>6. Bytes(u) = e.size + Bytes(s)
    BY <1>1, <1>4, <1>5 DEF Bytes
<1> QED BY <1>2, <1>6 DEF u

\* The two parts of a slice have the bytes of the whole.
LEMMA BytesSplit ==
    ASSUME NEW T, NEW s \in Seq(T), Sized(s), NEW n \in 0..Len(s)
    PROVE  /\ Sized(SubSeq(s, 1, n)) /\ Sized(SubSeq(s, n + 1, Len(s)))
           /\ Bytes(s) = Bytes(SubSeq(s, 1, n)) + Bytes(SubSeq(s, n + 1, Len(s)))
<1> DEFINE a == SubSeq(s, 1, n)
           b == SubSeq(s, n + 1, Len(s))
<1>0. Len(s) \in Nat /\ \A i \in 1..Len(s) : s[i].size \in Nat
    BY DEF Sized
<1>1. /\ a \in Seq(T) /\ Len(a) = n /\ \A i \in 1..n : s[0 + i] = a[i]
      /\ b \in Seq(T) /\ Len(b) = Len(s) - n /\ \A i \in 1..Len(b) : s[n + i] = b[i]
    OBVIOUS
<1> HIDE DEF a, b
<1>2. Sized(a)
    BY <1>0, <1>1 DEF Sized
<1>3. Sized(b)
  <2>1. \A i \in 1..Len(b) : n + i \in 1..Len(s)
      BY <1>0, <1>1
  <2>2. \A i \in 1..Len(b) : b[i].size \in Nat
      BY <1>0, <1>1, <2>1
  <2> QED BY <1>0, <1>1, <2>2 DEF Sized
<1>4. BytesUpTo(s)[0 + Len(a)] = BytesUpTo(s)[0] + Bytes(a)
  <2>1. 0 \in Nat /\ 0 + Len(a) <= Len(s) /\ \A i \in 1..Len(a) : s[0 + i].size = a[i].size
      BY <1>0, <1>1
  <2> QED BY <1>2, <2>1, BytesShifted
<1>5. BytesUpTo(s)[n + Len(b)] = BytesUpTo(s)[n] + Bytes(b)
  <2>1. n \in Nat /\ n + Len(b) <= Len(s) /\ \A i \in 1..Len(b) : s[n + i].size = b[i].size
      BY <1>0, <1>1
  <2> QED BY <1>3, <2>1, BytesShifted
<1>6. BytesUpTo(s)[0] = 0 /\ Bytes(a) \in Nat
    BY <1>2, BytesEquation, BytesNat
<1>7. 0 + Len(a) = n /\ n + Len(b) = Len(s)
    BY <1>0, <1>1
<1>8. Bytes(s) = Bytes(a) + Bytes(b)
    BY <1>4, <1>5, <1>6, <1>7 DEF Bytes
<1> QED BY <1>2, <1>3, <1>8 DEF a, b

-----------------------------------------------------------------------------

KeptStep(f, s, S, i) == f[i] = IF s[i] \in S THEN Append(f[i - 1], s[i]) ELSE f[i - 1]

PrefixKept(f, T, s, S, n) ==
    /\ f \in [0..n -> Seq(T)] /\ f[0] = <<>>
    /\ \A i \in 1..n : KeptStep(f, s, S, i)

\* There is a function that filters every prefix, by induction over its domain.
LEMMA KeptExist ==
    ASSUME NEW T, NEW s \in Seq(T), NEW S
    PROVE  \E f : PrefixKept(f, T, s, S, Len(s))
<1> DEFINE N == {n \in 0..Len(s) : \E f : PrefixKept(f, T, s, S, n)}
<1>0. Len(s) \in Nat /\ \A i \in 1..Len(s) : s[i] \in T
    OBVIOUS
<1>1. 0 \in N
  <2>1. PrefixKept([i \in 0..0 |-> <<>>], T, s, S, 0)
      BY DEF PrefixKept
  <2> QED BY <1>0, <2>1
<1>2. ASSUME NEW i \in 1..Len(s), i - 1 \in N PROVE i \in N
  <2>1. PICK f : PrefixKept(f, T, s, S, i - 1)
      BY <1>2
  <2> DEFINE e == IF s[i] \in S THEN Append(f[i - 1], s[i]) ELSE f[i - 1]
             g == [j \in 0..i |-> IF j = i THEN e ELSE f[j]]
  <2>2. /\ f \in [0..(i - 1) -> Seq(T)] /\ f[0] = <<>>
        /\ \A j \in 1..(i - 1) : KeptStep(f, s, S, j)
      BY <2>1 DEF PrefixKept
  <2>3. i - 1 \in 0..(i - 1) /\ s[i] \in T /\ i \in Nat
      BY <1>0
  <2>4. e \in Seq(T)
    <3>1. f[i - 1] \in Seq(T)
        BY <2>2, <2>3
    <3> QED BY <2>3, <3>1
  <2>5. \A j \in 0..i : IF j = i THEN g[j] = e
                                 ELSE j \in 0..(i - 1) /\ g[j] = f[j] /\ f[j] \in Seq(T)
      BY <1>0, <2>2
  <2>6. g \in [0..i -> Seq(T)]
    <3> HIDE DEF e
    <3> QED BY <1>0, <2>4, <2>5
  <2>7. g[0] = <<>>
      BY <2>2, <2>3, <2>5
  <2>8. KeptStep(g, s, S, i)
    <3>1. g[i] = e /\ g[i - 1] = f[i - 1]
        BY <2>3, <2>5
    <3> QED BY <3>1 DEF KeptStep
  <2> HIDE DEF g, e
  <2>9. ASSUME NEW j \in 1..i, j # i PROVE KeptStep(g, s, S, j)
    <3>1. j \in 1..(i - 1) /\ j \in 0..i /\ j - 1 \in 0..i /\ j - 1 # i
        BY <2>3, <2>9
    <3>2. g[j] = f[j] /\ g[j - 1] = f[j - 1]
        BY <2>5, <2>9, <3>1
    <3>3. KeptStep(f, s, S, j)
        BY <2>2, <3>1
    <3> QED BY <3>2, <3>3 DEF KeptStep
  <2>10. PrefixKept(g, T, s, S, i)
      BY <2>6, <2>7, <2>8, <2>9 DEF PrefixKept
  <2> QED BY <2>10
<1> HIDE DEF N
<1>3. 0..Len(s) \subseteq N
    BY <1>0, <1>1, <1>2, InductUpTo
<1>4. Len(s) \in N
    BY <1>0, <1>3
<1> QED BY <1>4 DEF N

\* The equation by which what is kept of a slice is defined.
LEMMA KeptEquation ==
    ASSUME NEW T, NEW s \in Seq(T), NEW S
    PROVE  PrefixKept(KeptUpTo(s, S), T, s, S, Len(s))
<1> DEFINE F(g) == [i \in 0..Len(s) |->
                      IF i = 0 THEN <<>>
                      ELSE IF s[i] \in S THEN Append(g[i - 1], s[i]) ELSE g[i - 1]]
           b == KeptUpTo(s, S)
<1>0. Len(s) \in Nat /\ \A i \in 1..Len(s) : s[i] \in T
    OBVIOUS
<1>1. PICK f : PrefixKept(f, T, s, S, Len(s))
    BY KeptExist
<1>2. f = F(f)
  <2>1. /\ f \in [0..Len(s) -> Seq(T)] /\ f[0] = <<>>
        /\ \A i \in 1..Len(s) : f[i] = IF s[i] \in S THEN Append(f[i - 1], s[i]) ELSE f[i - 1]
      BY <1>1 DEF PrefixKept, KeptStep
  <2>2. \A i \in 0..Len(s) : f[i] = F(f)[i]
    <3> TAKE i \in 0..Len(s)
    <3>1. i = 0 \/ i \in 1..Len(s)
        BY <1>0
    <3> QED BY <1>0, <2>1, <3>1
  <2>3. f = [i \in 0..Len(s) |-> f[i]]
      BY <2>1
  <2> QED BY <2>2, <2>3
<1>3. KeptUpTo(s, S) = CHOOSE g : g = F(g)
    BY DEF KeptUpTo
<1>4. b = F(b)
    BY <1>2, <1>3, Zenon
<1> HIDE DEF b
<1>5. b[0] = <<>> /\ \A i \in 1..Len(s) : KeptStep(b, s, S, i)
  <2>1. b[0] = <<>>
      BY <1>0, <1>4
  <2>2. ASSUME NEW i \in 1..Len(s) PROVE KeptStep(b, s, S, i)
    <3>1. i \in 0..Len(s) /\ i # 0
        BY <1>0
    <3>2. b[i] = IF s[i] \in S THEN Append(b[i - 1], s[i]) ELSE b[i - 1]
        BY <1>4, <3>1
    <3> QED BY <3>2 DEF KeptStep
  <2> QED BY <2>1, <2>2
<1> DEFINE N == {n \in Int : b[n] \in Seq(T)}
<1>6. 0 \in N
  <2>1. b[0] \in Seq(T)
    <3>1. <<>> \in Seq(T)
        OBVIOUS
    <3> QED BY <1>5, <3>1
  <2> QED BY <2>1
<1>7. ASSUME NEW i \in 1..Len(s), i - 1 \in N PROVE i \in N
  <2>1. b[i - 1] \in Seq(T) /\ s[i] \in T
      BY <1>0, <1>7
  <2>2. b[i] = b[i - 1] \/ b[i] = Append(b[i - 1], s[i])
      BY <1>5 DEF KeptStep
  <2>3. Append(b[i - 1], s[i]) \in Seq(T)
      BY <2>1
  <2>4. b[i] \in Seq(T)
      BY <2>1, <2>2, <2>3
  <2> QED BY <2>4
<1> HIDE DEF N
<1>8. 0..Len(s) \subseteq N
    BY <1>0, <1>6, <1>7, InductUpTo
<1>9. \A i \in 0..Len(s) : b[i] \in Seq(T)
    BY <1>8 DEF N
<1>10. b = [i \in 0..Len(s) |-> b[i]]
    BY <1>4
<1>11. b \in [0..Len(s) -> Seq(T)]
    BY <1>9, <1>10
<1> QED BY <1>5, <1>11 DEF PrefixKept, b

\* What is kept is a slice of the same elements, not longer.
LEMMA KeepSeq ==
    ASSUME NEW T, NEW s \in Seq(T), NEW S
    PROVE  Keep(s, S) \in Seq(T) /\ Len(Keep(s, S)) <= Len(s)
<1> DEFINE b == KeptUpTo(s, S)
           N == {n \in Int : Len(b[n]) <= n}
<1>0. Len(s) \in Nat /\ \A i \in 1..Len(s) : s[i] \in T
    OBVIOUS
<1>1. /\ b \in [0..Len(s) -> Seq(T)] /\ b[0] = <<>>
      /\ \A i \in 1..Len(s) : b[i] = b[i - 1] \/ b[i] = Append(b[i - 1], s[i])
  <2>1. PrefixKept(b, T, s, S, Len(s))
      BY KeptEquation
  <2> QED BY <2>1 DEF PrefixKept, KeptStep
<1> HIDE DEF b
<1>2. 0 \in N
    BY <1>1
<1>3. ASSUME NEW i \in 1..Len(s), i - 1 \in N PROVE i \in N
  <2>1. i - 1 \in 0..Len(s) /\ s[i] \in T
      BY <1>0
  <2>2. b[i - 1] \in Seq(T)
      BY <1>1, <2>1
  <2>3. Len(b[i - 1]) \in Nat /\ Len(Append(b[i - 1], s[i])) = Len(b[i - 1]) + 1
      BY <2>1, <2>2
  <2> QED BY <1>1, <1>3, <2>3
<1> HIDE DEF N
<1>4. 0..Len(s) \subseteq N
    BY <1>0, <1>2, <1>3, InductUpTo
<1>5. Len(s) \in N /\ b[Len(s)] \in Seq(T)
    BY <1>0, <1>1, <1>4
<1> QED BY <1>5 DEF N, b, Keep

\* Keeping everything changes nothing.
LEMMA KeepAll ==
    ASSUME NEW T, NEW s \in Seq(T), NEW S, \A i \in 1..Len(s) : s[i] \in S
    PROVE  Keep(s, S) = s
<1> DEFINE b == KeptUpTo(s, S)
           N == {n \in Int : Len(b[n]) = n /\ \A j \in 1..n : b[n][j] = s[j]}
<1>0. Len(s) \in Nat /\ \A i \in 1..Len(s) : s[i] \in T
    OBVIOUS
<1>1. /\ b \in [0..Len(s) -> Seq(T)] /\ b[0] = <<>>
      /\ \A i \in 1..Len(s) : b[i] = Append(b[i - 1], s[i])
    BY KeptEquation DEF PrefixKept, KeptStep
<1> HIDE DEF b
<1>2. 0 \in N
    BY <1>1
<1>3. ASSUME NEW i \in 1..Len(s), i - 1 \in N PROVE i \in N
  <2>1. i - 1 \in 0..Len(s) /\ s[i] \in T
      BY <1>0
  <2>2. b[i - 1] \in Seq(T)
      BY <1>1, <2>1
  <2>3. Len(b[i - 1]) = i - 1 /\ \A j \in 1..(i - 1) : b[i - 1][j] = s[j]
      BY <1>3
  <2> DEFINE k == b[i - 1]
  <2>4. /\ Len(Append(k, s[i])) = Len(k) + 1 /\ Append(k, s[i])[Len(k) + 1] = s[i]
        /\ \A j \in 1..Len(k) : Append(k, s[i])[j] = k[j]
    <3> HIDE DEF k
    <3>1. k \in Seq(T)
        BY <2>2 DEF k
    <3> QED BY <2>1, <3>1
  <2>5. b[i] = Append(k, s[i]) /\ Len(k) + 1 = i
      BY <1>1, <2>1, <2>3
  <2>6. Len(b[i]) = i /\ b[i][i] = s[i] /\ \A j \in 1..(i - 1) : b[i][j] = k[j]
      BY <2>3, <2>4, <2>5
  <2> QED BY <1>0, <2>3, <2>6
<1> HIDE DEF N
<1>4. 0..Len(s) \subseteq N
    BY <1>0, <1>2, <1>3, InductUpTo
<1>5. Len(s) \in N /\ b[Len(s)] \in Seq(T)
    BY <1>0, <1>1, <1>4
<1>6. /\ Keep(s, S) \in Seq(T) /\ Len(Keep(s, S)) = Len(s)
      /\ \A j \in 1..Len(s) : Keep(s, S)[j] = s[j]
    BY <1>5 DEF N, b, Keep
<1> QED BY <1>6

\* m tells where the elements of k come from: k has the elements of s up to n that
\* are in S, in their order.
Picks(m, k, s, S, n) ==
    /\ m \in [1..Len(k) -> 1..n]
    /\ \A i, j \in 1..Len(k) : i < j => m[i] < m[j]
    /\ \A i \in 1..Len(k) : k[i] = s[m[i]] /\ k[i] \in S
    /\ \A j \in 1..n : s[j] \in S => \E i \in 1..Len(k) : m[i] = j

\* Filtering picks the elements of S in their order.
LEMMA KeepPicks ==
    ASSUME NEW T, NEW s \in Seq(T), NEW S
    PROVE  \E m : Picks(m, Keep(s, S), s, S, Len(s))
<1> DEFINE b == KeptUpTo(s, S)
           N == {n \in Int : \E m : Picks(m, b[n], s, S, n)}
<1>0. Len(s) \in Nat /\ \A i \in 1..Len(s) : s[i] \in T
    OBVIOUS
<1>1. /\ b \in [0..Len(s) -> Seq(T)] /\ b[0] = <<>>
      /\ \A i \in 1..Len(s) : b[i] = IF s[i] \in S THEN Append(b[i - 1], s[i]) ELSE b[i - 1]
    BY KeptEquation DEF PrefixKept, KeptStep
<1> HIDE DEF b
<1>2. 0 \in N
  <2>1. Picks(<<>>, <<>>, s, S, 0)
      BY DEF Picks
  <2> QED BY <1>1, <2>1
<1>3. ASSUME NEW i \in 1..Len(s), i - 1 \in N PROVE i \in N
  <2>1. i - 1 \in 0..Len(s) /\ s[i] \in T /\ i \in Nat
      BY <1>0
  <2>2. b[i - 1] \in Seq(T)
      BY <1>1, <2>1
  <2>3. PICK m : Picks(m, b[i - 1], s, S, i - 1)
      BY <1>3
  <2> DEFINE k == b[i - 1]
             L == Len(k)
  <2>4. /\ k \in Seq(T) /\ L \in Nat
        /\ m \in [1..L -> 1..(i - 1)]
        /\ \A p, q \in 1..L : p < q => m[p] < m[q]
        /\ \A p \in 1..L : k[p] = s[m[p]] /\ k[p] \in S
        /\ \A j \in 1..(i - 1) : s[j] \in S => \E p \in 1..L : m[p] = j
      BY <2>2, <2>3 DEF Picks
  <2>5. CASE s[i] \notin S
    <3>1. b[i] = k
        BY <1>1, <2>5
    <3> HIDE DEF k
    <3>2. m \in [1..L -> 1..i]
        BY <2>1, <2>4
    <3>3. \A j \in 1..i : s[j] \in S => \E p \in 1..L : m[p] = j
        BY <2>1, <2>4, <2>5
    <3>4. Picks(m, k, s, S, i)
        BY <2>4, <3>2, <3>3 DEF Picks
    <3> QED BY <3>1, <3>4
  <2>6. CASE s[i] \in S
    <3> DEFINE u == Append(k, s[i])
               l == [p \in 1..(L + 1) |-> IF p = L + 1 THEN i ELSE m[p]]
    <3>1. b[i] = u
        BY <1>1, <2>6
    <3>2. /\ Len(u) = L + 1 /\ u[L + 1] = s[i]
          /\ \A p \in 1..L : u[p] = k[p]
        BY <2>1, <2>4
    <3> HIDE DEF k, u, L
    <3>3. \A p \in 1..(L + 1) : IF p = L + 1 THEN l[p] = i
                                ELSE p \in 1..L /\ l[p] = m[p] /\ m[p] \in 1..(i - 1)
        BY <2>1, <2>4
    <3>4. l \in [1..(L + 1) -> 1..i]
        BY <2>1, <2>4, <3>3
    <3> HIDE DEF l
    <3>5. \A p, q \in 1..(L + 1) : p < q => l[p] < l[q]
      <4> SUFFICES ASSUME NEW p \in 1..(L + 1), NEW q \in 1..(L + 1), p < q
                   PROVE  l[p] < l[q]
          OBVIOUS
      <4>1. p \in 1..L /\ l[p] = m[p] /\ m[p] \in 1..(i - 1)
          BY <2>4, <3>3
      <4>2. CASE q = L + 1
          BY <2>1, <3>3, <4>1, <4>2
      <4>3. CASE q # L + 1
          BY <2>1, <2>4, <3>3, <4>1, <4>3
      <4> QED BY <4>2, <4>3
    <3>6. \A p \in 1..(L + 1) : u[p] = s[l[p]] /\ u[p] \in S
      <4> TAKE p \in 1..(L + 1)
      <4>1. CASE p = L + 1
          BY <2>4, <2>6, <3>2, <3>3, <4>1
      <4>2. CASE p # L + 1
          BY <2>4, <3>2, <3>3, <4>2
      <4> QED BY <4>1, <4>2
    <3>7. \A j \in 1..i : s[j] \in S => \E p \in 1..(L + 1) : l[p] = j
      <4> SUFFICES ASSUME NEW j \in 1..i, s[j] \in S
                   PROVE  \E p \in 1..(L + 1) : l[p] = j
          OBVIOUS
      <4>1. CASE j = i
        <5>1. L + 1 \in 1..(L + 1)
            BY <2>4
        <5> QED BY <3>3, <4>1, <5>1
      <4>2. CASE j # i
        <5>1. PICK p \in 1..L : m[p] = j
            BY <2>1, <2>4, <4>2
        <5>2. p \in 1..(L + 1) /\ p # L + 1
            BY <2>4
        <5> QED BY <3>3, <5>1, <5>2
      <4> QED BY <4>1, <4>2
    <3>8. Picks(l, u, s, S, i)
        BY <3>2, <3>4, <3>5, <3>6, <3>7 DEF Picks
    <3> QED BY <3>1, <3>8
  <2> QED BY <2>5, <2>6
<1> HIDE DEF N
<1>4. 0..Len(s) \subseteq N
    BY <1>0, <1>2, <1>3, InductUpTo
<1>5. Len(s) \in N
    BY <1>0, <1>4
<1> QED BY <1>5 DEF N, b, Keep

\* What is kept and what is dropped have the bytes of the whole.
LEMMA KeepBytes ==
    ASSUME NEW T, NEW s \in Seq(T), Sized(s), NEW S, NEW R,
           \A i \in 1..Len(s) : s[i] \in S <=> s[i] \notin R
    PROVE  /\ Sized(Keep(s, S)) /\ Sized(Keep(s, R))
           /\ Bytes(s) = Bytes(Keep(s, S)) + Bytes(Keep(s, R))
<1> DEFINE a == KeptUpTo(s, S)
           b == KeptUpTo(s, R)
           f == BytesUpTo(s)
           N == {n \in Int : Sized(a[n]) /\ Sized(b[n]) /\ f[n] = Bytes(a[n]) + Bytes(b[n])}
<1>0. Len(s) \in Nat /\ \A i \in 1..Len(s) : s[i] \in T /\ s[i].size \in Nat
    BY DEF Sized
<1>1. /\ a \in [0..Len(s) -> Seq(T)] /\ a[0] = <<>>
      /\ \A i \in 1..Len(s) : a[i] = IF s[i] \in S THEN Append(a[i - 1], s[i]) ELSE a[i - 1]
    BY KeptEquation DEF PrefixKept, KeptStep
<1>2. /\ b \in [0..Len(s) -> Seq(T)] /\ b[0] = <<>>
      /\ \A i \in 1..Len(s) : b[i] = IF s[i] \in R THEN Append(b[i - 1], s[i]) ELSE b[i - 1]
    BY KeptEquation DEF PrefixKept, KeptStep
<1>3. f[0] = 0 /\ \A i \in 1..Len(s) : f[i] = f[i - 1] + s[i].size
    BY BytesEquation
<1> HIDE DEF a, b, f
<1>4. 0 \in N
  <2>1. Sized(<<>>)
      BY DEF Sized
  <2> QED BY <1>1, <1>2, <1>3, <2>1, BytesEmpty
<1>5. ASSUME NEW i \in 1..Len(s), i - 1 \in N PROVE i \in N
  <2> DEFINE A == a[i - 1]
             B == b[i - 1]
  <2>1. i - 1 \in 0..Len(s) /\ s[i] \in T /\ s[i].size \in Nat
      BY <1>0
  <2>2. A \in Seq(T) /\ B \in Seq(T)
      BY <1>1, <1>2, <2>1
  <2>3. Sized(A) /\ Sized(B) /\ f[i - 1] = Bytes(A) + Bytes(B)
      BY <1>5
  <2>4. f[i] = f[i - 1] + s[i].size
      BY <1>3
  <2>5. Bytes(A) \in Nat /\ Bytes(B) \in Nat
      BY <2>3, BytesNat
  <2>6. /\ a[i] = IF s[i] \in S THEN Append(A, s[i]) ELSE A
        /\ b[i] = IF s[i] \in R THEN Append(B, s[i]) ELSE B
      BY <1>1, <1>2
  <2> HIDE DEF A, B
  <2>7. CASE s[i] \in S
    <3>1. a[i] = Append(A, s[i]) /\ b[i] = B
        BY <2>6, <2>7
    <3>2. Sized(Append(A, s[i])) /\ Bytes(Append(A, s[i])) = Bytes(A) + s[i].size
        BY <2>1, <2>2, <2>3, BytesAppend
    <3>3. f[i] = Bytes(a[i]) + Bytes(b[i])
        BY <2>1, <2>3, <2>4, <2>5, <3>1, <3>2
    <3>4. Sized(a[i]) /\ Sized(b[i])
        BY <2>3, <3>1, <3>2
    <3> QED BY <1>0, <3>3, <3>4
  <2>8. CASE s[i] \notin S
    <3>1. a[i] = A /\ b[i] = Append(B, s[i])
        BY <2>6, <2>8
    <3>2. Sized(Append(B, s[i])) /\ Bytes(Append(B, s[i])) = Bytes(B) + s[i].size
        BY <2>1, <2>2, <2>3, BytesAppend
    <3>3. f[i] = Bytes(a[i]) + Bytes(b[i])
        BY <2>1, <2>3, <2>4, <2>5, <3>1, <3>2
    <3>4. Sized(a[i]) /\ Sized(b[i])
        BY <2>3, <3>1, <3>2
    <3> QED BY <1>0, <3>3, <3>4
  <2> QED BY <2>7, <2>8
<1> HIDE DEF N
<1>6. 0..Len(s) \subseteq N
    BY <1>0, <1>4, <1>5, InductUpTo
<1>7. Len(s) \in N
    BY <1>0, <1>6
<1> QED BY <1>7 DEF N, a, b, f, Keep, Bytes

\* k has the elements of s that are in S, and no others.
KeptOf(k, s, S) ==
    /\ \A i \in 1..Len(k) : k[i] \in S /\ \E j \in 1..Len(s) : k[i] = s[j]
    /\ \A j \in 1..Len(s) : s[j] \in S => \E i \in 1..Len(k) : k[i] = s[j]

\* Where an element of what is kept comes from, and where an element of the slice is
\* kept.
LEMMA KeepElements ==
    ASSUME NEW T, NEW s \in Seq(T), NEW S
    PROVE  KeptOf(Keep(s, S), s, S)
<1> DEFINE k == Keep(s, S)
<1>1. PICK m : Picks(m, k, s, S, Len(s))
    BY KeepPicks
<1> HIDE DEF k
<1>2. /\ m \in [1..Len(k) -> 1..Len(s)]
      /\ \A i \in 1..Len(k) : k[i] = s[m[i]] /\ k[i] \in S
      /\ \A j \in 1..Len(s) : s[j] \in S => \E i \in 1..Len(k) : m[i] = j
    BY <1>1 DEF Picks
<1>3. \A i \in 1..Len(k) : m[i] \in 1..Len(s)
    BY <1>2
<1>4. \A i \in 1..Len(k) : k[i] \in S /\ \E j \in 1..Len(s) : k[i] = s[j]
    BY <1>2, <1>3
<1>5. ASSUME NEW j \in 1..Len(s), s[j] \in S PROVE \E i \in 1..Len(k) : k[i] = s[j]
  <2>1. PICK i \in 1..Len(k) : m[i] = j
      BY <1>2, <1>5
  <2>2. k[i] = s[m[i]]
      BY <1>2
  <2> QED BY <2>1, <2>2
<1> QED BY <1>4, <1>5 DEF k, KeptOf

\* Elements that differ pairwise still do when some are kept.
LEMMA KeepApart ==
    ASSUME NEW T, NEW s \in Seq(T), NEW S,
           \A i, j \in 1..Len(s) : i # j => s[i] # s[j]
    PROVE  \A i, j \in 1..Len(Keep(s, S)) : i # j => Keep(s, S)[i] # Keep(s, S)[j]
<1> DEFINE k == Keep(s, S)
<1>1. PICK m : Picks(m, k, s, S, Len(s))
    BY KeepPicks
<1>2. k \in Seq(T)
    BY KeepSeq
<1> HIDE DEF k
<1>3. /\ m \in [1..Len(k) -> 1..Len(s)]
      /\ \A i, j \in 1..Len(k) : i < j => m[i] < m[j]
      /\ \A i \in 1..Len(k) : k[i] = s[m[i]]
    BY <1>1 DEF Picks
<1>4. ASSUME NEW i \in 1..Len(k), NEW j \in 1..Len(k), i # j PROVE k[i] # k[j]
  <2>1. m[i] \in 1..Len(s) /\ m[j] \in 1..Len(s)
      BY <1>3
  <2>2. i \in Int /\ j \in Int /\ Len(s) \in Nat
      BY <1>2
  <2>3. m[i] # m[j]
      BY <1>3, <1>4, <2>1, <2>2
  <2> QED BY <1>3, <2>1, <2>3
<1> QED BY <1>4 DEF k

\* If a single element is to be kept, it is what is kept.
LEMMA KeepOne ==
    ASSUME NEW T, NEW s \in Seq(T), NEW S, NEW j \in 1..Len(s),
           \A i \in 1..Len(s) : s[i] \in S <=> i = j
    PROVE  Keep(s, S) = <<s[j]>>
<1> DEFINE k == Keep(s, S)
<1>1. PICK m : Picks(m, k, s, S, Len(s))
    BY KeepPicks
<1>2. k \in Seq(T) /\ Len(k) \in Nat /\ s[j] \in T
    BY KeepSeq
<1> HIDE DEF k
<1>3. /\ m \in [1..Len(k) -> 1..Len(s)]
      /\ \A p, q \in 1..Len(k) : p < q => m[p] < m[q]
      /\ \A p \in 1..Len(k) : k[p] = s[m[p]] /\ k[p] \in S
      /\ \E p \in 1..Len(k) : m[p] = j
    BY <1>1 DEF Picks
<1>4. \A p \in 1..Len(k) : m[p] \in 1..Len(s) /\ s[m[p]] \in S
    BY <1>3
<1>5. \A p \in 1..Len(k) : m[p] = j
    BY <1>4
<1>6. ASSUME Len(k) > 1 PROVE FALSE
  <2>1. 1 \in 1..Len(k) /\ 2 \in 1..Len(k) /\ j \in Int
      BY <1>2, <1>6
  <2> QED BY <1>3, <1>5, <2>1
<1>7. Len(k) = 1
    BY <1>2, <1>3, <1>6
<1>8. k[1] = s[j]
    BY <1>3, <1>5, <1>7
<1>9. k = <<s[j]>>
    BY <1>2, <1>7, <1>8
<1> QED BY <1>9 DEF k

\* Nothing is kept of a slice without elements of S.
LEMMA KeepNone ==
    ASSUME NEW T, NEW s \in Seq(T), NEW S, \A i \in 1..Len(s) : s[i] \notin S
    PROVE  Keep(s, S) = <<>>
<1> DEFINE k == Keep(s, S)
<1>0. k \in Seq(T) /\ KeptOf(k, s, S)
    BY KeepSeq, KeepElements
<1> HIDE DEF k
<1>1. k \in Seq(T) /\ \A i \in 1..Len(k) : k[i] \in S /\ \E j \in 1..Len(s) : k[i] = s[j]
    BY <1>0 DEF KeptOf
<1>2. ~\E i \in 1..Len(k) : TRUE
    BY <1>1
<1>3. Len(k) = 0
    BY <1>1, <1>2
<1>4. k = <<>>
    BY <1>1, <1>3
<1> QED BY <1>4 DEF k

-----------------------------------------------------------------------------
(* Slices without duplicates *)

\* What is kept of a slice without duplicates has none, and is what it had of the set.
LEMMA KeepSet ==
    ASSUME NEW T, NEW s \in Seq(T), IsInjective(s), NEW S
    PROVE  /\ Keep(s, S) \in Seq(T) /\ IsInjective(Keep(s, S))
           /\ ToSet(Keep(s, S)) = ToSet(s) \intersect S
<1> DEFINE k == Keep(s, S)
<1>1. k \in Seq(T)
    BY KeepSeq
<1>2. /\ DOMAIN s = 1..Len(s) /\ DOMAIN k = 1..Len(k)
    BY <1>1
<1>3. \A i, j \in 1..Len(s) : i # j => s[i] # s[j]
    BY <1>2 DEF IsInjective
<1>4. \A i, j \in 1..Len(k) : i # j => k[i] # k[j]
    BY <1>3, KeepApart
<1>5. /\ \A i \in 1..Len(k) : k[i] \in S /\ \E j \in 1..Len(s) : k[i] = s[j]
      /\ \A j \in 1..Len(s) : s[j] \in S => \E i \in 1..Len(k) : k[i] = s[j]
  <2>1. KeptOf(k, s, S)
      BY KeepElements
  <2> QED BY <2>1 DEF KeptOf
<1> HIDE DEF k
<1>6. IsInjective(k)
    BY <1>2, <1>4 DEF IsInjective
<1>7. ToSet(k) = ToSet(s) \intersect S
  <2>1. ASSUME NEW x \in ToSet(k) PROVE x \in ToSet(s) /\ x \in S
    <3>1. PICK i \in 1..Len(k) : x = k[i]
        BY <1>2, <2>1 DEF ToSet
    <3>2. PICK j \in 1..Len(s) : x = s[j]
        BY <1>5, <3>1
    <3> QED BY <1>2, <1>5, <3>1, <3>2 DEF ToSet
  <2>2. ASSUME NEW x \in ToSet(s), x \in S PROVE x \in ToSet(k)
    <3>1. PICK j \in 1..Len(s) : x = s[j]
        BY <1>2, <2>2 DEF ToSet
    <3>2. PICK i \in 1..Len(k) : x = k[i]
        BY <1>5, <2>2, <3>1
    <3> QED BY <1>2, <3>2 DEF ToSet
  <2> QED BY <2>1, <2>2
<1> QED BY <1>1, <1>6, <1>7 DEF k

\* Appending an element that a slice does not have.
LEMMA AppendSet ==
    ASSUME NEW T, NEW s \in Seq(T), IsInjective(s), NEW e \in T, e \notin ToSet(s)
    PROVE  /\ Append(s, e) \in Seq(T) /\ IsInjective(Append(s, e))
           /\ ToSet(Append(s, e)) = ToSet(s) \union {e}
<1> DEFINE u == Append(s, e)
<1>1. /\ u \in Seq(T) /\ DOMAIN u = 1..(Len(s) + 1) /\ DOMAIN s = 1..Len(s) /\ Len(s) \in Nat
      /\ u[Len(s) + 1] = e /\ \A i \in 1..Len(s) : u[i] = s[i]
    OBVIOUS
<1> HIDE DEF u
<1>2. IsInjective(u)
    BY <1>1 DEF IsInjective, ToSet
<1>3. ToSet(u) = ToSet(s) \union {e}
    BY <1>1 DEF ToSet
<1> QED BY <1>1, <1>2, <1>3 DEF u

\* Inserting an element that a slice does not have.
LEMMA InsertSet ==
    ASSUME NEW T, NEW s \in Seq(T), IsInjective(s), NEW e \in T, e \notin ToSet(s),
           NEW k \in 1..(Len(s) + 1)
    PROVE  /\ InsertAt(s, k, e) \in Seq(T) /\ IsInjective(InsertAt(s, k, e))
           /\ ToSet(InsertAt(s, k, e)) = ToSet(s) \union {e}
<1> DEFINE a == SubSeq(s, 1, k - 1)
           b == SubSeq(s, k, Len(s))
           u == InsertAt(s, k, e)
<1>1. /\ a \in Seq(T) /\ Len(a) = k - 1 /\ \A i \in 1..(k - 1) : a[i] = s[i]
    OBVIOUS
<1>2. /\ b \in Seq(T) /\ Len(b) = Len(s) - k + 1 /\ \A i \in 1..(Len(s) - k + 1) : b[i] = s[k + i - 1]
    OBVIOUS
<1>3. u = (a \o <<e>>) \o b
    BY DEF InsertAt
<1> HIDE DEF a, b, u
<1> DEFINE c == a \o <<e>>
<1>4. /\ c \in Seq(T) /\ Len(c) = k /\ c[k] = e /\ \A i \in 1..(k - 1) : c[i] = s[i]
    BY <1>1
<1> HIDE DEF c
<1>5. /\ u \in Seq(T) /\ Len(u) = Len(s) + 1 /\ u[k] = e
      /\ \A i \in 1..(k - 1) : u[i] = s[i]
      /\ \A i \in (k + 1)..(Len(s) + 1) : u[i] = s[i - 1]
  <2>0. u = c \o b
      BY <1>3 DEF c
  <2>1. /\ u \in Seq(T) /\ Len(u) = Len(c) + Len(b)
        /\ \A i \in 1..Len(c) : u[i] = c[i]
        /\ \A i \in (Len(c) + 1)..(Len(c) + Len(b)) : u[i] = b[i - Len(c)]
      BY <1>2, <1>4, <2>0
  <2>2. Len(u) = Len(s) + 1 /\ k \in Int /\ Len(s) \in Nat
      BY <1>2, <1>4, <2>1
  <2>3. u[k] = e /\ \A i \in 1..(k - 1) : u[i] = s[i]
      BY <1>4, <2>1
  <2>4. ASSUME NEW i \in (k + 1)..(Len(s) + 1) PROVE u[i] = s[i - 1]
    <3>1. u[i] = b[i - k] /\ i - k \in 1..(Len(s) - k + 1)
        BY <1>2, <1>4, <2>1, <2>2
    <3>2. b[i - k] = s[k + (i - k) - 1] /\ k + (i - k) - 1 = i - 1
        BY <1>2, <2>2, <3>1
    <3> QED BY <3>1, <3>2
  <2> QED BY <2>1, <2>2, <2>3, <2>4
<1>6. /\ DOMAIN u = 1..(Len(s) + 1) /\ DOMAIN s = 1..Len(s) /\ Len(s) \in Nat
    BY <1>5
<1>7. IsInjective(u)
  <2> SUFFICES ASSUME NEW i \in 1..(Len(s) + 1), NEW j \in 1..(Len(s) + 1), i < j, u[i] = u[j]
               PROVE  FALSE
      BY <1>6 DEF IsInjective
  <2> DEFINE f(n) == IF n < k THEN n ELSE n - 1
  <2>1. ASSUME NEW n \in 1..(Len(s) + 1), n # k PROVE f(n) \in 1..Len(s) /\ u[n] = s[f(n)]
      BY <1>5, <1>6, <2>1
  <2>2. CASE i # k /\ j # k
    <3>1. f(i) # f(j)
        BY <2>2
    <3> QED BY <1>6, <2>1, <2>2, <3>1 DEF IsInjective
  <2>3. CASE i = k \/ j = k
    <3>1. PICK n \in 1..(Len(s) + 1) : n # k /\ u[n] = e
        BY <1>5, <2>3
    <3>2. f(n) \in DOMAIN s /\ s[f(n)] = e
        BY <1>6, <2>1, <3>1
    <3> HIDE DEF f
    <3> QED BY <3>2 DEF ToSet
  <2> QED BY <2>2, <2>3
<1>8. ToSet(u) = ToSet(s) \union {e}
  <2>1. ASSUME NEW n \in 1..(Len(s) + 1) PROVE u[n] \in ToSet(s) \union {e}
    <3>1. CASE n < k
      <4>1. n \in 1..(k - 1) /\ n \in 1..Len(s)
          BY <1>6, <3>1
      <4> QED BY <1>5, <1>6, <4>1 DEF ToSet
    <3>2. CASE n = k
        BY <1>5, <3>2
    <3>3. CASE n > k
      <4>1. n \in (k + 1)..(Len(s) + 1) /\ n - 1 \in 1..Len(s)
          BY <1>6, <3>3
      <4> QED BY <1>5, <1>6, <4>1 DEF ToSet
    <3> QED BY <3>1, <3>2, <3>3
  <2>2. ASSUME NEW n \in 1..Len(s) PROVE \E i \in DOMAIN u : u[i] = s[n]
    <3>1. CASE n < k
      <4>1. n \in 1..(k - 1) /\ n \in DOMAIN u
          BY <1>6, <3>1
      <4> QED BY <1>5, <4>1
    <3>2. CASE n >= k
      <4>1. n + 1 \in (k + 1)..(Len(s) + 1) /\ n + 1 \in DOMAIN u /\ (n + 1) - 1 = n
          BY <1>6, <3>2
      <4>2. u[n + 1] = s[(n + 1) - 1]
          BY <1>5, <4>1
      <4> QED BY <4>1, <4>2
    <3> QED BY <3>1, <3>2
  <2>3. k \in DOMAIN u
      BY <1>6
  <2>4. ToSet(u) \subseteq ToSet(s) \union {e}
      BY <1>6, <2>1 DEF ToSet
  <2>5. ToSet(s) \union {e} \subseteq ToSet(u)
      BY <1>5, <1>6, <2>2, <2>3 DEF ToSet
  <2> QED BY <2>4, <2>5
<1> QED BY <1>5, <1>7, <1>8 DEF u

\* Appending adds one element to the set of a slice.
LEMMA AppendToSet ==
    ASSUME NEW T, NEW s \in Seq(T), NEW e \in T
    PROVE  Append(s, e) \in Seq(T) /\ ToSet(Append(s, e)) = ToSet(s) \union {e}
<1> DEFINE u == Append(s, e)
<1>1. /\ u \in Seq(T) /\ DOMAIN u = 1..(Len(s) + 1) /\ DOMAIN s = 1..Len(s) /\ Len(s) \in Nat
      /\ u[Len(s) + 1] = e /\ \A i \in 1..Len(s) : u[i] = s[i]
    OBVIOUS
<1> HIDE DEF u
<1>2. ToSet(u) = ToSet(s) \union {e}
    BY <1>1 DEF ToSet
<1> QED BY <1>1, <1>2 DEF u

\* Removing the element at a position.
LEMMA RemoveAtSet ==
    ASSUME NEW T, NEW s \in Seq(T), NEW n \in 1..Len(s)
    PROVE  /\ RemoveAt(s, n) \in Seq(T)
           /\ ToSet(RemoveAt(s, n)) = {s[i] : i \in (1..Len(s)) \ {n}}
           /\ IsInjective(s) => IsInjective(RemoveAt(s, n))
<1> DEFINE a == SubSeq(s, 1, n - 1)
           b == SubSeq(s, n + 1, Len(s))
           u == RemoveAt(s, n)
           from(i) == IF i < n THEN i ELSE i + 1
           D == 1..(Len(s) - 1)
<1>1. /\ a \in Seq(T) /\ Len(a) = n - 1 /\ \A i \in 1..(n - 1) : a[i] = s[i]
    OBVIOUS
<1>2. /\ b \in Seq(T) /\ Len(b) = Len(s) - n /\ \A i \in 1..(Len(s) - n) : b[i] = s[n + i]
    OBVIOUS
<1>3. u = a \o b
    BY DEF RemoveAt
<1> HIDE DEF a, b, u
<1>4. /\ u \in Seq(T) /\ Len(u) = Len(s) - 1
      /\ \A i \in 1..Len(a) : u[i] = a[i]
      /\ \A i \in (Len(a) + 1)..(Len(a) + Len(b)) : u[i] = b[i - Len(a)]
    BY <1>1, <1>2, <1>3
<1>5. ASSUME NEW i \in D PROVE u[i] = s[from(i)] /\ from(i) \in (1..Len(s)) \ {n}
  <2>1. CASE i < n
      BY <1>1, <1>4, <2>1
  <2>2. CASE i >= n
    <3>1. /\ i \in (Len(a) + 1)..(Len(a) + Len(b)) /\ i - Len(a) = i - n + 1
          /\ i - n + 1 \in 1..(Len(s) - n) /\ n + (i - n + 1) = i + 1
        BY <1>1, <1>2, <2>2
    <3>2. u[i] = b[i - n + 1] /\ b[i - n + 1] = s[n + (i - n + 1)]
        BY <1>2, <1>4, <3>1
    <3> QED BY <2>2, <3>1, <3>2
  <2> QED BY <2>1, <2>2
<1>6. ASSUME NEW j \in (1..Len(s)) \ {n} PROVE \E i \in D : from(i) = j
  <2>1. CASE j < n
      BY <2>1
  <2>2. CASE j > n
    <3>1. j - 1 \in D /\ from(j - 1) = j
        BY <2>2
    <3> QED BY <3>1
  <2> QED BY <2>1, <2>2
<1>7. DOMAIN u = D /\ DOMAIN s = 1..Len(s)
    BY <1>4
<1>8. \A i, j \in D : i # j => from(i) # from(j)
    OBVIOUS
<1> HIDE DEF from, D
<1>9. ToSet(u) = {s[i] : i \in (1..Len(s)) \ {n}}
  <2>1. \A i \in D : u[i] \in {s[j] : j \in (1..Len(s)) \ {n}}
      BY <1>5
  <2>2. \A j \in (1..Len(s)) \ {n} : \E i \in D : s[j] = u[i]
      BY <1>5, <1>6
  <2> QED BY <1>7, <2>1, <2>2 DEF ToSet
<1>10. ASSUME IsInjective(s) PROVE IsInjective(u)
    BY <1>5, <1>7, <1>8, <1>10 DEF IsInjective
<1> QED BY <1>4, <1>9, <1>10 DEF u

\* What RemoveDevice does to an index: one entry of the id goes, no other does, and
\* none of the id is left when there was but one.
LEMMA RemoveFirstSet ==
    ASSUME NEW T, NEW s \in Seq(T), NEW e
    PROVE  /\ RemoveFirst(s, e) \in Seq(T)
           /\ ToSet(RemoveFirst(s, e)) \subseteq ToSet(s)
           /\ ToSet(s) \ {e} \subseteq ToSet(RemoveFirst(s, e))
           /\ IsInjective(s) => /\ IsInjective(RemoveFirst(s, e))
                                /\ ToSet(RemoveFirst(s, e)) = ToSet(s) \ {e}
<1> DEFINE u == RemoveFirst(s, e)
           I == {i \in 1..Len(s) : s[i] = e}
<1>0. ToSet(s) = {s[i] : i \in 1..Len(s)} /\ DOMAIN s = 1..Len(s)
    BY DEF ToSet
<1>1. CASE I = {}
  <2>1. u = s
      BY <1>1 DEF RemoveFirst
  <2>2. e \notin ToSet(s)
      BY <1>0, <1>1
  <2> QED BY <2>1, <2>2
<1>2. CASE I # {}
  <2> DEFINE n == Min(I)
  <2>1. u = RemoveAt(s, n)
      BY <1>2 DEF RemoveFirst, SelectInSeq
  <2>2. n \in 1..Len(s) /\ s[n] = e
    <3>1. I \subseteq Nat
        OBVIOUS
    <3> HIDE DEF I
    <3>2. \E x \in I : \A y \in I : x <= y
        BY <1>2, <3>1, LeastElement
    <3>3. n \in I
        BY <3>2 DEF Min
    <3> QED BY <3>3 DEF I
  <2> HIDE DEF n, u, I
  <2>3. /\ u \in Seq(T) /\ ToSet(u) = {s[i] : i \in (1..Len(s)) \ {n}}
        /\ IsInjective(s) => IsInjective(u)
      BY <2>1, <2>2, RemoveAtSet
  <2>4. ToSet(u) \subseteq ToSet(s) /\ ToSet(s) \ {e} \subseteq ToSet(u)
      BY <1>0, <2>2, <2>3
  <2>5. ASSUME IsInjective(s) PROVE e \notin ToSet(u)
      BY <1>0, <2>2, <2>3, <2>5 DEF IsInjective
  <2> QED BY <2>3, <2>4, <2>5 DEF u
<1> QED BY <1>1, <1>2

-----------------------------------------------------------------------------
(* Loops in general *)

\* f holds the values of a loop of n rounds that starts at x: after each round.
Iterates(f, X, x, step, n) ==
    /\ f \in [0..n -> X] /\ f[0] = x
    /\ \A i \in 1..n : f[i] = step[i][f[i - 1]]

\* A loop of n rounds has a run: the values after each round, by induction over them.
LEMMA LoopRuns ==
    ASSUME NEW n \in Nat, NEW X, NEW x \in X, NEW step \in [1..n -> [X -> X]]
    PROVE  \E f : Iterates(f, X, x, step, n)
<1> DEFINE N == {m \in 0..n : \E f : Iterates(f, X, x, step, m)}
<1>1. 0 \in N
  <2>1. Iterates([i \in 0..0 |-> x], X, x, step, 0)
      BY DEF Iterates
  <2> QED BY <2>1
<1>2. ASSUME NEW i \in 1..n, i - 1 \in N PROVE i \in N
  <2>1. PICK f : Iterates(f, X, x, step, i - 1)
      BY <1>2
  <2> DEFINE e == step[i][f[i - 1]]
             g == [j \in 0..i |-> IF j = i THEN e ELSE f[j]]
  <2>2. /\ f \in [0..(i - 1) -> X] /\ f[0] = x
        /\ \A j \in 1..(i - 1) : f[j] = step[j][f[j - 1]]
      BY <2>1 DEF Iterates
  <2>3. i - 1 \in 0..(i - 1) /\ i \in Nat
      OBVIOUS
  <2>4. e \in X
    <3>1. f[i - 1] \in X /\ step[i] \in [X -> X]
        BY <2>2, <2>3
    <3> QED BY <3>1
  <2>5. \A j \in 0..i : IF j = i THEN g[j] = e
                                 ELSE j \in 0..(i - 1) /\ g[j] = f[j] /\ f[j] \in X
      BY <2>2
  <2>6. g \in [0..i -> X]
    <3> HIDE DEF e
    <3> QED BY <2>4, <2>5
  <2>7. g[0] = x /\ g[i] = step[i][g[i - 1]]
      BY <2>2, <2>3, <2>5
  <2> HIDE DEF g, e
  <2>8. ASSUME NEW j \in 1..i, j # i PROVE g[j] = step[j][g[j - 1]]
    <3>1. j \in 1..(i - 1) /\ j \in 0..i /\ j - 1 \in 0..i /\ j - 1 # i
        BY <2>3, <2>8
    <3>2. g[j] = f[j] /\ g[j - 1] = f[j - 1]
        BY <2>5, <2>8, <3>1
    <3> QED BY <2>2, <3>1, <3>2
  <2>9. Iterates(g, X, x, step, i)
      BY <2>6, <2>7, <2>8 DEF Iterates
  <2> QED BY <2>9
<1> HIDE DEF N
<1>3. 0..n \subseteq N
    BY <1>1, <1>2, InductUpTo
<1>4. n \in N
    BY <1>3
<1> QED BY <1>4 DEF N

=============================================================================
