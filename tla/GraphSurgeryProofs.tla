-------------------------- MODULE GraphSurgeryProofs --------------------------
(***************************************************************************)
(* Proofs about the rewriting of graphs: no rewriting changes the          *)
(* mathematics of a graph, for every size of the pool unit, every graph of *)
(* an exporter and every number of pools, folds and groups.                *)
(*                                                                         *)
(* The evaluation of a graph is followed node by node, so that two graphs  *)
(* mean the same if the nodes in which they differ do; what a node makes   *)
(* is then a matter of indices: the blocks of a dense convolution, the     *)
(* permuted rows of a weight, the windows of a cascade.  KeptSoFar is the  *)
(* inductive invariant of the three loops, one after the other.            *)
(***************************************************************************)
EXTENDS GraphSurgery, SequenceTheorems, FiniteSetTheorems, FunctionTheorems, TLAPS

-------------------------------------------------------------------------------
(* Tensors and their indices.                                               *)

\* Naming an argument, as Once does, changes nothing.
LEMMA TensorIs ==
  ASSUME NEW sh, NEW At(_)
  PROVE  Tensor(sh, At) = [shape |-> sh, at |-> [i \in Indices(sh) |-> At(i)]]
BY DEF Tensor, Once

LEMMA LargestIn ==
  ASSUME NEW t \in SUBSET (1..3), t # {}
  PROVE  Max(t) \in t
<1>1. CASE 3 \in t
  <2>1. \A y \in t : 3 >= y
    OBVIOUS
  <2>2. QED
    BY <1>1, <2>1, Zenon DEF Max
<1>2. CASE 3 \notin t /\ 2 \in t
  <2>1. \A y \in t : 2 >= y
    BY <1>2
  <2>2. QED
    BY <1>2, <2>1, Zenon DEF Max
<1>3. CASE 3 \notin t /\ 2 \notin t
  <2>1. \A y \in t : y = 1
    BY <1>3
  <2>2. 1 \in t
    BY <2>1, Zenon
  <2>3. \A y \in t : 1 >= y
    BY <2>1
  <2>4. QED
    BY <2>2, <2>3, Zenon DEF Max
<1>4. QED
  BY <1>1, <1>2, <1>3, Zenon

Factor(s, t, k) == IF k \in t THEN s[k] ELSE 1

\* The product of the elements of s at the places t.
ProductAt(s, t) == (Factor(s, t, 1) * Factor(s, t, 2)) * Factor(s, t, 3)

Iterated(s, f) ==
  f = [t \in SUBSET DOMAIN s |-> IF t = {} THEN 1 ELSE f[t \ {Max(t)}] * s[Max(t)]]

LEMMA ProdIs ==
  ASSUME NEW s
  PROVE  Prod(s) = (CHOOSE f : Iterated(s, f))[DOMAIN s]
BY Zenon DEF Prod, FoldLeft, MapThenFoldSet, Iterated

LEMMA LessOne ==
  ASSUME NEW s, DOMAIN s \subseteq 1..3, \A a \in DOMAIN s : s[a] \in Nat,
         NEW t \in SUBSET DOMAIN s, NEW m \in t
  PROVE  ProductAt(s, t) = ProductAt(s, t \ {m}) * s[m]
<1> DEFINE F(k) == Factor(s, t, k)
           G(k) == Factor(s, t \ {m}, k)
<1>1. \A k \in 1..3 : F(k) \in Nat
  BY DEF Factor
<1>2. \A k \in 1..3 : k # m => G(k) = F(k)
  BY Zenon DEF Factor
<1>3. F(m) = s[m] /\ G(m) = 1
  BY Zenon DEF Factor
<1>4. m \in 1..3
  OBVIOUS
<1>5. ProductAt(s, t) = (F(1) * F(2)) * F(3) /\ ProductAt(s, t \ {m}) = (G(1) * G(2)) * G(3)
  BY Zenon DEF ProductAt
<1>6. s[m] \in Nat
  BY <1>1, <1>3, <1>4
<1> HIDE DEF F, G
<1>7. CASE m = 1
  <2>1. G(1) = 1 /\ G(2) = F(2) /\ G(3) = F(3) /\ F(1) = s[m]
    BY <1>2, <1>3, <1>7
  <2>2. F(2) \in Nat /\ F(3) \in Nat
    BY <1>1
  <2>3. \A p, q, r \in Nat : (p * q) * r = ((1 * q) * r) * p
    OBVIOUS
  <2>4. QED
    BY <1>5, <1>6, <2>1, <2>2, <2>3
<1>8. CASE m = 2
  <2>1. G(1) = F(1) /\ G(2) = 1 /\ G(3) = F(3) /\ F(2) = s[m]
    BY <1>2, <1>3, <1>8
  <2>2. F(1) \in Nat /\ F(3) \in Nat
    BY <1>1
  <2>3. \A p, q, r \in Nat : (p * q) * r = ((p * 1) * r) * q
    OBVIOUS
  <2>4. QED
    BY <1>5, <1>6, <2>1, <2>2, <2>3
<1>9. CASE m = 3
  <2>1. G(1) = F(1) /\ G(2) = F(2) /\ G(3) = 1 /\ F(3) = s[m]
    BY <1>2, <1>3, <1>9
  <2>2. F(1) \in Nat /\ F(2) \in Nat
    BY <1>1
  <2>3. \A p, q, r \in Nat : (p * q) * r = ((p * q) * 1) * r
    OBVIOUS
  <2>4. QED
    BY <1>5, <1>6, <2>1, <2>2, <2>3
<1>10. QED
  BY <1>4, <1>7, <1>8, <1>9

\* The product of a shape of at most three axes.
LEMMA ProdOfShape ==
  ASSUME NEW s, DOMAIN s \subseteq 1..3, \A a \in DOMAIN s : s[a] \in Nat
  PROVE  Prod(s) = ProductAt(s, DOMAIN s)
<1> DEFINE D == DOMAIN s
           g == [t \in SUBSET D |-> ProductAt(s, t)]
<1>1. \A t \in SUBSET D : t # {} => Max(t) \in t
  BY LargestIn
<1>2. \A t \in SUBSET D : t # {} => ProductAt(s, t) = ProductAt(s, t \ {Max(t)}) * s[Max(t)]
  BY <1>1, LessOne, Zenon
<1>3. ProductAt(s, {}) = 1
  BY DEF ProductAt, Factor
<1>4. Iterated(s, g)
  <2>1. ASSUME NEW t \in SUBSET D
        PROVE g[t] = IF t = {} THEN 1 ELSE g[t \ {Max(t)}] * s[Max(t)]
    BY <1>2, <1>3, Zenon
  <2>2. g = [t \in SUBSET D |-> g[t]]
    BY Zenon
  <2> HIDE DEF g
  <2>3. QED
    BY <2>1, <2>2, Zenon DEF Iterated
<1> DEFINE f == CHOOSE h : Iterated(s, h)
<1>5. Iterated(s, f)
  BY <1>4, Zenon
<1> HIDE DEF f, g
<1>6. \A t \in SUBSET D : f[t] = IF t = {} THEN 1 ELSE f[t \ {Max(t)}] * s[Max(t)]
  BY <1>5, Zenon DEF Iterated
<1> DEFINE R == {t \in SUBSET D : f[t] = ProductAt(s, t)}
           Right(t) == t \in R
<1>7. Right({})
  BY <1>3, <1>6, Zenon
<1>8. ASSUME NEW t \in SUBSET D, \A m \in t : Right(t \ {m})
      PROVE Right(t)
  BY <1>1, <1>2, <1>6, <1>7, <1>8, Zenon
<1> HIDE DEF R
<1>9. \A x \in D : Right({x})
  <2>1. \A x \in D : \A m \in {x} : {x} \ {m} = {}
    BY Zenon
  <2>2. \A x \in D : {x} \in SUBSET D
    BY Zenon
  <2>3. QED
    BY <1>7, <1>8, <2>1, <2>2, Zenon
<1>10. \A x, y \in D : Right({x, y})
  <2>1. \A x, y \in D : \A m \in {x, y} : {x, y} \ {m} \in {{}, {x}, {y}}
    BY SMT
  <2>2. \A x, y \in D : {x, y} \in SUBSET D
    BY Zenon
  <2>3. ASSUME NEW x \in D, NEW y \in D
        PROVE Right({x, y})
    <3>1. ASSUME NEW m \in {x, y}
          PROVE Right({x, y} \ {m})
      <4> DEFINE rest == {x, y} \ {m}
      <4>1. rest \in {{}, {x}, {y}}
        BY <2>1, Zenon
      <4>2. {} \in R /\ {x} \in R /\ {y} \in R
        BY <1>7, <1>9, Zenon
      <4> HIDE DEF rest
      <4>3. rest = {} \/ rest = {x} \/ rest = {y}
        BY <4>1, SMT
      <4>4. rest \in R
        BY <4>2, <4>3, SMT
      <4>5. QED
        BY <4>4, Zenon DEF rest
    <3>2. QED
      BY <1>8, <2>2, <3>1, Zenon
  <2>4. QED
    BY <2>3, Zenon
<1>11. Right(D)
  <2>1. CASE \E x \in 1..3 : x \notin D
    <3>1. PICK x \in 1..3 : x \notin D
      BY <2>1, Zenon
    <3>2. D = {} \/ (\E y \in D : D = {y}) \/ (\E y, z \in D : D = {y, z})
      <4>1. PICK y \in 1..3, z \in 1..3 : 1..3 = {x, y, z} 
        <5>1. x = 1 \/ x = 2 \/ x = 3
          BY <3>1
        <5>2. 1..3 = {1, 2, 3} /\ 1..3 = {2, 1, 3} /\ 1..3 = {3, 1, 2}
          OBVIOUS
        <5>3. 1 \in 1..3 /\ 2 \in 1..3 /\ 3 \in 1..3
          OBVIOUS
        <5>4. QED
          BY <5>1, <5>2, <5>3, Zenon
      <4>2. D \subseteq {y, z}
        BY <3>1, <4>1, Zenon
      <4>3. QED
        <5>1. CASE y \in D /\ z \in D
          BY <4>2, <5>1, Zenon
        <5>2. CASE y \in D /\ z \notin D
          <6>1. D = {y}
            BY <4>2, <5>2, Zenon
          <6>2. QED
            BY <5>2, <6>1, Zenon
        <5>3. CASE y \notin D /\ z \in D
          <6>1. D = {z}
            BY <4>2, <5>3, Zenon
          <6>2. QED
            BY <5>3, <6>1, Zenon
        <5>4. CASE y \notin D /\ z \notin D
          BY <4>2, <5>4, Zenon
        <5>5. QED
          BY <5>1, <5>2, <5>3, <5>4, Zenon
    <3>3. QED
      BY <1>7, <1>9, <1>10, <3>2, Zenon
  <2>2. CASE \A x \in 1..3 : x \in D
    <3>1. D = {1, 2, 3}
      BY <2>2
    <3>2. \A m \in D : \E y, z \in D : D \ {m} = {y, z}
      <4>1. \A m \in D : m = 1 \/ m = 2 \/ m = 3
        BY <3>1
      <4>2. D \ {1} = {2, 3} /\ D \ {2} = {1, 3} /\ D \ {3} = {1, 2}
        BY <3>1
      <4>3. 1 \in D /\ 2 \in D /\ 3 \in D
        BY <3>1
      <4>4. QED
        BY <4>1, <4>2, <4>3, Zenon
    <3>3. ASSUME NEW m \in D
          PROVE Right(D \ {m})
      <4> DEFINE rest == D \ {m}
      <4>1. PICK y \in D, z \in D : rest = {y, z}
        BY <3>2, Zenon
      <4>2. {y, z} \in R
        BY <1>10, Zenon
      <4> HIDE DEF rest
      <4>3. rest \in R
        BY <4>1, <4>2, SMT
      <4>4. QED
        BY <4>3, Zenon DEF rest
    <3>4. D \in SUBSET D
      BY Zenon
    <3>5. QED
      BY <1>8, <3>3, <3>4, Zenon
  <2>3. QED
    BY <2>1, <2>2, Zenon
<1>12. QED
  BY <1>11, ProdIs, Zenon DEF R, f

\* Products of what follows an axis.
LEMMA Rests ==
  ASSUME NEW s \in Seq(Nat), Len(s) \in 0..3
  PROVE  /\ Prod(s) = ProductAt(s, 1..Len(s))
         /\ \A a \in 1..Len(s) :
              Prod(SubSeq(s, a + 1, Len(s))) = ProductAt([k \in 1..Len(s) - a |-> s[k + a]], 1..Len(s) - a)
<1>1. DOMAIN s = 1..Len(s) /\ \A a \in DOMAIN s : s[a] \in Nat
  BY ElementOfSeq
<1>2. 1..Len(s) \subseteq 1..3
  <2>1. Len(s) = 0 \/ Len(s) = 1 \/ Len(s) = 2 \/ Len(s) = 3
    OBVIOUS
  <2>2. 1..0 \subseteq 1..3 /\ 1..1 \subseteq 1..3 /\ 1..2 \subseteq 1..3
    OBVIOUS
  <2>3. QED
    BY <2>1, <2>2, Zenon
<1>3. Prod(s) = ProductAt(s, 1..Len(s))
  BY <1>1, <1>2, ProdOfShape, Zenon
<1>4. ASSUME NEW a \in 1..Len(s)
      PROVE Prod(SubSeq(s, a + 1, Len(s))) = ProductAt([k \in 1..Len(s) - a |-> s[k + a]], 1..Len(s) - a)
  <2> DEFINE r == [k \in 1..Len(s) - a |-> s[k + a]]
  <2>1. SubSeq(s, a + 1, Len(s)) = r
    <3>1. SubSeq(s, a + 1, Len(s)) = [k \in 1..(1 + Len(s)) - (a + 1) |-> s[((a + 1) + k) - 1]]
      BY DEF SubSeq
    <3>2. (1 + Len(s)) - (a + 1) = Len(s) - a
      OBVIOUS
    <3>3. \A k \in 1..Len(s) - a : ((a + 1) + k) - 1 = k + a
      OBVIOUS
    <3>4. QED
      BY <3>1, <3>2, <3>3
  <2>2. DOMAIN r = 1..Len(s) - a /\ 1..Len(s) - a \subseteq 1..3
    BY <1>2
  <2>3. \A k \in DOMAIN r : r[k] \in Nat
    BY <1>1
  <2> HIDE DEF r
  <2>4. Prod(r) = ProductAt(r, 1..Len(s) - a)
    BY <2>2, <2>3, ProdOfShape, Zenon
  <2>5. QED
    BY <2>1, <2>4, Zenon DEF r
<1>5. QED
  BY <1>3, <1>4, Zenon

LEMMA PairUnravel ==
  ASSUME NEW a \in Nat \ {0}, NEW b \in Nat \ {0}
  PROVE  /\ Prod(<<a, b>>) = a * b
         /\ \A p \in Nat : Unravel(p, <<a, b>>) = <<(p \div b) % a, p % b>>
<1> DEFINE s == <<a, b>>
<1>1. s \in Seq(Nat) /\ Len(s) = 2 /\ DOMAIN s = 1..2 /\ s[1] = a /\ s[2] = b
  OBVIOUS
<1>2. ProductAt(s, 1..2) = a * b
  BY DEF ProductAt, Factor
<1>3. ProductAt([k \in 1..1 |-> s[k + 1]], 1..1) = b
  BY DEF ProductAt, Factor
<1>4. ProductAt([k \in 1..0 |-> s[k + 2]], 1..0) = 1
  BY DEF ProductAt, Factor
<1> HIDE DEF s
<1>5. 2 \in 0..3 /\ 1 \in 1..2 /\ 2 \in 1..2 /\ 2 - 1 = 1 /\ 2 - 2 = 0
  OBVIOUS
<1>6. Prod(s) = a * b /\ Prod(SubSeq(s, 1 + 1, 2)) = b /\ Prod(SubSeq(s, 2 + 1, 2)) = 1
  BY <1>1, <1>2, <1>3, <1>4, <1>5, Rests, Zenon
<1>7. ASSUME NEW p \in Nat
      PROVE Unravel(p, s) = <<(p \div b) % a, p % b>>
  <2>1. Unravel(p, s) = [k \in 1..2 |-> (p \div Prod(SubSeq(s, k + 1, 2))) % s[k]]
    BY <1>1, Zenon DEF Unravel
  <2>2. p \div 1 = p
    OBVIOUS
  <2> DEFINE u == [k \in 1..2 |-> (p \div Prod(SubSeq(s, k + 1, 2))) % s[k]]
  <2>3. u[1] = (p \div b) % a /\ u[2] = p % b
    BY <1>1, <1>5, <1>6, <2>2, Zenon
  <2>4. u = [k \in 1..2 |-> u[k]]
    BY Zenon
  <2> HIDE DEF u
  <2>5. u = <<u[1], u[2]>>
    BY <2>4
  <2>6. QED
    BY <2>1, <2>3, <2>5, Zenon DEF u
<1>8. QED
  BY <1>6, <1>7, Zenon DEF s

LEMMA TripleUnravel ==
  ASSUME NEW a \in Nat \ {0}, NEW b \in Nat \ {0}, NEW c \in Nat \ {0}
  PROVE  /\ Prod(<<a, b, c>>) = (a * b) * c
         /\ \A p \in Nat : Unravel(p, <<a, b, c>>) = <<(p \div (b * c)) % a, (p \div c) % b, p % c>>
<1> DEFINE s == <<a, b, c>>
<1>1. s \in Seq(Nat) /\ Len(s) = 3 /\ DOMAIN s = 1..3 /\ s[1] = a /\ s[2] = b /\ s[3] = c
  OBVIOUS
<1>2. ProductAt(s, 1..3) = (a * b) * c
  BY DEF ProductAt, Factor
<1>3. ProductAt([k \in 1..2 |-> s[k + 1]], 1..2) = b * c
  BY DEF ProductAt, Factor
<1>4. ProductAt([k \in 1..1 |-> s[k + 2]], 1..1) = c
  BY DEF ProductAt, Factor
<1>a. ProductAt([k \in 1..0 |-> s[k + 3]], 1..0) = 1
  BY DEF ProductAt, Factor
<1> HIDE DEF s
<1>5. 3 \in 0..3 /\ 1 \in 1..3 /\ 2 \in 1..3 /\ 3 \in 1..3 /\ 3 - 1 = 2 /\ 3 - 2 = 1 /\ 3 - 3 = 0
  OBVIOUS
<1>6. /\ Prod(s) = (a * b) * c
      /\ Prod(SubSeq(s, 1 + 1, 3)) = b * c
      /\ Prod(SubSeq(s, 2 + 1, 3)) = c /\ Prod(SubSeq(s, 3 + 1, 3)) = 1
  BY <1>1, <1>2, <1>3, <1>4, <1>a, <1>5, Rests, Zenon
<1>7. ASSUME NEW p \in Nat
      PROVE Unravel(p, s) = <<(p \div (b * c)) % a, (p \div c) % b, p % c>>
  <2>1. Unravel(p, s) = [k \in 1..3 |-> (p \div Prod(SubSeq(s, k + 1, 3))) % s[k]]
    BY <1>1, Zenon DEF Unravel
  <2>2. p \div 1 = p
    OBVIOUS
  <2> DEFINE u == [k \in 1..3 |-> (p \div Prod(SubSeq(s, k + 1, 3))) % s[k]]
  <2>3. u[1] = (p \div (b * c)) % a /\ u[2] = (p \div c) % b /\ u[3] = p % c
    BY <1>1, <1>5, <1>6, <2>2, Zenon
  <2>4. u = [k \in 1..3 |-> u[k]]
    BY Zenon
  <2> HIDE DEF u
  <2>5. u = <<u[1], u[2], u[3]>>
    BY <2>4
  <2>6. QED
    BY <2>1, <2>3, <2>5, Zenon DEF u
<1>8. QED
  BY <1>6, <1>7, Zenon DEF s

LEMMA ModUnique ==
  ASSUME NEW m \in Nat \ {0}, NEW a \in Nat, NEW q \in Nat, NEW r \in 0 .. m - 1,
         a = m * q + r
  PROVE  a % m = r /\ a \div m = q
OBVIOUS

LEMMA ModParts ==
  ASSUME NEW m \in Nat \ {0}, NEW a \in Nat
  PROVE  a \div m \in Nat /\ a % m \in 0 .. m - 1 /\ a = m * (a \div m) + (a % m)
OBVIOUS

\* A place in rows of c, and in a rows.
LEMMA InRows ==
  ASSUME NEW a \in Nat \ {0}, NEW c \in Nat \ {0}, NEW i \in 0..a - 1, NEW k \in 0..c - 1
  PROVE  /\ c * i + k \in 0..a * c - 1
         /\ (c * i + k) \div c = i /\ (c * i + k) % c = k
<1>1. c * i + k \in Nat /\ c * i \in Nat
  OBVIOUS
<1>2. c * i + k = c * i + k /\ i \in Nat
  OBVIOUS
<1>3. (c * i + k) \div c = i /\ (c * i + k) % c = k
  BY <1>1, <1>2, ModUnique, Zenon
<1>4. c * i + c = c * (i + 1)
  OBVIOUS
<1>5. c * (i + 1) <= c * a
  <2>1. PICK d \in Nat : a = (i + 1) + d
    <3>1. a - (i + 1) \in Nat /\ a = (i + 1) + (a - (i + 1))
      OBVIOUS
    <3>2. QED
      BY <3>1, Zenon
  <2>2. c * ((i + 1) + d) = c * (i + 1) + c * d /\ c * d \in Nat
    OBVIOUS
  <2>3. c * (i + 1) \in Nat
    OBVIOUS
  <2>4. QED
    BY <2>1, <2>2, <2>3
<1>6. c * a = a * c /\ c * a \in Nat
  OBVIOUS
<1>7. QED
  BY <1>1, <1>3, <1>4, <1>5, <1>6

LEMMA SmallMod ==
  ASSUME NEW m \in Nat \ {0}, NEW i \in 0..m - 1
  PROVE  i % m = i
OBVIOUS

LEMMA PairIndices ==
  ASSUME NEW a \in Nat \ {0}, NEW b \in Nat \ {0}
  PROVE  Indices(<<a, b>>) = (0..a - 1) \X (0..b - 1)
<1> DEFINE At(p) == <<(p \div b) % a, p % b>>
<1>1. Indices(<<a, b>>) = {At(p) : p \in 0..a * b - 1}
  <2>1. Indices(<<a, b>>) = {Unravel(p, <<a, b>>) : p \in 0..a * b - 1}
    BY PairUnravel, Zenon DEF Indices, Range0
  <2>2. \A p \in 0..a * b - 1 : p \in Nat
    OBVIOUS
  <2>3. QED
    <3> DEFINE U(p) == Unravel(p, <<a, b>>)
    <3>1. \A p \in 0..a * b - 1 : U(p) = At(p)
      BY <2>2, PairUnravel, Zenon
    <3> HIDE DEF U, At
    <3>2. {U(p) : p \in 0..a * b - 1} = {At(p) : p \in 0..a * b - 1}
      BY <3>1
    <3>3. QED
      BY <2>1, <3>2, Zenon DEF U
<1>2. ASSUME NEW p \in 0..a * b - 1
      PROVE At(p) \in (0..a - 1) \X (0..b - 1)
  <2>1. p \in Nat
    OBVIOUS
  <2>2. p \div b \in Nat /\ p % b \in 0..b - 1
    BY <2>1, ModParts, Zenon
  <2>3. (p \div b) % a \in 0..a - 1
    BY <2>2, ModParts, Zenon
  <2>4. QED
    BY <2>2, <2>3, Zenon
<1>3. ASSUME NEW i \in 0..a - 1, NEW j \in 0..b - 1
      PROVE \E p \in 0..a * b - 1 : <<i, j>> = At(p)
  <2>1. /\ b * i + j \in 0..a * b - 1
        /\ (b * i + j) \div b = i /\ (b * i + j) % b = j
    BY InRows
  <2>2. i % a = i
    BY SmallMod, Zenon
  <2>3. QED
    BY <2>1, <2>2, Zenon
<1> HIDE DEF At
<1>4. \A x \in (0..a - 1) \X (0..b - 1) : \E i \in 0..a - 1, j \in 0..b - 1 : x = <<i, j>>
  OBVIOUS
<1> DEFINE S == (0..a - 1) \X (0..b - 1)
           T == {At(p) : p \in 0..a * b - 1}
<1>5. \A x : x \in S => x \in T
  <2>1. ASSUME NEW x \in S PROVE x \in T
    <3>1. PICK i \in 0..a - 1, j \in 0..b - 1 : x = <<i, j>>
      BY <1>4, Zenon
    <3>2. PICK p \in 0..a * b - 1 : <<i, j>> = At(p)
      BY <1>3, Zenon
    <3>3. QED
      BY <3>1, <3>2, Zenon
  <2>2. QED
    BY <2>1, Zenon
<1>6. \A x : x \in T => x \in S
  BY <1>2, Zenon
<1> HIDE DEF S, T
<1>7. S = T
  BY <1>5, <1>6, Zenon
<1>8. QED
  BY <1>1, <1>7, Zenon DEF S, T

LEMMA TripleIndices ==
  ASSUME NEW a \in Nat \ {0}, NEW b \in Nat \ {0}, NEW c \in Nat \ {0}
  PROVE  Indices(<<a, b, c>>) = (0..a - 1) \X (0..b - 1) \X (0..c - 1)
<1> DEFINE At(p) == <<(p \div (b * c)) % a, (p \div c) % b, p % c>>
           n == (a * b) * c
<1>1. Indices(<<a, b, c>>) = {At(p) : p \in 0..n - 1}
  <2>1. Indices(<<a, b, c>>) = {Unravel(p, <<a, b, c>>) : p \in 0..n - 1}
    BY TripleUnravel, Zenon DEF Indices, Range0
  <2>2. \A p \in 0..n - 1 : p \in Nat
    OBVIOUS
  <2>3. QED
    <3> DEFINE U(p) == Unravel(p, <<a, b, c>>)
    <3>1. \A p \in 0..n - 1 : U(p) = At(p)
      BY <2>2, TripleUnravel, ZenonT(60)
    <3> HIDE DEF U, At, n
    <3>2. {U(p) : p \in 0..n - 1} = {At(p) : p \in 0..n - 1}
      BY <3>1
    <3>3. QED
      BY <2>1, <3>2, Zenon DEF U
<1>b. b * c \in Nat \ {0} /\ a * b \in Nat \ {0} /\ n \in Nat \ {0} /\ n = a * (b * c)
  OBVIOUS
<1>2. ASSUME NEW p \in 0..n - 1
      PROVE At(p) \in (0..a - 1) \X (0..b - 1) \X (0..c - 1)
  <2>1. p \in Nat
    BY <1>b
  <2>2. p \div (b * c) \in Nat /\ p \div c \in Nat /\ p % c \in 0..c - 1
    BY <2>1, <1>b, ModParts, Zenon
  <2>3. (p \div (b * c)) % a \in 0..a - 1 /\ (p \div c) % b \in 0..b - 1
    BY <2>2, ModParts, Zenon
  <2>4. QED
    BY <2>2, <2>3, Zenon
<1>3. ASSUME NEW i \in 0..a - 1, NEW j \in 0..b - 1, NEW k \in 0..c - 1
      PROVE \E p \in 0..n - 1 : <<i, j, k>> = At(p)
  <2> DEFINE q == b * i + j
             p == c * q + k
  <2>1. q \in 0..a * b - 1 /\ q \div b = i /\ q % b = j
    BY InRows
  <2>2. c * j + k \in 0..b * c - 1
    BY InRows
  <2>3. p = (b * c) * i + (c * j + k)
    OBVIOUS
  <2> DEFINE rest == c * j + k
  <2> HIDE DEF q, rest
  <2>4. p \in 0..n - 1 /\ p \div c = q /\ p % c = k
    BY <2>1, <1>b, InRows
  <2> HIDE DEF p
  <2>5. p \div (b * c) = i
    <3>1. p = (b * c) * i + rest /\ rest \in 0..b * c - 1
      BY <2>2, <2>3, Zenon DEF rest
    <3>2. i \in Nat /\ p \in Nat
      BY <2>4, <1>b
    <3>3. QED
      BY <1>b, <3>1, <3>2, ModUnique
  <2>6. i % a = i
    BY SmallMod, Zenon
  <2>7. At(p) = <<i, j, k>>
    BY <2>1, <2>4, <2>5, <2>6, Zenon
  <2>8. QED
    BY <2>4, <2>7, Zenon
<1> HIDE DEF At, n
<1>4. \A x \in (0..a - 1) \X (0..b - 1) \X (0..c - 1) :
        \E i \in 0..a - 1, j \in 0..b - 1, k \in 0..c - 1 : x = <<i, j, k>>
  OBVIOUS
<1> DEFINE S == (0..a - 1) \X (0..b - 1) \X (0..c - 1)
           T == {At(p) : p \in 0..n - 1}
<1>5. \A x : x \in S => x \in T
  <2>1. ASSUME NEW x \in S PROVE x \in T
    <3>1. PICK i \in 0..a - 1, j \in 0..b - 1, k \in 0..c - 1 : x = <<i, j, k>>
      BY <1>4, Zenon
    <3>2. PICK p \in 0..n - 1 : <<i, j, k>> = At(p)
      BY <1>3, Zenon
    <3>3. QED
      BY <3>1, <3>2, Zenon
  <2>2. QED
    BY <2>1, Zenon
<1>6. \A x : x \in T => x \in S
  BY <1>2, Zenon
<1> HIDE DEF S, T
<1>7. S = T
  BY <1>5, <1>6, Zenon
<1>8. QED
  BY <1>1, <1>7, Zenon DEF S, T

LEMMA Least ==
  ASSUME NEW S \in SUBSET Nat, S # {}
  PROVE  \E x \in S : \A y \in S : x <= y
<1> DEFINE R == OpToRel(<, Nat)
<1>1. IsWellFoundedOn(R, Nat)
  BY NatLessThanWellFounded, Zenon
<1>2. \A x, y \in Nat : x < y => <<x, y>> \in R
  BY Zenon DEF OpToRel
<1> HIDE DEF R
<1>3. PICK x \in S : \A y \in S : ~(<<y, x>> \in R)
  BY <1>1, WFMin, Zenon
<1>4. \A y \in S : ~(y < x)
  BY <1>2, <1>3, Zenon
<1>5. \A y \in S : x <= y
  BY <1>4
<1>6. QED
  BY <1>5, Zenon

-------------------------------------------------------------------------------
(* The evaluation of a graph, node by node.                                 *)

\* The evaluation of a graph, node by node.
EnvStart(g) == With(g.inits, <<"x">>, Input(g.shape))
EnvStep(g, i, env) == Once(env, LAMBDA u : With(u, g.nodes[i].out, Value(g.nodes[i], u)))
Evaluates(g, k, f) == f = [i \in 0..k |-> IF i = 0 THEN EnvStart(g) ELSE EnvStep(g, i, f[i - 1])]
EnvAt(g) == CHOOSE f : Evaluates(g, Len(g.nodes), f)

LEMMA EvaluationExists ==
  ASSUME NEW g, NEW n \in Nat
  PROVE  \E f : Evaluates(g, n, f)
<1> DEFINE S == {k \in Nat : ~ \E f : Evaluates(g, k, f)}
<1>1. ASSUME S # {} PROVE FALSE
  <2>1. S \in SUBSET Nat
    BY Zenon
  <2>2. PICK k \in S : \A y \in S : k <= y
    BY <1>1, <2>1, Least, Zenon
  <2>3. k \in Nat /\ ~ \E f : Evaluates(g, k, f)
    BY Zenon
  <2>4. CASE k = 0
    <3> DEFINE f == [i \in 0..0 |-> EnvStart(g)]
    <3>1. \A i \in 0..0 : i = 0
      OBVIOUS
    <3>2. \A i \in 0..0 : f[i] = IF i = 0 THEN EnvStart(g) ELSE EnvStep(g, i, f[i - 1])
      BY <3>1, Zenon
    <3>3. f = [i \in 0..0 |-> f[i]]
      BY Zenon
    <3> HIDE DEF f
    <3>4. Evaluates(g, k, f)
      BY <2>4, <3>2, <3>3, Zenon DEF Evaluates
    <3>5. QED
      BY <2>3, <3>4, Zenon
  <2>5. CASE k # 0
    <3>1. k - 1 \in Nat /\ ~(k <= k - 1)
      BY <2>3, <2>5
    <3>2. k - 1 \notin S
      BY <2>2, <3>1, Zenon
    <3>3. PICK e : Evaluates(g, k - 1, e)
      BY <3>1, <3>2, Zenon
    <3>4. \A i \in 0..k - 1 : e[i] = IF i = 0 THEN EnvStart(g) ELSE EnvStep(g, i, e[i - 1])
      BY <3>3, Zenon DEF Evaluates
    <3> DEFINE f == [i \in 0..k |-> IF i = k THEN EnvStep(g, k, e[k - 1]) ELSE e[i]]
    <3>5. ASSUME NEW i \in 0..k
          PROVE f[i] = IF i = 0 THEN EnvStart(g) ELSE EnvStep(g, i, f[i - 1])
      <4>1. CASE i = k
        <5>1. k - 1 \in 0..k /\ k - 1 # k
          BY <2>3, <3>1
        <5>2. f[k - 1] = e[k - 1]
          BY <5>1, Zenon
        <5>3. QED
          BY <2>5, <4>1, <5>2, Zenon
      <4>2. CASE i # k /\ i = 0
        <5>1. 0 \in 0..k - 1
          BY <3>1
        <5>2. QED
          BY <3>4, <4>2, <5>1, Zenon
      <4>3. CASE i # k /\ i # 0
        <5>1. i \in 0..k - 1 /\ i - 1 \in 0..k /\ i - 1 # k
          BY <2>3, <4>3
        <5>2. f[i] = e[i] /\ f[i - 1] = e[i - 1]
          BY <4>3, <5>1, Zenon
        <5>3. e[i] = EnvStep(g, i, e[i - 1])
          BY <3>4, <4>3, <5>1, Zenon
        <5> HIDE DEF f
        <5>4. QED
          BY <4>3, <5>2, <5>3, Zenon
      <4>4. QED
        BY <4>1, <4>2, <4>3, Zenon
    <3>6. f = [i \in 0..k |-> f[i]]
      BY Zenon
    <3> HIDE DEF f
    <3>7. Evaluates(g, k, f)
      BY <3>5, <3>6, Zenon DEF Evaluates
    <3>8. QED
      BY <2>3, <3>7, Zenon
  <2>6. QED
    BY <2>4, <2>5, Zenon
<1>2. QED
  BY <1>1, Zenon

LEMMA EnvFacts ==
  ASSUME NEW g, Len(g.nodes) \in Nat
  PROVE  /\ Env(g) = EnvAt(g)[Len(g.nodes)]
         /\ EnvAt(g)[0] = With(g.inits, <<"x">>, Input(g.shape))
         /\ \A i \in 1..Len(g.nodes) :
              EnvAt(g)[i] = With(EnvAt(g)[i - 1], g.nodes[i].out, Value(g.nodes[i], EnvAt(g)[i - 1]))
<1> DEFINE n == Len(g.nodes)
<1>1. Env(g) = EnvAt(g)[n]
  BY Zenon DEF Env, EnvAt, Evaluates, EnvStart, EnvStep
<1>2. Evaluates(g, n, EnvAt(g))
  BY EvaluationExists, Zenon DEF EnvAt
<1>3. \A i \in 0..n : EnvAt(g)[i] = IF i = 0 THEN EnvStart(g) ELSE EnvStep(g, i, EnvAt(g)[i - 1])
  BY <1>2, Zenon DEF Evaluates
<1>4. 0 \in 0..n /\ \A i \in 1..n : i \in 0..n /\ i # 0
  OBVIOUS
<1>5. \A i, env : EnvStep(g, i, env) = With(env, g.nodes[i].out, Value(g.nodes[i], env))
  BY Zenon DEF EnvStep, Once
<1>6. QED
  BY <1>1, <1>3, <1>4, <1>5, Zenon DEF EnvStart

LEMMA WithFacts ==
  ASSUME NEW f, NEW x, NEW v
  PROVE  /\ DOMAIN With(f, x, v) = DOMAIN f \cup {x}
         /\ With(f, x, v)[x] = v
         /\ \A y \in DOMAIN f : y # x => With(f, x, v)[y] = f[y]
BY Zenon DEF With

\* The value of a node depends on what it reads.
LEMMA ValueReads ==
  ASSUME NEW n, NEW e, NEW f, n.op \in Ops, e[n.ins[1]] = f[n.ins[1]],
         n.op \in Layers => e[n.ins[2]] = f[n.ins[2]]
  PROVE  Value(n, e) = Value(n, f)
<1> DEFINE a == e[n.ins[1]]
<1>1. Value(n, e) = ValueFrom(a, n, e) /\ Value(n, f) = ValueFrom(a, n, f)
  BY Zenon DEF Value, Once
<1> HIDE DEF a
<1>2. CASE n.op \in Layers
  BY <1>1, <1>2, Zenon DEF ValueFrom
<1>3. CASE n.op \notin Layers
  BY <1>1, <1>3 DEF ValueFrom, Ops, Layers
<1>4. QED
  BY <1>2, <1>3, Zenon

LEMMA MadeNext ==
  ASSUME NEW g, NEW n \in Nat, NEW i \in 1..n
  PROVE  Made(g, i) = Made(g, i - 1) \cup {g.nodes[i].out}
<1> DEFINE A == 1..i
           B == 1..i - 1
           C == {<<"x">>} \cup DOMAIN g.inits
           o(j) == g.nodes[j].out
<1>1. A = B \cup {i}
  OBVIOUS
<1>2. Made(g, i) = C \cup {o(j) : j \in A} /\ Made(g, i - 1) = C \cup {o(j) : j \in B}
  BY Zenon DEF Made
<1> HIDE DEF A, B, C, o
<1>3. {o(j) : j \in A} = {o(j) : j \in B} \cup {o(i)}
  BY <1>1
<1>4. Made(g, i) = Made(g, i - 1) \cup {o(i)}
  BY <1>2, <1>3, SMT
<1>5. QED
  BY <1>4, Zenon DEF o

\* What is known before a node, and that a name keeps its value.
LEMMA EnvNames ==
  ASSUME NEW g, InOrder(g), NEW k \in 0..Len(g.nodes)
  PROVE  /\ DOMAIN EnvAt(g)[k] = Made(g, k)
         /\ \A y \in Made(g, k) : EnvAt(g)[Len(g.nodes)][y] = EnvAt(g)[k][y]
<1> DEFINE n == Len(g.nodes)
           E == EnvAt(g)
           M(i) == Made(g, i)
           o(i) == g.nodes[i].out
<1>1. n \in Nat /\ DOMAIN g.nodes = 1..n
  BY ElementOfSeq, SMT DEF InOrder
<1>2. /\ E[0] = With(g.inits, <<"x">>, Input(g.shape))
      /\ \A i \in 1..n : E[i] = With(E[i - 1], o(i), Value(g.nodes[i], E[i - 1]))
  BY <1>1, EnvFacts, Zenon
<1>3. M(0) = DOMAIN g.inits \cup {<<"x">>}
  BY DEF Made
<1>4. \A i \in 1..n : M(i) = M(i - 1) \cup {o(i)}
  BY <1>1, MadeNext, Zenon
<1>5. \A i \in 1..n : o(i) \notin M(i - 1)
  BY <1>1, Zenon DEF InOrder
<1> HIDE DEF E, M, o, n
<1>6. DOMAIN E[0] = M(0)
  <2>1. DOMAIN With(g.inits, <<"x">>, Input(g.shape)) = DOMAIN g.inits \cup {<<"x">>}
    BY WithFacts, Zenon
  <2>2. QED
    BY <1>2, <1>3, <2>1, Zenon
<1>7. \A i \in 1..n : /\ DOMAIN E[i] = DOMAIN E[i - 1] \cup {o(i)}
                      /\ \A y \in DOMAIN E[i - 1] : y # o(i) => E[i][y] = E[i - 1][y]
  <2>1. ASSUME NEW i \in 1..n
        PROVE  /\ DOMAIN E[i] = DOMAIN E[i - 1] \cup {o(i)}
               /\ \A y \in DOMAIN E[i - 1] : y # o(i) => E[i][y] = E[i - 1][y]
    <3> DEFINE e == E[i - 1]
               v == Value(g.nodes[i], e)
               x == o(i)
    <3>1. E[i] = With(e, x, v)
      BY <1>2, Zenon
    <3> HIDE DEF e, v, x
    <3>2. /\ DOMAIN With(e, x, v) = DOMAIN e \cup {x}
          /\ \A y \in DOMAIN e : y # x => With(e, x, v)[y] = e[y]
      BY Zenon DEF With
    <3>3. QED
      BY <3>1, <3>2, Zenon DEF e, x
  <2>2. QED
    BY <2>1, Zenon
<1> DEFINE Bad == {i \in 0..n : DOMAIN E[i] # M(i)}
<1>8. ASSUME Bad # {} PROVE FALSE
  <2>1. Bad \in SUBSET Nat
    BY <1>1
  <2>2. PICK i \in Bad : \A j \in Bad : i <= j
    BY <1>8, <2>1, Least, Zenon
  <2>3. i \in 0..n /\ DOMAIN E[i] # M(i)
    BY Zenon
  <2>4. i # 0
    BY <1>6, <2>3, Zenon
  <2>5. i \in 1..n /\ i - 1 \in 0..n /\ ~(i <= i - 1)
    BY <1>1, <2>3, <2>4
  <2>6. DOMAIN E[i - 1] = M(i - 1)
    BY <2>2, <2>5, Zenon
  <2>7. QED
    BY <1>4, <1>7, <2>3, <2>5, <2>6, Zenon
<1>9. \A i \in 0..n : DOMAIN E[i] = M(i)
  BY <1>8, Zenon
<1> HIDE DEF Bad
<1> DEFINE Kept(j) == \A y \in M(k) : y \in M(j) /\ E[j][y] = E[k][y]
           Lost == {d \in Nat : k + d \in 0..n /\ ~Kept(k + d)}
<1>10. ASSUME Lost # {} PROVE FALSE
  <2>1. Lost \in SUBSET Nat
    BY Zenon
  <2>2. PICK d \in Lost : \A e \in Lost : d <= e
    BY <1>10, <2>1, Least, Zenon
  <2>3. d \in Nat /\ k + d \in 0..n /\ ~Kept(k + d)
    BY Zenon
  <2>4. k \in Nat
    BY DEF n
  <2>5. d # 0
    <3>1. k + 0 = k
      BY <2>4
    <3>2. Kept(k)
      BY Zenon
    <3> HIDE DEF Kept
    <3>3. QED
      BY <2>3, <3>1, <3>2, Zenon
  <2>6. /\ d - 1 \in Nat /\ k + (d - 1) \in 0..n /\ ~(d <= d - 1)
        /\ k + d \in 1..n /\ (k + d) - 1 = k + (d - 1)
    BY <1>1, <2>3, <2>4, <2>5
  <2>7. Kept(k + (d - 1))
    BY <2>2, <2>6, Zenon
  <2> DEFINE p == k + (d - 1)
             q == k + d
  <2>8. /\ q \in 1..n /\ q - 1 = p /\ p \in 0..n /\ Kept(p)
    BY <2>6, <2>7, Zenon
  <2>9. ~Kept(q)
    BY <2>3, Zenon
  <2> HIDE DEF p, q
  <2>10. DOMAIN E[p] = M(p) /\ M(q) = M(p) \cup {o(q)} /\ o(q) \notin M(p)
    BY <1>4, <1>5, <1>9, <2>8, Zenon
  <2>11. \A y \in M(p) : y # o(q) => E[q][y] = E[p][y]
    BY <1>7, <2>8, <2>10, Zenon
  <2>12. QED
    BY <2>8, <2>9, <2>10, <2>11, Zenon
<1>11. n - k \in Nat /\ k + (n - k) = n /\ n \in 0..n /\ k \in 0..n
  BY <1>1 DEF n
<1>12. Kept(n)
  <2>1. n - k \notin Lost
    BY <1>10, Zenon
  <2> HIDE DEF Kept
  <2>2. k + (n - k) \in 0..n => Kept(k + (n - k))
    BY <1>11, <2>1, Zenon
  <2>3. QED
    BY <1>11, <2>2, Zenon
<1>13. QED
  BY <1>9, <1>11, <1>12, Zenon DEF E, M, n

-------------------------------------------------------------------------------
(* depthwise_to_dense.                                                      *)

LEMMA DenseFacts ==
  ASSUME NEW w, NEW o \in Extents, NEW p \in Extents, NEW group \in Extents, w.shape = <<o, p>>
  PROVE  /\ Dense(w, group).shape = <<o, p * group>>
         /\ \A i \in 0..o - 1, c \in 0..p * group - 1 :
              Dense(w, group).at[<<i, c>>] =
                IF c \div p = i \div (o \div group) THEN w.at[<<i, c % p>>] ELSE 0
<1> DEFINE q == o \div group
           sh == <<o, p * group>>
           At(i) == IF i[2] \div p = i[1] \div q THEN w.at[<<i[1], i[2] % p>>] ELSE 0
<1>1. w.shape[1] = o /\ w.shape[2] = p
  OBVIOUS
<1>2. Dense(w, group) = [shape |-> sh, at |-> [i \in Indices(sh) |-> At(i)]]
  BY <1>1, Zenon DEF Dense, Tensor, Once
<1>3. Indices(sh) = (0..o - 1) \X (0..p * group - 1)
  <2>1. o \in Nat \ {0} /\ p * group \in Nat \ {0}
    BY DEF Extents
  <2>2. QED
    BY <2>1, PairIndices, Zenon
<1>4. ASSUME NEW i \in 0..o - 1, NEW c \in 0..p * group - 1
      PROVE  Dense(w, group).at[<<i, c>>] = At(<<i, c>>)
  <2>1. <<i, c>> \in Indices(sh)
    BY <1>3, Zenon
  <2> HIDE DEF At, sh
  <2>2. QED
    BY <1>2, <2>1
<1>5. QED
  BY <1>2, <1>4

\* An element of a convolution.
ConvAt(x, w, group, i) ==
  {<<x.at[<<(i[1] \div (w.shape[1] \div group)) * w.shape[2] + c, i[2], i[3]>>], w.at[<<i[1], c>>]>> :
     c \in {c \in 0..w.shape[2] - 1 : w.at[<<i[1], c>>] # 0}}

LEMMA ConvolvedIs ==
  ASSUME NEW x, NEW w, NEW group, NEW sh, sh = <<w.shape[1], x.shape[2], x.shape[3]>>
  PROVE  Convolved(x, w, group) = [shape |-> sh, at |-> [i \in Indices(sh) |-> ConvAt(x, w, group, i)]]
<1>1. Convolved(x, w, group) = Once(sh, LAMBDA u : [shape |-> u, at |-> [i \in Indices(u) |-> ConvAt(x, w, group, i)]])
  BY Zenon DEF Convolved, Tensor, ConvAt, Range0
<1>2. QED
  BY <1>1, Zenon DEF Once

\* A dense convolution with the blocks on the diagonal is the grouped one.
LEMMA DenseIsGrouped ==
  ASSUME NEW x, NEW w, NEW o \in Extents, NEW p \in Extents, NEW group \in Extents,
         w.shape = <<o, p>>, o % group = 0,
         NEW h \in Extents, NEW v \in Extents, x.shape[2] = h, x.shape[3] = v
  PROVE  Convolved(x, Dense(w, group), 1) = Convolved(x, w, group)
<1> DEFINE q == o \div group
           d == Dense(w, group)
           sh == <<o, h, v>>
           In1(i) == {c \in 0..p * group - 1 : d.at[<<i[1], c>>] # 0}
           At1(i) == {<<x.at[<<(i[1] \div (o \div 1)) * (p * group) + c, i[2], i[3]>>], d.at[<<i[1], c>>]>> : c \in In1(i)}
           In2(i) == {c \in 0..p - 1 : w.at[<<i[1], c>>] # 0}
           At2(i) == {<<x.at[<<(i[1] \div q) * p + c, i[2], i[3]>>], w.at[<<i[1], c>>]>> : c \in In2(i)}
<1>1. o \in Nat \ {0} /\ p \in Nat \ {0} /\ group \in Nat \ {0} /\ p * group \in Nat \ {0}
  BY DEF Extents
<1>2. q \in Nat \ {0} /\ o = group * q
  <2>1. q \in Nat /\ o = group * q + (o % group)
    BY <1>1, ModParts
  <2> HIDE DEF q
  <2>2. q \in Nat /\ o = group * q
    BY <2>1, <1>1
  <2>3. q # 0
    BY <1>1, <2>2
  <2>4. QED
    BY <2>2, <2>3
<1>3. /\ d.shape[1] = o /\ d.shape[2] = p * group
      /\ \A i \in 0..o - 1, c \in 0..p * group - 1 :
           d.at[<<i, c>>] = IF c \div p = i \div q THEN w.at[<<i, c % p>>] ELSE 0
  BY DenseFacts, SMTT(60)
<1>4. w.shape[1] = o /\ w.shape[2] = p
  OBVIOUS
<1>5. Convolved(x, d, 1) = [shape |-> sh, at |-> [i \in Indices(sh) |-> At1(i)]]
  <2> HIDE DEF d
  <2>1. Convolved(x, d, 1) = [shape |-> sh, at |-> [i \in Indices(sh) |-> ConvAt(x, d, 1, i)]]
    BY <1>3, ConvolvedIs, Zenon
  <2>2. \A i : ConvAt(x, d, 1, i) = At1(i)
    BY <1>3, ZenonT(60) DEF ConvAt
  <2> HIDE DEF At1, sh
  <2>3. QED
    BY <2>1, <2>2, Zenon
<1>6. Convolved(x, w, group) = [shape |-> sh, at |-> [i \in Indices(sh) |-> At2(i)]]
  <2>1. Convolved(x, w, group) = [shape |-> sh, at |-> [i \in Indices(sh) |-> ConvAt(x, w, group, i)]]
    BY <1>4, ConvolvedIs, Zenon
  <2>2. \A i : ConvAt(x, w, group, i) = At2(i)
    BY <1>4, ZenonT(60) DEF ConvAt
  <2> HIDE DEF At2, sh
  <2>3. QED
    BY <2>1, <2>2, Zenon
<1> HIDE DEF d
<1>7. Indices(sh) = (0..o - 1) \X (0..h - 1) \X (0..v - 1)
  <2>1. h \in Nat \ {0} /\ v \in Nat \ {0}
    BY DEF Extents
  <2>2. QED
    BY <1>1, <2>1, TripleIndices
<1>8. ASSUME NEW i \in Indices(sh)
      PROVE At1(i) = At2(i)
  <2> DEFINE b == i[1] \div q
  <2>1. i[1] \in 0..o - 1
    BY <1>7
  <2>2. b \in 0..group - 1
    <3> DEFINE k == i[1]
    <3>1. k \in Nat /\ k < group * q
      BY <1>1, <1>2, <2>1
    <3> HIDE DEF k, q
    <3>2. k \div q \in Nat /\ k % q \in 0..q - 1 /\ k = q * (k \div q) + (k % q)
      BY <1>2, <3>1, ModParts
    <3> DEFINE e == k \div q
    <3> HIDE DEF e
    <3>3. q * e < group * q /\ e \in Nat
      <4>1. q * e \in Nat /\ k = q * e + (k % q)
        BY <1>2, <3>2 DEF e
      <4>2. q * e <= k
        BY <3>1, <3>2, <4>1
      <4>3. QED
        BY <1>1, <1>2, <3>1, <3>2, <4>1, <4>2 DEF e
    <3>4. e < group
      <4>1. ASSUME e >= group PROVE FALSE
        <5>1. PICK t \in Nat : e = group + t
          <6>1. e - group \in Nat /\ e = group + (e - group)
            BY <1>1, <3>3, <4>1
          <6>2. QED
            BY <6>1, Zenon
        <5>2. q * (group + t) = group * q + q * t /\ q * t \in Nat /\ group * q \in Nat
          BY <1>1, <1>2
        <5>3. QED
          BY <3>3, <5>1, <5>2
      <4>2. QED
        BY <1>1, <3>3, <4>1
    <3>5. QED
      BY <1>1, <3>3, <3>4 DEF e, k
  <2>3. i[1] \div (o \div 1) = 0
    <3>1. o \div 1 = o
      BY <1>1
    <3>2. \A k \in 0..o - 1 : k \div o = 0
      BY <1>1
    <3>3. QED
      BY <2>1, <3>1, <3>2
  <2> DEFINE X(c) == x.at[<<c, i[2], i[3]>>]
             D(c) == d.at[<<i[1], c>>]
             W(c) == w.at[<<i[1], c>>]
             A == {c \in 0..p * group - 1 : D(c) # 0}
             B == {c \in 0..p - 1 : W(c) # 0}
  <2>4. At1(i) = {<<X(0 * (p * group) + c), D(c)>> : c \in A}
    BY <2>3, Zenon
  <2>5. At2(i) = {<<X(b * p + c), W(c)>> : c \in B}
    BY Zenon
  <2>6. \A c \in 0..p * group - 1 : D(c) = IF c \div p = b THEN W(c % p) ELSE 0
    BY <1>3, <2>1, Zenon
  <2> HIDE DEF At1, At2, X, D, W, b
  <2>7. ASSUME NEW c \in B
        PROVE b * p + c \in A /\ D(b * p + c) = W(c)
    <3>1. /\ p * b + c \in 0..group * p - 1
          /\ (p * b + c) \div p = b /\ (p * b + c) % p = c
      BY <1>1, <2>2, InRows
    <3>2. p * b = b * p /\ group * p = p * group
      BY <1>1, <2>2
    <3> DEFINE e == b * p + c
    <3>3. e \in 0..p * group - 1 /\ e \div p = b /\ e % p = c
      BY <3>1, <3>2
    <3> HIDE DEF e
    <3>4. D(e) = W(c)
      BY <2>6, <3>3, Zenon
    <3>5. QED
      BY <3>3, <3>4, Zenon DEF e
  <2>8. ASSUME NEW c \in A
        PROVE c % p \in B /\ D(c) = W(c % p) /\ 0 * (p * group) + c = b * p + (c % p)
    <3>1. c \in Nat /\ D(c) # 0 /\ c \in 0..p * group - 1
      BY <1>1
    <3>2. c \div p = b /\ D(c) = W(c % p)
      BY <2>6, <3>1, Zenon
    <3>3. c % p \in 0..p - 1 /\ c = p * (c \div p) + (c % p)
      BY <1>1, <3>1, ModParts
    <3>4. p * b = b * p /\ 0 * (p * group) + c = c
      BY <1>1, <2>2, <3>1
    <3>5. QED
      BY <3>1, <3>2, <3>3, <3>4, Zenon
  <2>9. \A c \in A : 0 * (p * group) + c = c
    BY <1>1
  <2> HIDE DEF A, B
  <2>10. ASSUME NEW y \in {<<X(0 * (p * group) + c), D(c)>> : c \in A}
         PROVE  y \in {<<X(b * p + c), W(c)>> : c \in B}
    <3>1. PICK c \in A : y = <<X(0 * (p * group) + c), D(c)>>
      BY Zenon
    <3>2. c % p \in B /\ y = <<X(b * p + (c % p)), W(c % p)>>
      BY <2>8, <3>1, Zenon
    <3>3. QED
      BY <3>2, Zenon
  <2>11. ASSUME NEW y \in {<<X(b * p + c), W(c)>> : c \in B}
         PROVE  y \in {<<X(0 * (p * group) + c), D(c)>> : c \in A}
    <3>1. PICK c \in B : y = <<X(b * p + c), W(c)>>
      BY Zenon
    <3>2. b * p + c \in A /\ y = <<X(b * p + c), D(b * p + c)>>
      BY <2>7, <3>1, Zenon
    <3>3. 0 * (p * group) + (b * p + c) = b * p + c
      BY <2>9, <3>2, Zenon
    <3>4. QED
      BY <3>2, <3>3, Zenon
  <2>12. QED
    BY <2>4, <2>5, <2>10, <2>11, Zenon
<1> HIDE DEF At1, At2, sh
<1>9. [i \in Indices(sh) |-> At1(i)] = [i \in Indices(sh) |-> At2(i)]
  BY <1>8, Zenon
<1>10. QED
  BY <1>5, <1>6, <1>9, Zenon DEF d

LEMMA ConvValue ==
  ASSUME NEW n, NEW e, n.op = "Conv"
  PROVE  Value(n, e) = Convolved(e[n.ins[1]], e[n.ins[2]], n.group)
<1> DEFINE a == e[n.ins[1]]
<1>1. Value(n, e) = ValueFrom(a, n, e)
  BY Zenon DEF Value, Once
<1> HIDE DEF a
<1>2. ValueFrom(a, n, e) = Convolved(a, e[n.ins[2]], n.group)
  BY DEF ValueFrom
<1>3. QED
  BY <1>1, <1>2, Zenon DEF a

\* The evaluations of two graphs agree after j nodes, on names that are not
\* Gone, and the second knows an extra one.
AgreeAt(g, h, Gone, extra, d, j) ==
  /\ \A y \in Made(g, j) \ Gone : y \in DOMAIN EnvAt(h)[j] /\ EnvAt(h)[j][y] = EnvAt(g)[j][y]
  /\ extra \in DOMAIN EnvAt(h)[j] /\ EnvAt(h)[j][extra] = d

SameNodes(g, h, Gone, extra, d) ==
  /\ InOrder(g) /\ Len(h.nodes) = Len(g.nodes)
  /\ \A i \in DOMAIN g.nodes : h.nodes[i].out = g.nodes[i].out /\ g.nodes[i].out # extra
  /\ AgreeAt(g, h, Gone, extra, d, 0)
  /\ \A j \in DOMAIN g.nodes : AgreeAt(g, h, Gone, extra, d, j - 1) =>
       Value(h.nodes[j], EnvAt(h)[j - 1]) = Value(g.nodes[j], EnvAt(g)[j - 1])

\* Values of two evaluations that agree on some names so far agree on them
\* all the way, if each node agrees.
LEMMA ByNodes ==
  ASSUME NEW g, NEW h, NEW Gone, NEW extra, NEW d, SameNodes(g, h, Gone, extra, d)
  PROVE  \A y \in Made(g, Len(g.nodes)) \ Gone : Env(h)[y] = Env(g)[y]
<1> DEFINE n == Len(g.nodes)
           G == EnvAt(g)
           H == EnvAt(h)
           M(i) == Made(g, i)
           o(i) == g.nodes[i].out
           vg(i) == Value(g.nodes[i], G[i - 1])
           vh(i) == Value(h.nodes[i], H[i - 1])
           Same(j) == \A y \in M(j) \ Gone : y \in DOMAIN H[j] /\ H[j][y] = G[j][y]
           Has(j) == extra \in DOMAIN H[j] /\ H[j][extra] = d
           Agree(j) == Same(j) /\ Has(j)
<1>0. /\ InOrder(g) /\ Len(h.nodes) = n
      /\ \A i \in DOMAIN g.nodes : h.nodes[i].out = g.nodes[i].out /\ o(i) # extra
      /\ Agree(0) /\ \A j \in DOMAIN g.nodes : Agree(j - 1) => vh(j) = vg(j)
  BY Zenon DEF SameNodes, AgreeAt
<1>1. n \in Nat /\ DOMAIN g.nodes = 1..n
  BY <1>0, ElementOfSeq, SMT DEF InOrder
<1>2. /\ Env(g) = G[n] /\ Env(h) = H[n]
      /\ \A i \in 1..n : G[i] = With(G[i - 1], o(i), vg(i)) /\ H[i] = With(H[i - 1], o(i), vh(i))
  <2>1. /\ Env(g) = G[n]
        /\ \A i \in 1..n : G[i] = With(G[i - 1], g.nodes[i].out, vg(i))
    BY <1>1, EnvFacts, Zenon
  <2>2. /\ Env(h) = H[n]
        /\ \A i \in 1..n : H[i] = With(H[i - 1], h.nodes[i].out, vh(i))
    <3>1. Len(h.nodes) \in Nat
      BY <1>0, <1>1, Zenon
    <3>2. QED
      BY <1>0, <3>1, EnvFacts, Zenon
  <2>3. QED
    BY <1>0, <1>1, <2>1, <2>2, Zenon
<1>3. \A i \in 1..n : M(i) = M(i - 1) \cup {o(i)} /\ o(i) \notin M(i - 1) /\ o(i) # extra
  <2>1. ASSUME NEW i \in 1..n
        PROVE  M(i) = M(i - 1) \cup {o(i)}
    BY <1>1, MadeNext, Zenon
  <2>2. \A i \in 1..n : o(i) \notin M(i - 1)
    BY <1>0, <1>1, Zenon DEF InOrder
  <2>3. \A i \in 1..n : o(i) # extra
    BY <1>0, <1>1, Zenon
  <2>4. QED
    BY <2>1, <2>2, <2>3, Zenon
<1>4. \A j \in 0..n : DOMAIN G[j] = M(j)
  BY <1>0, EnvNames, Zenon
<1>5. Agree(0) /\ \A j \in 1..n : Agree(j - 1) => vh(j) = vg(j)
  BY <1>0, <1>1, Zenon
<1> HIDE DEF G, H, M, o, vg, vh, n
<1>6. ASSUME NEW j \in 1..n, Agree(j - 1)
      PROVE  Agree(j)
  <2> DEFINE p == j - 1
             e == G[p]
             f == H[p]
             x == o(j)
             v == vg(j)
  <2>1. G[j] = With(e, x, v) /\ H[j] = With(f, x, v)
    BY <1>2, <1>5, <1>6, Zenon
  <2>2. M(j) = M(p) \cup {x} /\ x \notin M(p) /\ x # extra
    BY <1>3, Zenon
  <2>3. DOMAIN e = M(p)
    <3>1. p \in 0..n
      BY <1>1
    <3>2. QED
      BY <1>4, <3>1, Zenon
  <2>4. /\ \A y \in M(p) \ Gone : y \in DOMAIN f /\ f[y] = e[y]
        /\ extra \in DOMAIN f /\ f[extra] = d
    BY <1>6, Zenon
  <2> HIDE DEF e, f, x, v, p
  <2>5. /\ DOMAIN With(f, x, v) = DOMAIN f \cup {x} /\ With(f, x, v)[x] = v
        /\ \A y \in DOMAIN f : y # x => With(f, x, v)[y] = f[y]
    BY Zenon DEF With
  <2>6. /\ With(e, x, v)[x] = v
        /\ \A y \in DOMAIN e : y # x => With(e, x, v)[y] = e[y]
    BY Zenon DEF With
  <2>7. Has(j)
    BY <2>1, <2>2, <2>4, <2>5, Zenon
  <2>8. ASSUME NEW y \in M(j) \ Gone
        PROVE  y \in DOMAIN H[j] /\ H[j][y] = G[j][y]
    <3>1. CASE y = x
      BY <2>1, <2>5, <2>6, <3>1, Zenon
    <3>2. CASE y # x
      <4>1. y \in M(p) \ Gone
        BY <2>2, <3>2, Zenon
      <4>2. QED
        BY <2>1, <2>3, <2>4, <2>5, <2>6, <3>2, <4>1, Zenon
    <3>3. QED
      BY <3>1, <3>2, Zenon
  <2>9. QED
    BY <2>7, <2>8, Zenon
<1> DEFINE Bad == {i \in 0..n : ~Agree(i)}
<1>7. ASSUME Bad # {} PROVE FALSE
  <2>1. Bad \in SUBSET Nat
    BY <1>1
  <2>2. PICK i \in Bad : \A j \in Bad : i <= j
    BY <1>7, <2>1, Least, Zenon
  <2>3. i \in 0..n /\ ~Agree(i)
    BY Zenon
  <2> HIDE DEF Agree
  <2>4. i # 0
    BY <1>5, <2>3, Zenon
  <2>5. i \in 1..n /\ i - 1 \in 0..n /\ ~(i <= i - 1)
    BY <1>1, <2>3, <2>4
  <2>6. Agree(i - 1)
    BY <2>2, <2>5, Zenon
  <2>7. QED
    BY <1>6, <2>3, <2>5, <2>6, Zenon
<1>8. n \in 0..n
  BY <1>1
<1>9. Agree(n)
  BY <1>7, <1>8, Zenon
<1>10. QED
  BY <1>2, <1>9, Zenon DEF M, n

\* The graph with one grouped convolution made dense.
IsConv(n) == {"op", "ins", "out", "group"} \subseteq DOMAIN n /\ {1, 2} \subseteq DOMAIN n.ins

DenseConv(n, w, new) == [SetInput(n, w, new) EXCEPT !.group = 1]

LEMMA DenseNode ==
  ASSUME NEW n, NEW w, NEW new, NEW m, m = DenseConv(n, w, new),
         IsConv(n), n.ins[1] # w, n.ins[2] = w
  PROVE  m.op = n.op /\ m.out = n.out /\ m.group = 1 /\ m.ins[1] = n.ins[1] /\ m.ins[2] = new
<1> DEFINE k == SetInput(n, w, new)
<1>1. DOMAIN k = DOMAIN n /\ k.op = n.op /\ k.out = n.out
      /\ k.ins = [a \in DOMAIN n.ins |-> IF n.ins[a] = w THEN new ELSE n.ins[a]]
  BY DEF SetInput, IsConv
<1> HIDE DEF k
<1>2. k.ins[1] = n.ins[1] /\ k.ins[2] = new
  BY <1>1 DEF IsConv
<1>3. m = [k EXCEPT !.group = 1] /\ "group" \in DOMAIN k
  BY <1>1, Zenon DEF k, IsConv, DenseConv
<1>4. m.op = k.op /\ m.out = k.out /\ m.group = 1 /\ m.ins = k.ins
  BY <1>1, <1>3, SMT DEF IsConv
<1>5. QED
  BY <1>1, <1>2, <1>4, Zenon

GoneFrom(g, w) == IF Consumers(g, w) # {} THEN {} ELSE {w}

HasFields(g) == DOMAIN g = {"shape", "inits", "outputs", "nodes"}

\* The graph before its old weight is pruned.
DenseMid(g, i, w, new, d) ==
  [g EXCEPT !.inits = With(@, new, d), !.nodes[i] = DenseConv(@, w, new)]

LEMMA Pruned ==
  ASSUME NEW g, NEW w, HasFields(g)
  PROVE  LET h == PruneInit(g, w) IN
         /\ h.outputs = g.outputs /\ h.shape = g.shape /\ h.nodes = g.nodes
         /\ DOMAIN h.inits \subseteq DOMAIN g.inits
         /\ \A c \in DOMAIN g.inits \ GoneFrom(g, w) : c \in DOMAIN h.inits /\ h.inits[c] = g.inits[c]
<1>1. CASE Consumers(g, w) # {}
  BY <1>1, Zenon DEF PruneInit
<1>2. CASE Consumers(g, w) = {}
  <2> DEFINE f == [c \in DOMAIN g.inits \ {w} |-> g.inits[c]]
             k == [g EXCEPT !.inits = f]
  <2>1. PruneInit(g, w) = k /\ GoneFrom(g, w) = {w}
    BY <1>2, Zenon DEF PruneInit, GoneFrom
  <2>2. /\ DOMAIN f \subseteq DOMAIN g.inits
        /\ \A c \in DOMAIN g.inits \ {w} : c \in DOMAIN f /\ f[c] = g.inits[c]
    BY Zenon
  <2> HIDE DEF f
  <2>3. k.outputs = g.outputs /\ k.shape = g.shape /\ k.nodes = g.nodes /\ k.inits = f
    BY DEF HasFields
  <2> HIDE DEF k
  <2>4. QED
    BY <2>1, <2>2, <2>3, Zenon
<1>3. QED
  BY <1>1, <1>2, Zenon

LEMMA DenseGraph ==
  ASSUME NEW g, HasFields(g), NEW i, NEW w, NEW new, NEW d, new \notin DOMAIN g.inits,
         NEW m, m = DenseConv(g.nodes[i], w, new),
         NEW mid, mid = DenseMid(g, i, w, new, d)
  PROVE  LET h == PruneInit(mid, w) IN
         /\ h.outputs = g.outputs /\ h.shape = g.shape
         /\ h.nodes = [g.nodes EXCEPT ![i] = m] /\ mid.nodes = [g.nodes EXCEPT ![i] = m]
         /\ DOMAIN h.inits \subseteq DOMAIN g.inits \cup {new}
         /\ \A c \in (DOMAIN g.inits \cup {new}) \ GoneFrom(mid, w) :
              c \in DOMAIN h.inits /\ h.inits[c] = IF c = new THEN d ELSE g.inits[c]
<1>1. /\ mid.inits = With(g.inits, new, d) /\ mid.outputs = g.outputs /\ mid.shape = g.shape
      /\ mid.nodes = [g.nodes EXCEPT ![i] = m]
      /\ HasFields(mid)
  BY Zenon DEF DenseMid, DenseConv, HasFields
<1>2. /\ DOMAIN mid.inits = DOMAIN g.inits \cup {new}
      /\ \A c \in DOMAIN g.inits \cup {new} : mid.inits[c] = IF c = new THEN d ELSE g.inits[c]
  BY <1>1, Zenon DEF With
<1> DEFINE h == PruneInit(mid, w)
<1>3. /\ h.outputs = mid.outputs /\ h.shape = mid.shape /\ h.nodes = mid.nodes
      /\ DOMAIN h.inits \subseteq DOMAIN mid.inits
      /\ \A c \in DOMAIN mid.inits \ GoneFrom(mid, w) : c \in DOMAIN h.inits /\ h.inits[c] = mid.inits[c]
  BY <1>1, Pruned
<1> HIDE DEF h
<1>4. QED
  BY <1>1, <1>2, <1>3, ZenonT(60) DEF h

\* What is known of such a step, from a graph g with node n to h with node m.
DenseStep(g, i, n, w, new, d, m, mid, Gone, h) ==
  /\ n = g.nodes[i] /\ n.op = "Conv" /\ w = n.ins[2] /\ IsInit(g, w)
  /\ g.inits[w].shape[1] % n.group = 0
  /\ new = Append(w, "dense") /\ d = Dense(g.inits[w], n.group)
  /\ m.op = "Conv" /\ m.out = n.out /\ m.group = 1 /\ m.ins[1] = n.ins[1] /\ m.ins[2] = new
  /\ mid.nodes = [g.nodes EXCEPT ![i] = m] /\ Gone = GoneFrom(mid, w)
  /\ h.outputs = g.outputs /\ h.shape = g.shape /\ h.nodes = [g.nodes EXCEPT ![i] = m]
  /\ DOMAIN h.inits \subseteq DOMAIN g.inits \cup {new}
  /\ \A c \in (DOMAIN g.inits \cup {new}) \ Gone :
       c \in DOMAIN h.inits /\ h.inits[c] = IF c = new THEN d ELSE g.inits[c]

LEMMA OneDense ==
  ASSUME NEW g, WellFormed(g), NEW i \in DOMAIN g.nodes, NEW n, NEW w, NEW new, NEW d, NEW m,
         NEW mid, NEW Gone, NEW h, DenseStep(g, i, n, w, new, d, m, mid, Gone, h)
  PROVE  /\ Meaning(h) = Meaning(g)
         /\ \A y \in Made(g, Len(g.nodes)) \ Gone : Env(h)[y] = Env(g)[y]
<1> DEFINE L == Len(g.nodes)
<1>1. InOrder(g) /\ ConvsFit(g)
  BY Zenon DEF WellFormed
<1>2. L \in Nat /\ DOMAIN g.nodes = 1..L
  BY <1>1, ElementOfSeq, SMT DEF InOrder
<1>3. 1..2 \subseteq DOMAIN n.ins /\ Range(n.ins) \subseteq Made(g, i - 1)
  <2>1. n.op \in Layers
    BY Zenon DEF Layers, DenseStep
  <2>2. QED
    BY <1>1, <2>1, Zenon DEF InOrder, DenseStep
<1>4. /\ n.group \in Extents /\ n.ins[1] # w
      /\ \A a \in 2..3 : Env(g)[n.ins[1]].shape[a] \in Extents
      /\ g.inits[w].shape \in Seq(Extents) /\ Len(g.inits[w].shape) = 2
      /\ new \notin Made(g, L)
  BY <1>1, Zenon DEF ConvsFit, DenseStep
<1>8. /\ h.nodes[i] = m /\ \A j \in DOMAIN g.nodes : j # i => h.nodes[j] = g.nodes[j]
      /\ Len(h.nodes) = L /\ DOMAIN mid.nodes = DOMAIN g.nodes
      /\ \A j \in DOMAIN g.nodes : mid.nodes[j] = h.nodes[j]
  <2> DEFINE f == [g.nodes EXCEPT ![i] = m]
  <2>1. DOMAIN f = DOMAIN g.nodes /\ f[i] = m /\ \A j \in DOMAIN g.nodes : j # i => f[j] = g.nodes[j]
    BY Zenon
  <2> HIDE DEF f
  <2>2. Len(f) = L
    <3> HIDE DEF L
    <3>1. QED
      BY <1>2, <2>1
  <2>3. h.nodes = f /\ mid.nodes = f
    BY Zenon DEF f, DenseStep
  <2>4. QED
    BY <2>1, <2>2, <2>3, Zenon
<1>9. w \in DOMAIN g.inits /\ w \in Made(g, 0) /\ <<"x">> \notin DOMAIN g.inits /\ w # <<"x">>
  BY <1>1, Zenon DEF IsInit, InOrder, Made, DenseStep
<1>10. \A k \in 0..L : Made(g, 0) \subseteq Made(g, k) /\ Made(g, k) \subseteq Made(g, L)
  <2>1. \A k \in 0..L : 1..0 \subseteq 1..k /\ 1..k \subseteq 1..L
    BY <1>2
  <2>2. QED
    BY <2>1, Zenon DEF Made
<1>11. new \notin DOMAIN g.inits /\ new # w /\ new # <<"x">>
  <2>1. 0 \in 0..L
    BY <1>2
  <2>2. new \notin Made(g, 0)
    BY <1>4, <1>10, <2>1, Zenon
  <2>3. QED
    BY <1>9, <2>2, Zenon DEF Made
<1> DEFINE G == EnvAt(g)
           H == EnvAt(h)
           Agree(j) == AgreeAt(g, h, Gone, new, d, j)
<1>12. Gone \subseteq {w}
  BY Zenon DEF GoneFrom, DenseStep
<1>13. /\ G[0] = With(g.inits, <<"x">>, Input(g.shape))
       /\ H[0] = With(h.inits, <<"x">>, Input(g.shape))
  <2>1. EnvAt(g)[0] = With(g.inits, <<"x">>, Input(g.shape))
    BY <1>2, EnvFacts, Zenon
  <2>2. EnvAt(h)[0] = With(h.inits, <<"x">>, Input(h.shape))
    <3>1. Len(h.nodes) \in Nat
      BY <1>2, <1>8, Zenon
    <3>2. QED
      BY <3>1, EnvFacts, Zenon
  <2>3. QED
    BY <2>1, <2>2, Zenon DEF DenseStep
<1> HIDE DEF G, H, L
<1>14. Agree(0)
  <2> DEFINE v == Input(g.shape)
             c == h.inits
             b == g.inits
             X == <<"x">>
  <2>1. c[new] = d /\ new \in DOMAIN c
        /\ \A y \in DOMAIN b \ Gone : y \in DOMAIN c /\ c[y] = b[y]
    <3>1. \A y \in (DOMAIN b \cup {new}) \ Gone : y \in DOMAIN c /\ c[y] = IF y = new THEN d ELSE b[y]
      BY Zenon DEF DenseStep
    <3> HIDE DEF b, c
    <3>2. new \notin Gone
      BY <1>11, <1>12, Zenon
    <3>3. \A y \in DOMAIN b : y # new
      BY <1>11, Zenon DEF b
    <3>4. QED
      BY <3>1, <3>2, <3>3, Zenon
  <2>2. Made(g, 0) = {X} \cup DOMAIN b
    <3>1. 1..0 = {}
      OBVIOUS
    <3>2. {g.nodes[j].out : j \in 1..0} = {}
      BY <3>1, Zenon
    <3>3. QED
      BY <3>2, Zenon DEF Made
  <2>3. X \notin DOMAIN b /\ new # X
    BY <1>9, <1>11, Zenon
  <2>4. H[0] = With(c, X, v) /\ G[0] = With(b, X, v)
    BY <1>13, Zenon
  <2> HIDE DEF v, c, b, X
  <2>5. /\ DOMAIN With(c, X, v) = DOMAIN c \cup {X} /\ With(c, X, v)[X] = v
        /\ \A y \in DOMAIN c : y # X => With(c, X, v)[y] = c[y]
    BY Zenon DEF With
  <2>6. /\ With(b, X, v)[X] = v
        /\ \A y \in DOMAIN b : y # X => With(b, X, v)[y] = b[y]
    BY Zenon DEF With
  <2>7. new \in DOMAIN H[0] /\ H[0][new] = d
    BY <2>1, <2>3, <2>4, <2>5, Zenon
  <2>8. ASSUME NEW y \in Made(g, 0) \ Gone
        PROVE  y \in DOMAIN H[0] /\ H[0][y] = G[0][y]
    <3>1. CASE y = X
      BY <2>4, <2>5, <2>6, <3>1, Zenon
    <3>2. CASE y # X
      <4>1. y \in DOMAIN b \ Gone
        BY <2>2, <3>2, Zenon
      <4>2. QED
        BY <2>1, <2>4, <2>5, <2>6, <3>2, <4>1, Zenon
    <3>3. QED
      BY <3>1, <3>2, Zenon
  <2>9. QED
    BY <2>7, <2>8, Zenon DEF AgreeAt, G, H
<1>15. ASSUME NEW j \in DOMAIN g.nodes, Agree(j - 1)
       PROVE  Value(h.nodes[j], H[j - 1]) = Value(g.nodes[j], G[j - 1])
  <2> DEFINE e == G[j - 1]
             f == H[j - 1]
             M == Made(g, j - 1)
  <2>1. /\ \A y \in M \ Gone : y \in DOMAIN f /\ f[y] = e[y]
        /\ f[new] = d
    BY <1>15, Zenon DEF AgreeAt, G, H
  <2>2. j - 1 \in 0..L /\ 0 \in 0..L
    BY <1>2
  <2>3. CASE j = i
    <3>1. n.ins[1] \in M /\ n.ins[1] # w
      <4>1. 1 \in DOMAIN n.ins
        BY <1>3
      <4>2. n.ins[1] \in Range(n.ins)
        BY <4>1, Zenon DEF Range
      <4>3. QED
        BY <1>3, <1>4, <2>3, <4>2, Zenon
    <3>2. f[n.ins[1]] = e[n.ins[1]]
      BY <1>12, <2>1, <3>1, Zenon
    <3>3. e[n.ins[1]] = Env(g)[n.ins[1]]
      <4>1. Env(g) = G[L]
        BY <1>2, EnvFacts, Zenon DEF G, L
      <4>2. \A y \in M : G[L][y] = e[y]
        BY <1>1, <2>2, EnvNames, Zenon DEF G, L
      <4>3. QED
        BY <3>1, <4>1, <4>2, Zenon
    <3>4. e[w] = g.inits[w]
      <4>1. w \in M
        BY <1>9, <1>10, <2>2, Zenon
      <4>2. G[L][w] = e[w] /\ G[L][w] = G[0][w]
        BY <1>1, <1>9, <2>2, <4>1, EnvNames, Zenon DEF G, L
      <4>3. G[0][w] = g.inits[w]
        BY <1>9, <1>13, Zenon DEF With
      <4>4. QED
        BY <4>2, <4>3, Zenon
    <3> DEFINE x == e[n.ins[1]]
               c == g.inits[w]
               group == n.group
    <3>5. Value(n, e) = Convolved(x, c, group)
      <4>1. Value(n, e) = Convolved(e[n.ins[1]], e[n.ins[2]], n.group)
        <5>1. n.op = "Conv"
          BY Zenon DEF DenseStep
        <5>2. QED
          BY <5>1, ConvValue, Zenon
      <4>2. n.ins[2] = w
        BY Zenon DEF DenseStep
      <4>3. QED
        BY <3>4, <4>1, <4>2, Zenon
    <3>6. Value(m, f) = Convolved(x, d, 1)
      <4>1. Value(m, f) = Convolved(f[m.ins[1]], f[m.ins[2]], m.group)
        <5>1. m.op = "Conv"
          BY Zenon DEF DenseStep
        <5>2. QED
          BY <5>1, ConvValue, Zenon
      <4>2. m.ins[1] = n.ins[1] /\ m.ins[2] = new /\ m.group = 1
        BY Zenon DEF DenseStep
      <4>3. QED
        BY <2>1, <3>2, <4>1, <4>2, Zenon
    <3>7. x.shape[2] \in Extents /\ x.shape[3] \in Extents
      <4>1. 2 \in 2..3 /\ 3 \in 2..3
        OBVIOUS
      <4>2. QED
        BY <1>4, <3>3, <4>1, Zenon
    <3>8. PICK o \in Extents, p \in Extents : c.shape = <<o, p>>
      <4> DEFINE s == c.shape
      <4>1. s \in Seq(Extents) /\ Len(s) = 2
        BY <1>4, Zenon
      <4> HIDE DEF s
      <4>2. s[1] \in Extents /\ s[2] \in Extents /\ s = <<s[1], s[2]>>
        BY <4>1
      <4>3. QED
        BY <4>2, Zenon DEF s
    <3>9. group \in Extents /\ d = Dense(c, group) /\ c.shape[1] % group = 0
      BY <1>4, Zenon DEF DenseStep
    <3>10. o % group = 0
      <4>1. <<o, p>>[1] = o
        OBVIOUS
      <4>2. QED
        BY <3>8, <3>9, <4>1, Zenon
    <3> HIDE DEF x, c, group
    <3>11. Convolved(x, Dense(c, group), 1) = Convolved(x, c, group)
      BY <3>7, <3>8, <3>9, <3>10, DenseIsGrouped
    <3>12. Value(h.nodes[j], f) = Value(m, f) /\ Value(g.nodes[j], e) = Value(n, e)
      BY <1>8, <2>3, Zenon DEF DenseStep
    <3>13. QED
      BY <3>5, <3>6, <3>9, <3>11, <3>12, Zenon
  <2>4. CASE j # i
    <3> DEFINE k == g.nodes[j]
    <3>1. h.nodes[j] = k /\ mid.nodes[j] = k
      BY <1>8, <2>4, Zenon
    <3>2. /\ k.op \in Ops /\ Range(k.ins) \subseteq M
          /\ 1..(IF k.op \in Layers THEN 2 ELSE 1) \subseteq DOMAIN k.ins
      BY <1>1, Zenon DEF InOrder
    <3>3. Range(k.ins) \cap Gone = {}
      <4>1. CASE Consumers(mid, w) = {}
        <5>1. j \notin Consumers(mid, w)
          BY <4>1, Zenon
        <5>2. w \notin Range(k.ins)
          BY <1>8, <3>1, <5>1, Zenon DEF Consumers
        <5>3. QED
          BY <1>12, <5>2, Zenon
      <4>2. CASE Consumers(mid, w) # {}
        BY <4>2, Zenon DEF GoneFrom, DenseStep
      <4>3. QED
        BY <4>1, <4>2, Zenon
    <3> HIDE DEF k
    <3>4. \A a \in DOMAIN k.ins : f[k.ins[a]] = e[k.ins[a]]
      BY <2>1, <3>2, <3>3, Zenon DEF Range
    <3>5. 1 \in DOMAIN k.ins /\ (k.op \in Layers => 2 \in DOMAIN k.ins)
      BY <3>2
    <3> HIDE DEF e, f, M
    <3>6. Value(k, f) = Value(k, e)
      BY <3>2, <3>4, <3>5, ValueReads, Zenon
    <3>7. QED
      BY <3>1, <3>6, Zenon DEF e, f, k
  <2>5. QED
    BY <2>3, <2>4, Zenon
<1>16. \A j \in DOMAIN g.nodes : h.nodes[j].out = g.nodes[j].out
  BY <1>8, Zenon DEF DenseStep
<1> DEFINE Eh == Env(h)
           Eg == Env(g)
<1>17. \A y \in Made(g, L) \ Gone : Eh[y] = Eg[y]
  <2>1. /\ \A j \in DOMAIN g.nodes : g.nodes[j].out # new
        /\ Len(h.nodes) = Len(g.nodes)
    <3>1. \A j \in 1..L : g.nodes[j].out \in Made(g, L)
      BY Zenon DEF Made
    <3>2. QED
      BY <1>2, <1>4, <1>8, <3>1, Zenon DEF L
  <2>2. \A y \in Made(g, Len(g.nodes)) \ Gone : Env(h)[y] = Env(g)[y]
    <3>1. SameNodes(g, h, Gone, new, d)
      BY <1>1, <1>14, <1>15, <1>16, <2>1, Zenon DEF SameNodes, G, H
    <3>2. QED
      BY <3>1, ByNodes, Zenon
  <2>3. QED
    BY <2>2, Zenon DEF L
<1>18. \A y \in g.outputs : Eh[y] = Eg[y]
  BY <1>1, <1>9, <1>12, <1>17, Zenon DEF InOrder, L
<1> HIDE DEF Eh, Eg
<1>19. [y \in g.outputs |-> Eh[y]] = [y \in g.outputs |-> Eg[y]]
  BY <1>18, Zenon
<1>20. Meaning(h) = Meaning(g)
  <2>1. h.outputs = g.outputs
    BY Zenon DEF DenseStep
  <2>2. QED
    BY <1>19, <2>1, Zenon DEF Meaning, Eh, Eg
<1>21. QED
  BY <1>17, <1>20, Zenon DEF L, Eh, Eg

\* Every step that replaces a convolution is such a step.
LEMMA DensifySteps ==
  ASSUME WellFormed(graph), Densify, graph' # graph
  PROVE  \E i \in DOMAIN graph.nodes : \E n, w, new, d, m, mid, Gone :
           DenseStep(graph, i, n, w, new, d, m, mid, Gone, graph')
<1>1. PICK i \in FirstOf(Grouped(graph)) :
        LET w == graph.nodes[i].ins[2]
            new == Append(w, "dense")
        IN /\ IsInit(graph, w) /\ graph.inits[w].shape[1] % graph.nodes[i].group = 0
           /\ graph' = PruneInit([graph EXCEPT
                           !.inits = With(@, new, Dense(graph.inits[w], graph.nodes[i].group)),
                           !.nodes[i] = [SetInput(@, w, new) EXCEPT !.group = 1]], w)
  BY Zenon DEF Densify, Refuse
<1>2. i \in DOMAIN graph.nodes /\ graph.nodes[i].op = "Conv"
  BY Zenon DEF FirstOf, Grouped
<1> DEFINE n == graph.nodes[i]
           w == n.ins[2]
           new == Append(w, "dense")
           d == Dense(graph.inits[w], n.group)
           m == DenseConv(n, w, new)
           mid == DenseMid(graph, i, w, new, d)
           h == PruneInit(mid, w)
<1>3. /\ IsInit(graph, w) /\ graph.inits[w].shape[1] % n.group = 0
      /\ graph' = h
  BY <1>1, Zenon DEF DenseMid, DenseConv
<1>4. /\ HasFields(graph)
      /\ {"op", "ins", "out"} \subseteq DOMAIN n /\ 1..2 \subseteq DOMAIN n.ins
  <2>1. n.op \in Layers
    BY <1>2, Zenon DEF Layers
  <2>2. QED
    BY <1>2, <2>1, Zenon DEF WellFormed, InOrder, HasFields
<1>5. "group" \in DOMAIN n /\ n.ins[1] # w /\ new \notin Made(graph, Len(graph.nodes))
  BY <1>2, Zenon DEF WellFormed, ConvsFit
<1> HIDE DEF n, w, new, d
<1>6. m.op = n.op /\ m.out = n.out /\ m.group = 1 /\ m.ins[1] = n.ins[1] /\ m.ins[2] = new
  <2>1. IsConv(n)
    BY <1>4, <1>5 DEF IsConv
  <2>2. n.ins[2] = w
    BY Zenon DEF w
  <2> DEFINE k == m
  <2>3. k = DenseConv(n, w, new)
    BY Zenon
  <2> HIDE DEF k
  <2>4. k.op = n.op /\ k.out = n.out /\ k.group = 1 /\ k.ins[1] = n.ins[1] /\ k.ins[2] = new
    BY <1>5, <2>1, <2>2, <2>3, DenseNode
  <2>5. QED
    BY <2>4, Zenon DEF k
<1>7. new \notin DOMAIN graph.inits
  BY <1>5, Zenon DEF Made
<1>8. /\ h.outputs = graph.outputs /\ h.shape = graph.shape
      /\ h.nodes = [graph.nodes EXCEPT ![i] = m] /\ mid.nodes = [graph.nodes EXCEPT ![i] = m]
      /\ DOMAIN h.inits \subseteq DOMAIN graph.inits \cup {new}
      /\ \A c \in (DOMAIN graph.inits \cup {new}) \ GoneFrom(mid, w) :
           c \in DOMAIN h.inits /\ h.inits[c] = IF c = new THEN d ELSE graph.inits[c]
  <2>1. m = DenseConv(graph.nodes[i], w, new)
    BY Zenon DEF n
  <2>2. mid = DenseMid(graph, i, w, new, d)
    BY Zenon
  <2> HIDE DEF m, mid
  <2>3. QED
    BY <1>4, <1>7, <2>1, <2>2, DenseGraph
<1> HIDE DEF m, mid, h
<1>9. n = graph.nodes[i] /\ w = n.ins[2] /\ new = Append(w, "dense") /\ d = Dense(graph.inits[w], n.group)
  BY Zenon DEF n, w, new, d
<1>10. n.op = "Conv"
  BY <1>2, <1>9, Zenon
<1> DEFINE Gone == GoneFrom(mid, w)
<1>11. DenseStep(graph, i, n, w, new, d, m, mid, Gone, h)
  BY <1>3, <1>6, <1>8, <1>9, <1>10, Zenon DEF DenseStep
<1> HIDE DEF Gone
<1>12. QED
  BY <1>2, <1>3, <1>11, Zenon

\* A step of depthwise_to_dense changes no output.
THEOREM DensifyKeepsMeaning ==
  GraphSpec => [][WellFormed(graph) /\ Densify => Meaning(graph') = Meaning(graph)]_gvars
<1>1. ASSUME WellFormed(graph), Densify
      PROVE  Meaning(graph') = Meaning(graph)
  <2>1. CASE graph' = graph
    BY <2>1, Zenon
  <2>2. CASE graph' # graph
    <3>1. PICK i \in DOMAIN graph.nodes : \E n, w, new, d, m, mid, Gone :
            DenseStep(graph, i, n, w, new, d, m, mid, Gone, graph')
      BY <1>1, <2>2, DensifySteps, Zenon
    <3>2. PICK n, w, new, d, m, mid, Gone : DenseStep(graph, i, n, w, new, d, m, mid, Gone, graph')
      BY <3>1, Zenon
    <3>3. QED
      BY <1>1, <3>2, OneDense
  <2>3. QED
    BY <2>1, <2>2, Zenon
<1>2. QED
  BY <1>1, PTL

-----------------------------------------------------------------------------
(* transpose_fold: the permuted rows.                                       *)

Shape3 == [1..3 -> Extents]

-------------------------------------------------------------------------------
(* transpose_fold: the permuted rows.                                       *)

Box(s) == {u \in [1..3 -> Nat] : \A a \in 1..3 : u[a] < s[a]}
Volume(s) == (s[1] * s[2]) * s[3]

LEMMA Triple ==
  ASSUME NEW s, s = [k \in 1..3 |-> s[k]]
  PROVE  s = <<s[1], s[2], s[3]>>
OBVIOUS

LEMMA MaxThree ==
  ASSUME NEW t \in SUBSET (1..3)
  PROVE  /\ 3 \in t => Max(t) = 3
         /\ 3 \notin t /\ 2 \in t => Max(t) = 2
         /\ t = {1} => Max(t) = 1
<1>1. t # {} => Max(t) \in t /\ \A y \in t : Max(t) >= y
  <2>1. CASE 3 \in t
    <3>1. \A y \in t : 3 >= y
      OBVIOUS
    <3>2. QED
      BY <2>1, <3>1, Zenon DEF Max
  <2>2. CASE 3 \notin t /\ 2 \in t
    <3>1. \A y \in t : 2 >= y
      BY <2>2
    <3>2. QED
      BY <2>2, <3>1, Zenon DEF Max
  <2>3. CASE 3 \notin t /\ 2 \notin t
    <3>1. \A y \in t : y = 1
      BY <2>3
    <3>2. \A y \in t : 1 >= y
      BY <3>1
    <3>3. t # {} => 1 \in t
      BY <3>1, Zenon
    <3>4. QED
      BY <3>2, <3>3, Zenon DEF Max
  <2>4. QED
    BY <2>1, <2>2, <2>3, Zenon
<1> DEFINE m == Max(t)
<1> HIDE DEF m
<1>2. t # {} => m \in t /\ \A y \in t : m >= y
  BY <1>1, Zenon DEF m
<1>3. t # {} => m = 1 \/ m = 2 \/ m = 3
  <2>1. \A y \in 1..3 : y = 1 \/ y = 2 \/ y = 3
    OBVIOUS
  <2>2. QED
    BY <1>2, <2>1, Zenon
<1>4. ~(1 >= 2) /\ ~(1 >= 3) /\ ~(2 >= 3)
  OBVIOUS
<1>5. /\ 3 \in t => m = 3
      /\ 3 \notin t /\ 2 \in t => m = 2
  BY <1>2, <1>3, <1>4, Zenon
<1>6. t = {1} => m = 1
  BY <1>2, Zenon
<1>7. QED
  BY <1>5, <1>6, Zenon DEF m

Ravels(i, s, f) ==
  f = [t \in SUBSET DOMAIN s |-> IF t = {} THEN 0
                                 ELSE f[t \ {Max(t)}] * s[[a \in DOMAIN s |-> a][Max(t)]] + i[[a \in DOMAIN s |-> a][Max(t)]]]

Ravel1(i, s, t) == IF 1 \in t THEN 0 * s[1] + i[1] ELSE 0
Ravel2(i, s, t) == IF 2 \in t THEN Ravel1(i, s, t) * s[2] + i[2] ELSE Ravel1(i, s, t)
Ravel3(i, s, t) == IF 3 \in t THEN Ravel2(i, s, t) * s[3] + i[3] ELSE Ravel2(i, s, t)

LEMMA RavelIs ==
  ASSUME NEW s \in Shape3, NEW i \in [1..3 -> Nat]
  PROVE  Ravel(i, s) = ((0 * s[1] + i[1]) * s[2] + i[2]) * s[3] + i[3]
<1> DEFINE f == CHOOSE h : Ravels(i, s, h)
           g == [t \in SUBSET (1..3) |-> Ravel3(i, s, t)]
           q == [a \in 1..3 |-> a]
<1>1. DOMAIN s = 1..3
  BY DEF Shape3
<1>2. Ravel(i, s) = f[1..3]
  <2>1. DOMAIN [a \in DOMAIN s |-> a] = 1..3
    BY <1>1, Zenon
  <2>2. Ravel(i, s) = f[DOMAIN [a \in DOMAIN s |-> a]]
    BY <1>1, Zenon DEF Ravel, FoldLeft, MapThenFoldSet, Ravels
  <2>3. QED
    BY <2>1, <2>2, Zenon
<1>3. ASSUME NEW t \in SUBSET (1..3)
      PROVE  g[t] = IF t = {} THEN 0 ELSE g[t \ {Max(t)}] * s[q[Max(t)]] + i[q[Max(t)]]
  <2>1. g[t] = Ravel3(i, s, t) /\ \A y : g[t \ {y}] = Ravel3(i, s, t \ {y})
    <3>1. \A y : t \ {y} \in SUBSET (1..3)
      BY Zenon
    <3>2. QED
      BY <3>1, Zenon
  <2> HIDE DEF g
  <2>2. CASE 3 \in t
    <3>1. Max(t) = 3
      BY <2>2, MaxThree, Zenon
    <3>2. Ravel3(i, s, t \ {3}) = Ravel2(i, s, t)
      BY DEF Ravel3, Ravel2, Ravel1
    <3>3. Ravel3(i, s, t) = Ravel2(i, s, t) * s[3] + i[3]
      BY <2>2, Zenon DEF Ravel3
    <3>4. q[3] = 3 /\ t # {}
      BY <2>2
    <3>5. QED
      BY <2>1, <3>1, <3>2, <3>3, <3>4, Zenon
  <2>3. CASE 3 \notin t /\ 2 \in t
    <3>1. Max(t) = 2
      BY <2>3, MaxThree, Zenon
    <3>2. Ravel3(i, s, t \ {2}) = Ravel1(i, s, t)
      BY <2>3 DEF Ravel3, Ravel2, Ravel1
    <3>3. Ravel3(i, s, t) = Ravel1(i, s, t) * s[2] + i[2]
      BY <2>3, Zenon DEF Ravel3, Ravel2
    <3>4. q[2] = 2 /\ t # {}
      BY <2>3
    <3>5. QED
      BY <2>1, <3>1, <3>2, <3>3, <3>4, Zenon
  <2>4. CASE 3 \notin t /\ 2 \notin t /\ 1 \in t
    <3>1. t = {1}
      <4>1. \A y \in t : y = 1
        BY <2>4
      <4>2. QED
        BY <2>4, <4>1, Zenon
    <3>2. Max(t) = 1
      BY <3>1, MaxThree, Zenon
    <3>3. Ravel3(i, s, t \ {1}) = 0
      BY <2>4 DEF Ravel3, Ravel2, Ravel1
    <3>4. Ravel3(i, s, t) = 0 * s[1] + i[1]
      BY <2>4, Zenon DEF Ravel3, Ravel2, Ravel1
    <3>5. q[1] = 1 /\ t # {}
      BY <2>4
    <3>6. QED
      BY <2>1, <3>2, <3>3, <3>4, <3>5, Zenon
  <2>5. CASE t = {}
    <3>1. Ravel3(i, s, t) = 0
      BY <2>5, Zenon DEF Ravel3, Ravel2, Ravel1
    <3>2. QED
      BY <2>1, <2>5, <3>1, Zenon
  <2>6. t = {} \/ 1 \in t \/ 2 \in t \/ 3 \in t
    <3>1. \A y \in t : y = 1 \/ y = 2 \/ y = 3
      OBVIOUS
    <3>2. QED
      BY <3>1, Zenon
  <2>7. QED
    BY <2>2, <2>3, <2>4, <2>5, <2>6, Zenon
<1>4. Ravels(i, s, g)
  <2>1. g = [t \in SUBSET (1..3) |-> g[t]]
    BY Zenon
  <2> HIDE DEF g
  <2>2. QED
    BY <1>1, <1>3, <2>1, Zenon DEF Ravels
<1>5. Ravels(i, s, f)
  BY <1>4, Zenon
<1> HIDE DEF f, g
<1>6. \A t \in SUBSET (1..3) : f[t] = IF t = {} THEN 0 ELSE f[t \ {Max(t)}] * s[q[Max(t)]] + i[q[Max(t)]]
  BY <1>1, <1>5, Zenon DEF Ravels
<1>7. f[1..3] = f[{1, 2}] * s[3] + i[3]
  <2>1. 1..3 \in SUBSET (1..3) /\ 3 \in 1..3 /\ 1..3 # {} /\ (1..3) \ {3} = {1, 2} /\ q[3] = 3
    OBVIOUS
  <2>2. Max(1..3) = 3
    BY <2>1, MaxThree, Zenon
  <2>3. QED
    BY <1>6, <2>1, <2>2, ZenonT(60)
<1>8. f[{1, 2}] = f[{1}] * s[2] + i[2]
  <2>1. {1, 2} \in SUBSET (1..3) /\ 3 \notin {1, 2} /\ 2 \in {1, 2} /\ {1, 2} # {} /\ {1, 2} \ {2} = {1} /\ q[2] = 2
    OBVIOUS
  <2>2. Max({1, 2}) = 2
    BY <2>1, MaxThree, Zenon
  <2>3. QED
    BY <1>6, <2>1, <2>2, Zenon
<1>9. f[{1}] = f[{}] * s[1] + i[1] /\ f[{}] = 0
  <2>1. {1} \in SUBSET (1..3) /\ {} \in SUBSET (1..3) /\ {1} # {} /\ {1} \ {1} = {} /\ q[1] = 1
    OBVIOUS
  <2>2. Max({1}) = 1
    BY <2>1, MaxThree, Zenon
  <2>3. QED
    BY <1>6, <2>1, <2>2, ZenonT(60)
<1>10. QED
  BY <1>2, <1>7, <1>8, <1>9, Zenon

LEMMA SingleIndices ==
  ASSUME NEW n \in Nat \ {0}
  PROVE  /\ Prod(<<n>>) = n
         /\ Indices(<<n>>) = {<<p>> : p \in 0..n - 1}
<1> DEFINE s == <<n>>
<1>1. s \in Seq(Nat) /\ Len(s) = 1 /\ DOMAIN s = 1..1 /\ s[1] = n
  OBVIOUS
<1>2. ProductAt(s, 1..1) = n
  BY DEF ProductAt, Factor
<1>3. ProductAt([k \in 1..0 |-> s[k + 1]], 1..0) = 1
  BY DEF ProductAt, Factor
<1> HIDE DEF s
<1>4. 1 \in 0..3 /\ 1 \in 1..1 /\ 1 - 1 = 0
  OBVIOUS
<1>5. Prod(s) = n /\ Prod(SubSeq(s, 1 + 1, 1)) = 1
  BY <1>1, <1>2, <1>3, <1>4, Rests, Zenon
<1>6. ASSUME NEW p \in 0..n - 1
      PROVE Unravel(p, s) = <<p>>
  <2> DEFINE u == [k \in 1..1 |-> (p \div Prod(SubSeq(s, k + 1, 1))) % s[k]]
  <2>1. Unravel(p, s) = u
    BY <1>1, Zenon DEF Unravel
  <2>2. p \div 1 = p
    OBVIOUS
  <2>3. p % n = p
    BY SmallMod, Zenon
  <2>4. u[1] = p
    BY <1>1, <1>4, <1>5, <2>2, <2>3, Zenon
  <2>5. u = [k \in 1..1 |-> u[k]]
    BY Zenon
  <2> HIDE DEF u
  <2>6. u = <<u[1]>>
    BY <2>5
  <2>7. QED
    BY <2>1, <2>4, <2>6, Zenon
<1>7. Indices(s) = {<<p>> : p \in 0..n - 1}
  <2>1. Indices(s) = {Unravel(p, s) : p \in 0..n - 1}
    BY <1>5, Zenon DEF Indices, Range0
  <2> DEFINE U(p) == Unravel(p, s)
  <2>2. \A p \in 0..n - 1 : U(p) = <<p>>
    BY <1>6, Zenon
  <2> HIDE DEF U
  <2>3. {U(p) : p \in 0..n - 1} = {<<p>> : p \in 0..n - 1}
    BY <2>2
  <2>4. QED
    BY <2>1, <2>3, Zenon DEF U
<1>8. QED
  BY <1>5, <1>7, Zenon DEF s

\* The place of an index, and the index of that place.
LEMMA Places ==
  ASSUME NEW a \in Nat \ {0}, NEW b \in Nat \ {0}, NEW c \in Nat \ {0}
  PROVE  \A i \in 0..a - 1, j \in 0..b - 1, k \in 0..c - 1 :
           /\ (i * b + j) * c + k \in 0..((a * b) * c) - 1
           /\ Unravel((i * b + j) * c + k, <<a, b, c>>) = <<i, j, k>>
<1> TAKE i \in 0..a - 1, j \in 0..b - 1, k \in 0..c - 1
<1> DEFINE q == b * i + j
           p == c * q + k
           rest == c * j + k
           n == (a * b) * c
<1>0. p = (i * b + j) * c + k
  OBVIOUS
<1>1. b * c \in Nat \ {0} /\ a * b \in Nat \ {0} /\ n = (a * b) * c
  OBVIOUS
<1>2. q \in 0..a * b - 1 /\ q \div b = i /\ q % b = j
  BY InRows
<1>3. rest \in 0..b * c - 1
  BY InRows
<1>4. p = (b * c) * i + rest
  OBVIOUS
<1> HIDE DEF q, rest, n
<1>5. p \in 0..n - 1 /\ p \div c = q /\ p % c = k
  BY <1>1, <1>2, InRows
<1> HIDE DEF p
<1>6. p \in Nat
  BY <1>5
<1>7. p \div (b * c) = i
  <2>1. i \in Nat
    OBVIOUS
  <2>2. QED
    BY <1>1, <1>3, <1>4, <1>6, <2>1, ModUnique
<1>8. i % a = i
  BY SmallMod, Zenon
<1>9. Unravel(p, <<a, b, c>>) = <<(p \div (b * c)) % a, (p \div c) % b, p % c>>
  BY <1>6, TripleUnravel, ZenonT(60)
<1>10. Unravel(p, <<a, b, c>>) = <<i, j, k>>
  BY <1>2, <1>5, <1>7, <1>8, <1>9, Zenon
<1>11. QED
  BY <1>0, <1>5, <1>10, Zenon DEF n

\* Each place has an index.
EachPlace(a, b, c) ==
  \A p \in 0..((a * b) * c) - 1 :
    \E i \in 0..a - 1, j \in 0..b - 1, k \in 0..c - 1 : p = (i * b + j) * c + k

LEMMA PlaceParts ==
  ASSUME NEW a \in Nat \ {0}, NEW b \in Nat \ {0}, NEW c \in Nat \ {0}
  PROVE  EachPlace(a, b, c)
<1> SUFFICES \A p \in 0..((a * b) * c) - 1 :
               \E i \in 0..a - 1, j \in 0..b - 1, k \in 0..c - 1 : p = (i * b + j) * c + k
  BY Zenon DEF EachPlace
<1> TAKE p \in 0..((a * b) * c) - 1
<1> DEFINE q == p \div c
           k == p % c
           i == q \div b
           j == q % b
<1>1. p \in Nat /\ a * b \in Nat
  OBVIOUS
<1>2. q \in Nat /\ k \in 0..c - 1 /\ p = c * q + k
  BY <1>1, ModParts, Zenon
<1> HIDE DEF q, k
<1>3. i \in Nat /\ j \in 0..b - 1 /\ q = b * i + j
  BY <1>2, ModParts, Zenon
<1> HIDE DEF i, j
<1>4. \A m, n \in Nat, d \in Nat \ {0} : m >= n => d * m >= d * n
  <2>1. ASSUME NEW m \in Nat, NEW n \in Nat, NEW d \in Nat \ {0}, m >= n
        PROVE d * m >= d * n
    <3>1. PICK e \in Nat : m = n + e
      <4>1. m - n \in Nat /\ m = n + (m - n)
        BY <2>1
      <4>2. QED
        BY <4>1, Zenon
    <3>2. d * (n + e) = d * n + d * e /\ d * e \in Nat /\ d * n \in Nat
      OBVIOUS
    <3>3. QED
      BY <3>1, <3>2
  <2>2. QED
    BY <2>1, Zenon
<1>5. q < a * b
  <2>1. SUFFICES ASSUME q >= a * b PROVE FALSE
    BY <1>1, <1>2
  <2>2. c * q >= c * (a * b)
    BY <1>1, <1>2, <1>4, <2>1, Zenon
  <2>3. c * (a * b) = (a * b) * c /\ c * (a * b) \in Nat
    OBVIOUS
  <2> DEFINE v == (a * b) * c
             w == c * q
  <2>4. w \in Nat
    BY <1>2
  <2>5. p <= v - 1 /\ p = w + k /\ w >= v /\ v \in Nat
    BY <1>2, <2>2, <2>3
  <2> HIDE DEF v, w
  <2>6. QED
    BY <1>2, <2>4, <2>5
<1>6. i < a
  <2>1. SUFFICES ASSUME i >= a PROVE FALSE
    BY <1>3
  <2>2. b * i >= b * a
    BY <1>3, <1>4, <2>1, Zenon
  <2>3. b * a = a * b /\ b * i \in Nat
    BY <1>3
  <2> DEFINE v == a * b
             w == b * i
  <2>4. q = w + j /\ w >= v /\ w \in Nat /\ v \in Nat /\ q < v
    BY <1>1, <1>3, <1>5, <2>2, <2>3
  <2> HIDE DEF v, w
  <2>5. QED
    BY <1>3, <2>4
<1>7. p = (i * b + j) * c + k
  <2>1. q = i * b + j
    BY <1>3
  <2>2. p = q * c + k
    BY <1>2
  <2>3. QED
    BY <2>1, <2>2, Zenon
<1>8. i \in 0..a - 1
  BY <1>3, <1>6
<1>9. QED
  BY <1>2, <1>3, <1>7, <1>8, Zenon

\* An index and its place determine each other.
LEMMA RoundTrip ==
  ASSUME NEW s \in Shape3
  PROVE  /\ Prod(s) = Volume(s)
         /\ \A u \in Box(s) : Ravel(u, s) \in 0..Volume(s) - 1 /\ Unravel(Ravel(u, s), s) = u
         /\ \A p \in 0..Volume(s) - 1 : Unravel(p, s) \in Box(s) /\ Ravel(Unravel(p, s), s) = p
<1> DEFINE a == s[1]
           b == s[2]
           c == s[3]
           At(i, j, k) == (i * b + j) * c + k
<1>1. a \in Nat \ {0} /\ b \in Nat \ {0} /\ c \in Nat \ {0}
  BY DEF Shape3, Extents
<1>2. s = <<a, b, c>>
  <2>1. s = [k \in 1..3 |-> s[k]]
    BY Zenon DEF Shape3
  <2>2. QED
    BY <2>1, Triple, Zenon
<1>3. ASSUME NEW u \in Box(s)
      PROVE  /\ u[1] \in 0..a - 1 /\ u[2] \in 0..b - 1 /\ u[3] \in 0..c - 1
             /\ u = <<u[1], u[2], u[3]>>
             /\ Ravel(u, s) = At(u[1], u[2], u[3])
  <2>1. u \in [1..3 -> Nat] /\ \A k \in 1..3 : u[k] < s[k]
    BY Zenon DEF Box
  <2>2. u[1] \in 0..a - 1 /\ u[2] \in 0..b - 1 /\ u[3] \in 0..c - 1
    BY <1>1, <2>1
  <2>3. u = <<u[1], u[2], u[3]>>
    <3>1. u = [k \in 1..3 |-> u[k]]
      BY <2>1, Zenon
    <3>2. QED
      BY <3>1, Triple, Zenon
  <2>4. Ravel(u, s) = ((0 * a + u[1]) * b + u[2]) * c + u[3]
    BY <2>1, RavelIs, Zenon
  <2>5. 0 * a + u[1] = u[1]
    BY <1>1, <2>2
  <2>6. QED
    BY <2>2, <2>3, <2>4, <2>5, Zenon
<1>4. ASSUME NEW i \in 0..a - 1, NEW j \in 0..b - 1, NEW k \in 0..c - 1
      PROVE  /\ <<i, j, k>> \in Box(s) /\ Ravel(<<i, j, k>>, s) = At(i, j, k)
             /\ At(i, j, k) \in 0..Volume(s) - 1 /\ Unravel(At(i, j, k), s) = <<i, j, k>>
  <2>1. <<i, j, k>> \in Box(s)
    <3>1. i < s[1] /\ j < s[2] /\ k < s[3] /\ i \in Nat /\ j \in Nat /\ k \in Nat
      BY <1>1
    <3>2. QED
      BY <3>1 DEF Box
  <2>2. Ravel(<<i, j, k>>, s) = At(i, j, k)
    <3> DEFINE u == <<i, j, k>>
    <3>1. u[1] = i /\ u[2] = j /\ u[3] = k
      BY Zenon
    <3> HIDE DEF u, At
    <3>2. Ravel(u, s) = At(u[1], u[2], u[3])
      BY <1>3, <2>1, Zenon DEF u
    <3>3. QED
      BY <3>1, <3>2, Zenon DEF u
  <2>3. At(i, j, k) \in 0..((a * b) * c) - 1 /\ Unravel(At(i, j, k), <<a, b, c>>) = <<i, j, k>>
    <3> HIDE DEF a, b, c
    <3>1. \A x \in 0..a - 1, y \in 0..b - 1, z \in 0..c - 1 :
             /\ (x * b + y) * c + z \in 0..((a * b) * c) - 1
             /\ Unravel((x * b + y) * c + z, <<a, b, c>>) = <<x, y, z>>
      BY <1>1, Places, Zenon
    <3>2. QED
      BY <3>1, Zenon
  <2>4. QED
    BY <1>2, <2>1, <2>2, <2>3, Zenon DEF Volume
<1>5. Prod(s) = Volume(s)
  <2>1. Prod(<<a, b, c>>) = (a * b) * c
    BY <1>1, TripleUnravel, Zenon
  <2>2. QED
    BY <1>2, <2>1, Zenon DEF Volume
<1>6. ASSUME NEW u \in Box(s)
      PROVE  Ravel(u, s) \in 0..Volume(s) - 1 /\ Unravel(Ravel(u, s), s) = u
  <2> HIDE DEF At
  <2>1. PICK i \in 0..a - 1, j \in 0..b - 1, k \in 0..c - 1 : u = <<i, j, k>>
    BY <1>3, Zenon
  <2>2. QED
    BY <1>4, <2>1, Zenon
<1>7. ASSUME NEW p \in 0..Volume(s) - 1
      PROVE  Unravel(p, s) \in Box(s) /\ Ravel(Unravel(p, s), s) = p
  <2>1. \E i \in 0..a - 1, j \in 0..b - 1, k \in 0..c - 1 : p = At(i, j, k)
    <3>1. p \in 0..((a * b) * c) - 1
      BY Zenon DEF Volume
    <3> HIDE DEF a, b, c
    <3>2. EachPlace(a, b, c)
      BY <1>1, PlaceParts, Zenon
    <3>3. QED
      BY <3>1, <3>2, Zenon DEF EachPlace
  <2> HIDE DEF At
  <2>2. QED
    BY <1>4, <2>1, Zenon
<1>8. QED
  BY <1>5, <1>6, <1>7, Zenon

Orders == Bijection(1..3, 1..3)
Turned(s, perm) == [a \in 1..3 |-> s[perm[a]]]
Back(v, perm) == [a \in 1..3 |-> v[CHOOSE b \in 1..3 : perm[b] = a]]

LEMMA OrderOf ==
  ASSUME NEW perm \in Orders
  PROVE  /\ DOMAIN perm = 1..3
         /\ \A a \in 1..3 : perm[a] \in 1..3
         /\ \A a, b \in 1..3 : perm[a] = perm[b] => a = b
         /\ \A a \in 1..3 : (CHOOSE b \in 1..3 : perm[b] = a) \in 1..3
                            /\ perm[CHOOSE b \in 1..3 : perm[b] = a] = a
         /\ \A a \in 1..3 : (CHOOSE b \in 1..3 : perm[b] = perm[a]) = a
<1>1. perm \in [1..3 -> 1..3] /\ DOMAIN perm = 1..3
  BY DEF Orders, Bijection, Injection
<1>2. \A a, b \in 1..3 : perm[a] = perm[b] => a = b
  BY <1>1, Zenon DEF Orders, Bijection, Injection, IsInjective
<1>3. \A a \in 1..3 : \E b \in 1..3 : perm[b] = a
  BY Zenon DEF Orders, Bijection, Surjection
<1>4. \A a \in 1..3 : perm[a] \in 1..3
  BY <1>1
<1>5. \A a \in 1..3 : (CHOOSE b \in 1..3 : perm[b] = a) \in 1..3
                      /\ perm[CHOOSE b \in 1..3 : perm[b] = a] = a
  BY <1>3, Zenon
<1>6. ASSUME NEW a \in 1..3
      PROVE (CHOOSE b \in 1..3 : perm[b] = perm[a]) = a
  <2>1. /\ (CHOOSE b \in 1..3 : perm[b] = perm[a]) \in 1..3
        /\ perm[CHOOSE b \in 1..3 : perm[b] = perm[a]] = perm[a]
    BY <1>4, <1>5, Zenon
  <2>2. QED
    BY <1>2, <2>1, Zenon
<1>7. QED
  BY <1>1, <1>2, <1>4, <1>5, <1>6, Zenon

\* Turning a shape keeps its volume.
LEMMA TurnedShape ==
  ASSUME NEW s \in Shape3, NEW perm \in Orders
  PROVE  Turned(s, perm) \in Shape3 /\ Volume(Turned(s, perm)) = Volume(s)
<1>1. /\ \A a \in 1..3 : perm[a] \in 1..3
      /\ \A a, b \in 1..3 : perm[a] = perm[b] => a = b
  BY OrderOf, Zenon
<1>2. \A a \in 1..3 : s[a] \in Extents
  BY DEF Shape3
<1>3. Turned(s, perm) \in Shape3
  BY <1>1, <1>2, Zenon DEF Turned, Shape3
<1>4. Volume(Turned(s, perm)) = (s[perm[1]] * s[perm[2]]) * s[perm[3]]
  BY DEF Volume, Turned
<1> DEFINE a == s[1]
           b == s[2]
           c == s[3]
<1>5. a \in Nat /\ b \in Nat /\ c \in Nat
  BY <1>2 DEF Extents
<1>6. \/ perm[1] = 1 /\ perm[2] = 2 /\ perm[3] = 3
      \/ perm[1] = 1 /\ perm[2] = 3 /\ perm[3] = 2
      \/ perm[1] = 2 /\ perm[2] = 1 /\ perm[3] = 3
      \/ perm[1] = 2 /\ perm[2] = 3 /\ perm[3] = 1
      \/ perm[1] = 3 /\ perm[2] = 1 /\ perm[3] = 2
      \/ perm[1] = 3 /\ perm[2] = 2 /\ perm[3] = 1
  <2>1. perm[1] \in 1..3 /\ perm[2] \in 1..3 /\ perm[3] \in 1..3
    BY <1>1
  <2>2. perm[1] # perm[2] /\ perm[1] # perm[3] /\ perm[2] # perm[3]
    <3>1. 1 \in 1..3 /\ 2 \in 1..3 /\ 3 \in 1..3 /\ 1 # 2 /\ 1 # 3 /\ 2 # 3
      OBVIOUS
    <3>2. QED
      BY <1>1, <3>1, Zenon
  <2>3. QED
    BY <2>1, <2>2
<1> HIDE DEF a, b, c
<1>7. /\ (a * b) * c = (a * c) * b /\ (a * b) * c = (b * a) * c /\ (a * b) * c = (b * c) * a
      /\ (a * b) * c = (c * a) * b /\ (a * b) * c = (c * b) * a
  BY <1>5
<1>8. QED
  BY <1>3, <1>4, <1>6, <1>7, Zenon DEF Volume, a, b, c

\* Turning an index and turning it back.
LEMMA TurnedIndex ==
  ASSUME NEW s \in Shape3, NEW perm \in Orders
  PROVE  /\ \A u \in Box(s) : Turned(u, perm) \in Box(Turned(s, perm)) /\ Back(Turned(u, perm), perm) = u
         /\ \A v \in Box(Turned(s, perm)) : Back(v, perm) \in Box(s) /\ Turned(Back(v, perm), perm) = v
<1> DEFINE At(a) == CHOOSE b \in 1..3 : perm[b] = a
<1>1. \A a \in 1..3 : perm[a] \in 1..3 /\ At(a) \in 1..3 /\ perm[At(a)] = a /\ At(perm[a]) = a
  BY OrderOf, ZenonT(60)
<1>2. ASSUME NEW u \in Box(s)
      PROVE  Turned(u, perm) \in Box(Turned(s, perm)) /\ Back(Turned(u, perm), perm) = u
  <2>1. u \in [1..3 -> Nat] /\ \A a \in 1..3 : u[a] < s[a]
    BY Zenon DEF Box
  <2>2. Turned(u, perm) \in [1..3 -> Nat]
    <3>1. \A a \in 1..3 : u[a] \in Nat
      BY <2>1
    <3>2. \A a \in 1..3 : u[perm[a]] \in Nat
      BY <1>1, <3>1, Zenon
    <3>3. QED
      BY <3>2, Zenon DEF Turned
  <2>3. \A a \in 1..3 : Turned(u, perm)[a] = u[perm[a]] /\ Turned(s, perm)[a] = s[perm[a]]
    BY Zenon DEF Turned
  <2>4. Back(Turned(u, perm), perm) = [a \in 1..3 |-> Turned(u, perm)[At(a)]]
    BY Zenon DEF Back
  <2> HIDE DEF At
  <2>5. \A a \in 1..3 : Turned(u, perm)[At(a)] = u[a]
    BY <1>1, <2>3, Zenon
  <2>6. [a \in 1..3 |-> Turned(u, perm)[At(a)]] = u
    BY <2>1, <2>5
  <2>7. \A a \in 1..3 : Turned(u, perm)[a] < Turned(s, perm)[a]
    BY <1>1, <2>1, <2>3, Zenon
  <2>8. QED
    BY <2>2, <2>4, <2>6, <2>7, Zenon DEF Box
<1>3. ASSUME NEW v \in Box(Turned(s, perm))
      PROVE  Back(v, perm) \in Box(s) /\ Turned(Back(v, perm), perm) = v
  <2>1. v \in [1..3 -> Nat] /\ \A a \in 1..3 : v[a] < Turned(s, perm)[a]
    BY Zenon DEF Box
  <2>2. Back(v, perm) = [a \in 1..3 |-> v[At(a)]]
    BY Zenon DEF Back
  <2> HIDE DEF At
  <2>3. \A a \in 1..3 : Turned(s, perm)[At(a)] = s[a]
    BY <1>1, Zenon DEF Turned
  <2>4. \A a \in 1..3 : v[At(a)] \in Nat /\ v[At(a)] < s[a]
    BY <1>1, <2>1, <2>3, Zenon
  <2>5. Back(v, perm) \in [1..3 -> Nat] /\ \A a \in 1..3 : Back(v, perm)[a] = v[At(a)]
    BY <2>2, <2>4, Zenon
  <2>6. Back(v, perm) \in Box(s)
    BY <2>4, <2>5, Zenon DEF Box
  <2>7. \A a \in 1..3 : Back(v, perm)[perm[a]] = v[a]
    BY <1>1, <2>5, Zenon
  <2>8. [a \in 1..3 |-> Back(v, perm)[perm[a]]] = v
    BY <2>1, <2>7
  <2>9. QED
    BY <2>6, <2>8, Zenon DEF Turned
<1>4. QED
  BY <1>2, <1>3, Zenon

\* The rows of the new weight are those of the old, each once.
LEMMA RowsMove ==
  ASSUME NEW s \in Shape3, NEW perm \in Orders
  PROVE  LET t == Turned(s, perm)
             n == Volume(s)
             Row(m) == Ravel(Turned(Unravel(m, s), perm), t)
         IN /\ \A m \in 0..n - 1 : Row(m) \in 0..n - 1 /\ Back(Unravel(Row(m), t), perm) = Unravel(m, s)
            /\ \A k \in 0..n - 1 : \E m \in 0..n - 1 : Row(m) = k
<1> DEFINE t == Turned(s, perm)
           n == Volume(s)
           Row(m) == Ravel(Turned(Unravel(m, s), perm), t)
<1>1. t \in Shape3 /\ Volume(t) = n
  BY TurnedShape, Zenon
<1>2. ASSUME NEW m \in 0..n - 1
      PROVE Row(m) \in 0..n - 1 /\ Back(Unravel(Row(m), t), perm) = Unravel(m, s)
  <2>1. Unravel(m, s) \in Box(s)
    BY RoundTrip, Zenon
  <2>2. Turned(Unravel(m, s), perm) \in Box(t) /\ Back(Turned(Unravel(m, s), perm), perm) = Unravel(m, s)
    BY <2>1, TurnedIndex, Zenon
  <2> HIDE DEF t, n
  <2>3. Row(m) \in 0..n - 1 /\ Unravel(Row(m), t) = Turned(Unravel(m, s), perm)
    BY <1>1, <2>2, RoundTrip, Zenon
  <2>4. QED
    BY <2>2, <2>3, Zenon
<1>3. ASSUME NEW k \in 0..n - 1
      PROVE \E m \in 0..n - 1 : Row(m) = k
  <2> DEFINE v == Unravel(k, t)
             m == Ravel(Back(v, perm), s)
  <2>1. v \in Box(t) /\ Ravel(v, t) = k
    <3> HIDE DEF t, n
    <3>1. QED
      BY <1>1, RoundTrip, Zenon
  <2> HIDE DEF v
  <2>2. Back(v, perm) \in Box(s) /\ Turned(Back(v, perm), perm) = v
    BY <2>1, TurnedIndex, Zenon
  <2>3. m \in 0..n - 1 /\ Unravel(m, s) = Back(v, perm)
    BY <2>2, RoundTrip, Zenon
  <2> HIDE DEF t, m, n
  <2>4. Row(m) = k
    BY <2>1, <2>2, <2>3, Zenon
  <2>5. QED
    BY <2>3, <2>4, Zenon
<1>4. QED
  BY <1>2, <1>3, Zenon

\* The two shapes of a weight, and its element for input m and output j.
WeightShape(axis, n, c) == IF axis = 1 THEN <<n, c>> ELSE <<c, n>>
WeightAt(axis, m, j) == IF axis = 1 THEN <<m, j>> ELSE <<j, m>>

\* w is a weight for n inputs and c outputs; p has its rows put in order.
Weighs(w, axis, n, c) ==
  axis \in 1..2 /\ n \in Extents /\ c \in Extents /\ w.shape = WeightShape(axis, n, c)
RowsPut(p, w, axis, n, c, rows) ==
  \A m \in 0..n - 1, j \in 0..c - 1 :
    p.at[WeightAt(axis, m, j)] = w.at[WeightAt(axis, rows[m], j)]

LEMMA PermutedIs ==
  ASSUME NEW w, NEW axis, NEW n, NEW c, Weighs(w, axis, n, c), NEW rows
  PROVE  /\ Weighs(Permuted(w, axis, rows), axis, n, c)
         /\ RowsPut(Permuted(w, axis, rows), w, axis, n, c, rows)
<1>0. axis \in 1..2 /\ n \in Extents /\ c \in Extents /\ w.shape = WeightShape(axis, n, c)
  BY Zenon DEF Weighs
<1> DEFINE Put(i) == [i EXCEPT ![axis] = rows[@]]
<1>1. Permuted(w, axis, rows) = [shape |-> w.shape, at |-> [i \in Indices(w.shape) |-> w.at[Put(i)]]]
  BY DEF Permuted, Tensor, Once
<1>2. ASSUME NEW m \in 0..n - 1, NEW j \in 0..c - 1
      PROVE  /\ WeightAt(axis, m, j) \in Indices(w.shape)
             /\ Put(WeightAt(axis, m, j)) = WeightAt(axis, rows[m], j)
  <2>1. CASE axis = 1
    <3>1. WeightAt(axis, m, j) = <<m, j>> /\ WeightAt(axis, rows[m], j) = <<rows[m], j>>
      BY <2>1, Zenon DEF WeightAt
    <3>2. Indices(w.shape) = (0..n - 1) \X (0..c - 1)
      BY <1>0, <2>1, PairIndices, Zenon DEF WeightShape, Extents
    <3>3. [<<m, j>> EXCEPT ![1] = rows[@]] = <<rows[m], j>>
      OBVIOUS
    <3>4. <<m, j>> \in (0..n - 1) \X (0..c - 1)
      BY Zenon
    <3>5. QED
      BY <2>1, <3>1, <3>2, <3>3, <3>4, Zenon
  <2>2. CASE axis = 2
    <3>1. WeightAt(axis, m, j) = <<j, m>> /\ WeightAt(axis, rows[m], j) = <<j, rows[m]>>
      BY <2>2 DEF WeightAt
    <3>2. Indices(w.shape) = (0..c - 1) \X (0..n - 1)
      <4>1. w.shape = <<c, n>>
        BY <1>0, <2>2 DEF WeightShape
      <4>2. QED
        BY <1>0, <4>1, PairIndices, Zenon DEF Extents
    <3>3. [<<j, m>> EXCEPT ![2] = rows[@]] = <<j, rows[m]>>
      OBVIOUS
    <3>4. <<j, m>> \in (0..c - 1) \X (0..n - 1)
      BY Zenon
    <3>5. QED
      BY <2>2, <3>1, <3>2, <3>3, <3>4, Zenon
  <2>3. QED
    BY <1>0, <2>1, <2>2
<1> DEFINE values == [i \in Indices(w.shape) |-> w.at[Put(i)]]
<1>3. \A m \in 0..n - 1, j \in 0..c - 1 :
        values[WeightAt(axis, m, j)] = w.at[WeightAt(axis, rows[m], j)]
  <2> HIDE DEF Put
  <2>1. QED
    BY <1>2, Zenon
<1> HIDE DEF values
<1>4. Permuted(w, axis, rows).shape = w.shape /\ Permuted(w, axis, rows).at = values
  <2>1. Permuted(w, axis, rows) = [shape |-> w.shape, at |-> values]
    BY <1>1, Zenon DEF values
  <2>2. QED
    BY <2>1
<1>5. QED
  BY <1>0, <1>3, <1>4, Zenon DEF Weighs, RowsPut

\* A fully connected layer, for either axis.
Outputs(x, w, axis, n, c) ==
  [shape |-> <<c>>,
   at |-> [i \in Indices(<<c>>) |->
             {<<x.at[<<m>>], w.at[WeightAt(axis, m, i[1])]>> : m \in 0..n - 1}]]

LEMMA ProductIs ==
  ASSUME NEW x, NEW w, NEW axis, NEW n, NEW c, Weighs(w, axis, n, c), x.shape = <<n>>
  PROVE  Product(x, w, axis) = Outputs(x, w, axis, n, c)
<1>1. w.shape[3 - axis] = c
  BY DEF Weighs, WeightShape
<1>2. x.shape[1] = n
  OBVIOUS
<1>3. QED
  BY <1>1, <1>2, TensorIs DEF Product, WeightAt, Range0, Outputs

LEMMA FlatIs ==
  ASSUME NEW x, x.shape \in Shape3
  PROVE  /\ Flat(x).shape = <<Volume(x.shape)>>
         /\ \A m \in 0..Volume(x.shape) - 1 : Flat(x).at[<<m>>] = x.at[Unravel(m, x.shape)]
<1> DEFINE n == Volume(x.shape)
<1>1. Prod(x.shape) = n
  BY RoundTrip, Zenon
<1>2. n \in Nat \ {0}
  <2>1. x.shape[1] \in Nat \ {0} /\ x.shape[2] \in Nat \ {0} /\ x.shape[3] \in Nat \ {0}
    BY DEF Shape3, Extents
  <2>2. QED
    BY <2>1 DEF Volume
<1>3. Flat(x) = [shape |-> <<n>>, at |-> [i \in Indices(<<n>>) |-> x.at[Unravel(i[1], x.shape)]]]
  BY <1>1 DEF Flat, Tensor, Once
<1>4. ASSUME NEW m \in 0..n - 1
      PROVE <<m>> \in Indices(<<n>>) /\ <<m>>[1] = m
  <2>1. Indices(<<n>>) = {<<p>> : p \in 0..n - 1}
    <3> HIDE DEF n
    <3>1. QED
      BY <1>2, SingleIndices, Zenon
  <2>2. <<m>>[1] = m
    OBVIOUS
  <2>3. QED
    BY <2>1, <2>2, Zenon
<1> DEFINE values == [i \in Indices(<<n>>) |-> x.at[Unravel(i[1], x.shape)]]
<1>5. \A m \in 0..n - 1 : values[<<m>>] = x.at[Unravel(m, x.shape)]
  BY <1>4, Zenon
<1> HIDE DEF values
<1>6. Flat(x).shape = <<n>> /\ Flat(x).at = values
  <2>1. Flat(x) = [shape |-> <<n>>, at |-> values]
    BY <1>3, Zenon DEF values
  <2>2. QED
    BY <2>1
<1>7. QED
  BY <1>5, <1>6, Zenon

\* Turning a tensor turns its shape and the indices of its elements.
LEMMA TransposedIs ==
  ASSUME NEW x, x.shape \in Shape3, NEW perm \in Orders
  PROVE  /\ Transposed(x, perm).shape = Turned(x.shape, perm)
         /\ \A k \in 0..Volume(x.shape) - 1 :
              LET v == Unravel(k, Turned(x.shape, perm))
              IN Transposed(x, perm).at[v] = x.at[Back(v, perm)]
<1> DEFINE s == x.shape
           t == Turned(s, perm)
           values == [i \in Indices(t) |-> x.at[Back(i, perm)]]
<1>1. Transposed(x, perm).shape = t /\ Transposed(x, perm).at = values
  <2>1. DOMAIN perm = 1..3
    BY OrderOf, Zenon
  <2> DEFINE Over(d) ==
               [shape |-> [a \in d |-> s[perm[a]]],
                at |-> [i \in Indices([a \in d |-> s[perm[a]]]) |->
                          x.at[[a \in d |-> i[CHOOSE b \in d : perm[b] = a]]]]]
  <2>2. Transposed(x, perm) = Over(DOMAIN perm)
    BY TensorIs DEF Transposed
  <2>3. Over(1..3) = [shape |-> t, at |-> values]
    BY Zenon DEF Turned, Back
  <2> HIDE DEF t, values, Over
  <2>4. Transposed(x, perm) = [shape |-> t, at |-> values]
    BY <2>1, <2>2, <2>3, Zenon
  <2>5. QED
    BY <2>4
<1>2. t \in Shape3 /\ Volume(t) = Volume(s)
  BY TurnedShape, Zenon
<1>3. ASSUME NEW k \in 0..Volume(s) - 1
      PROVE Unravel(k, t) \in Indices(t)
  <2> HIDE DEF t, s
  <2>1. Prod(t) = Volume(s)
    BY <1>2, RoundTrip, Zenon
  <2>2. QED
    BY <2>1, Zenon DEF Indices, Range0
<1>4. \A k \in 0..Volume(s) - 1 : values[Unravel(k, t)] = x.at[Back(Unravel(k, t), perm)]
  BY <1>3, Zenon
<1> HIDE DEF values
<1>5. QED
  BY <1>1, <1>4, Zenon

\* Folding a transpose into the weight of the layer behind it keeps the layer
\* (fold_transposes, sw/model_prep/graph_ops/transpose_fold.py): the
\* flattened input with its rows of the weight moved gives the products that the
\* turned and flattened input gave, whatever the shape, the order of the axes,
\* the axis of the weight that contracts and what the tensors hold.
THEOREM FoldedRowsKeepLayer ==
  ASSUME NEW x, x.shape \in Shape3, NEW perm \in Orders,
         NEW w, NEW axis \in 1..2, NEW c \in Extents,
         w.shape = WeightShape(axis, Volume(x.shape), c)
  PROVE  Product(Flat(x), Permuted(w, axis, RowPermutation(x.shape, perm)), axis)
           = Product(Flat(Transposed(x, perm)), w, axis)
<1> DEFINE s == x.shape
           t == Turned(s, perm)
           n == Volume(s)
           Row(m) == Ravel(Turned(Unravel(m, s), perm), t)
           rows == RowPermutation(s, perm)
           new == Permuted(w, axis, rows)
           a == Flat(x)
           b == Flat(Transposed(x, perm))
<1>1. n \in Extents
  <2>1. s[1] \in Nat \ {0} /\ s[2] \in Nat \ {0} /\ s[3] \in Nat \ {0}
    BY DEF Shape3, Extents
  <2>2. QED
    BY <2>1 DEF Volume, Extents
<1>2. \A m \in 0..n - 1 : rows[m] = Row(m)
  <2>1. DOMAIN perm = 1..3 /\ Prod(s) = n
    BY OrderOf, RoundTrip, Zenon
  <2>2. rows = [m \in 0..n - 1 |-> Row(m)]
    BY <2>1, Zenon DEF RowPermutation, Turned, Range0
  <2>3. QED
    BY <2>2, Zenon
<1>3. /\ \A m \in 0..n - 1 : Row(m) \in 0..n - 1 /\ Back(Unravel(Row(m), t), perm) = Unravel(m, s)
      /\ \A k \in 0..n - 1 : \E m \in 0..n - 1 : Row(m) = k
  BY RowsMove, Zenon
<1>4. a.shape = <<n>> /\ \A m \in 0..n - 1 : a.at[<<m>>] = x.at[Unravel(m, s)]
  BY FlatIs, Zenon
<1>5. b.shape = <<n>> /\ \A k \in 0..n - 1 : b.at[<<k>>] = x.at[Back(Unravel(k, t), perm)]
  <2> DEFINE y == Transposed(x, perm)
  <2>1. y.shape = t /\ \A k \in 0..n - 1 : y.at[Unravel(k, t)] = x.at[Back(Unravel(k, t), perm)]
    BY TransposedIs, Zenon
  <2>2. t \in Shape3 /\ Volume(t) = n
    BY TurnedShape, Zenon
  <2> HIDE DEF y, t, n
  <2>3. b = Flat(y)
    BY Zenon DEF y
  <2>4. y.shape \in Shape3 /\ Volume(y.shape) = n
    BY <2>1, <2>2, Zenon
  <2> HIDE DEF b
  <2>5. b.shape = <<n>> /\ \A k \in 0..n - 1 : b.at[<<k>>] = y.at[Unravel(k, t)]
    BY <2>1, <2>3, <2>4, FlatIs, Zenon
  <2>6. QED
    BY <2>1, <2>5, Zenon
<1>6. Weighs(w, axis, n, c) /\ Weighs(new, axis, n, c) /\ RowsPut(new, w, axis, n, c, rows)
  <2>1. Weighs(w, axis, n, c)
    BY <1>1, Zenon DEF Weighs
  <2> HIDE DEF n, rows
  <2>2. QED
    BY <2>1, PermutedIs, Zenon
<1> HIDE DEF s, t, n, Row, rows, new, a, b
<1> DEFINE Old(j) == {<<b.at[<<k>>], w.at[WeightAt(axis, k, j)]>> : k \in 0..n - 1}
           New(j) == {<<a.at[<<m>>], new.at[WeightAt(axis, m, j)]>> : m \in 0..n - 1}
<1>7. ASSUME NEW j \in 0..c - 1
      PROVE New(j) = Old(j)
  <2> DEFINE P(m) == <<a.at[<<m>>], new.at[WeightAt(axis, m, j)]>>
             Q(k) == <<b.at[<<k>>], w.at[WeightAt(axis, k, j)]>>
  <2>1. ASSUME NEW m \in 0..n - 1 PROVE P(m) = Q(Row(m))
    <3>1. Row(m) \in 0..n - 1 /\ Back(Unravel(Row(m), t), perm) = Unravel(m, s)
      BY <1>3, Zenon
    <3>2. b.at[<<Row(m)>>] = x.at[Back(Unravel(Row(m), t), perm)]
      BY <1>5, <3>1, Zenon
    <3>3. a.at[<<m>>] = b.at[<<Row(m)>>]
      BY <1>4, <3>1, <3>2, Zenon
    <3>4. new.at[WeightAt(axis, m, j)] = w.at[WeightAt(axis, rows[m], j)]
      BY <1>6, Zenon DEF RowsPut
    <3>5. new.at[WeightAt(axis, m, j)] = w.at[WeightAt(axis, Row(m), j)]
      BY <1>2, <3>4, Zenon
    <3>6. QED
      BY <3>3, <3>5, Zenon
  <2> HIDE DEF P, Q
  <2>2. {P(m) : m \in 0..n - 1} = {Q(k) : k \in 0..n - 1}
    BY <1>3, <2>1
  <2>3. QED
    BY <2>2, Zenon DEF P, Q
<1>8. \A i \in Indices(<<c>>) : New(i[1]) = Old(i[1])
  <2>1. Indices(<<c>>) = {<<p>> : p \in 0..c - 1}
    BY SingleIndices, Zenon DEF Extents
  <2>2. \A p : <<p>>[1] = p
    OBVIOUS
  <2> HIDE DEF New, Old
  <2>3. QED
    BY <1>7, <2>1, <2>2, Zenon
<1>9. Product(a, new, axis) = Outputs(a, new, axis, n, c)
  BY <1>4, <1>6, ProductIs, Zenon
<1>10. Product(b, w, axis) = Outputs(b, w, axis, n, c)
  BY <1>5, <1>6, ProductIs, Zenon
<1>11. /\ Outputs(a, new, axis, n, c) = [shape |-> <<c>>, at |-> [i \in Indices(<<c>>) |-> New(i[1])]]
       /\ Outputs(b, w, axis, n, c) = [shape |-> <<c>>, at |-> [i \in Indices(<<c>>) |-> Old(i[1])]]
  BY Zenon DEF Outputs
<1> HIDE DEF New, Old
<1>12. [i \in Indices(<<c>>) |-> New(i[1])] = [i \in Indices(<<c>>) |-> Old(i[1])]
  BY <1>8
<1>13. Product(a, new, axis) = Product(b, w, axis)
  BY <1>9, <1>10, <1>11, <1>12, Zenon
<1>14. QED
  BY <1>13, Zenon DEF a, b, new, rows, s

-------------------------------------------------------------------------------
(* pool_decompose: windows of windows.                                      *)

\* Windows one after the other: whole windows of a length, and their windows.
LEMMA WholeWindows ==
  ASSUME NEW k \in Nat \ {0}, NEW n \in Nat, n >= k
  PROVE  /\ n \div k \in Nat \ {0} /\ (n - k) \div k + 1 = n \div k
         /\ \A i \in 0..(n \div k) - 1, y \in 0..k - 1 : i * k + y \in 0..n - 1
<1> DEFINE q == n \div k
           r == n % k
<1>1. q \in Nat /\ r \in 0..k - 1 /\ n = k * q + r
  BY ModParts, Zenon
<1> HIDE DEF q, r
<1>2. q # 0
  <2>1. k * 0 = 0
    OBVIOUS
  <2>2. QED
    BY <1>1, <2>1
<1>3. q - 1 \in Nat /\ n - k \in Nat /\ n - k = k * (q - 1) + r
  <2>1. k * (q - 1) = k * q - k /\ k * q \in Nat
    BY <1>1
  <2>2. QED
    BY <1>1, <1>2, <2>1
<1>4. (n - k) \div k = q - 1
  <2> DEFINE m == n - k
             p == q - 1
  <2>1. m \in Nat /\ p \in Nat /\ m = k * p + r
    BY <1>3, Zenon
  <2> HIDE DEF m, p
  <2>2. m \div k = p
    BY <1>1, <2>1, ModUnique, Zenon
  <2>3. QED
    BY <2>2, Zenon DEF m, p
<1>5. ASSUME NEW i \in 0..q - 1, NEW y \in 0..k - 1
      PROVE i * k + y \in 0..n - 1
  <2>1. k * i + y \in 0..q * k - 1
    <3>1. q \in Nat \ {0}
      BY <1>1, <1>2
    <3>2. QED
      BY <3>1, InRows
  <2>2. q * k = k * q /\ k * q \in Nat /\ k * i = i * k /\ i * k \in Nat
    BY <1>1
  <2>3. QED
    BY <1>1, <2>1, <2>2
<1>6. QED
  BY <1>1, <1>2, <1>4, <1>5 DEF q

LEMMA WindowsOfWindows ==
  ASSUME NEW k \in Nat \ {0}, NEW l \in Nat \ {0}, NEW n \in Nat, n >= k * l
  PROVE  /\ k * l \in Nat \ {0} /\ n >= k /\ n \div k >= l
         /\ (n \div k) \div l = n \div (k * l)
<1> DEFINE q == n \div k
           r == n % k
           p == q \div l
           s == q % l
<1>1. q \in Nat /\ r \in 0..k - 1 /\ n = k * q + r
  BY ModParts, Zenon
<1>2. p \in Nat /\ s \in 0..l - 1 /\ q = l * p + s
  BY <1>1, ModParts, Zenon
<1> HIDE DEF q, r
<1>3. k * l \in Nat \ {0}
  OBVIOUS
<1> HIDE DEF p, s
<1>4. n = (k * l) * p + (k * s + r)
  <2>1. n = k * (l * p + s) + r
    BY <1>1, <1>2, Zenon
  <2>2. k * (l * p + s) = (k * l) * p + k * s /\ (k * l) * p \in Nat /\ k * s \in Nat
    BY <1>2
  <2>3. QED
    BY <1>1, <2>1, <2>2
<1>5. k * s + r \in 0..k * l - 1
  <2>1. k * s + r \in 0..l * k - 1
    BY <1>1, <1>2, InRows
  <2>2. l * k = k * l
    OBVIOUS
  <2>3. QED
    BY <2>1, <2>2, Zenon
<1>6. n \div (k * l) = p
  <2> DEFINE kl == k * l
             t == k * s + r
  <2> HIDE DEF kl, t
  <2>1. kl \in Nat \ {0} /\ t \in 0..kl - 1 /\ n = kl * p + t
    BY <1>3, <1>4, <1>5, Zenon DEF kl, t
  <2>2. n \div kl = p
    BY <1>2, <2>1, ModUnique, Zenon
  <2>3. QED
    BY <2>2, Zenon DEF kl
<1>7. n >= k
  <2>1. PICK m \in Nat : l = m + 1
    <3>1. l - 1 \in Nat /\ l = (l - 1) + 1
      OBVIOUS
    <3>2. QED
      BY <3>1, Zenon
  <2>2. k * (m + 1) = k * m + k /\ k * m \in Nat
    OBVIOUS
  <2>3. QED
    BY <2>1, <2>2
<1>8. q >= l
  <2>1. SUFFICES ASSUME p = 0 PROVE FALSE
    <3>1. p # 0 => l * p >= l
      <4>1. SUFFICES ASSUME p # 0 PROVE l * p >= l
        OBVIOUS
      <4>2. p - 1 \in Nat /\ p = (p - 1) + 1
        BY <1>2, <4>1
      <4>3. l * ((p - 1) + 1) = l * (p - 1) + l /\ l * (p - 1) \in Nat
        BY <4>2
      <4>4. QED
        BY <4>2, <4>3
    <3>2. p # 0 => l * p \in Nat
      BY <1>2
    <3>3. QED
      BY <1>2, <3>1, <3>2
  <2>2. (k * l) * 0 = 0
    OBVIOUS
  <2>3. n = k * s + r
    BY <1>4, <1>5, <2>1, <2>2
  <2>4. QED
    BY <1>3, <1>5, <2>3
<1>9. QED
  BY <1>3, <1>6, <1>7, <1>8, Zenon DEF q, p

\* A position in a window of a window is one in the large window.
Nested(k, l, i) ==
  /\ \A y \in 0..l - 1, z \in 0..k - 1 :
       /\ y * k + z \in 0..k * l - 1
       /\ (i * l + y) * k + z = i * (k * l) + (y * k + z)
  /\ \A x \in 0..k * l - 1 : \E y \in 0..l - 1, z \in 0..k - 1 : x = y * k + z

LEMMA NestedPlace ==
  ASSUME NEW k \in Nat \ {0}, NEW l \in Nat \ {0}, NEW i \in Nat
  PROVE  Nested(k, l, i)
<1>1. ASSUME NEW y \in 0..l - 1, NEW z \in 0..k - 1
      PROVE  /\ y * k + z \in 0..k * l - 1
             /\ (i * l + y) * k + z = i * (k * l) + (y * k + z)
  <2>1. k * y + z \in 0..l * k - 1
    BY InRows
  <2>2. k * y = y * k /\ l * k = k * l
    OBVIOUS
  <2>3. (i * l + y) * k = i * (k * l) + y * k
    OBVIOUS
  <2>4. i * (k * l) \in Nat /\ y * k \in Nat
    OBVIOUS
  <2>5. QED
    BY <2>1, <2>2, <2>3, <2>4
<1>2. ASSUME NEW x \in 0..k * l - 1
      PROVE \E y \in 0..l - 1, z \in 0..k - 1 : x = y * k + z
  <2> DEFINE n == k * l
  <2>1. x \in Nat /\ x < n /\ n \in Nat
    OBVIOUS
  <2> DEFINE y == x \div k
             z == x % k
  <2>2. y \in Nat /\ z \in 0..k - 1 /\ x = k * y + z
    BY <2>1, ModParts, Zenon
  <2> HIDE DEF y, z
  <2>3. y < l
    <3>1. SUFFICES ASSUME y >= l PROVE FALSE
      BY <2>2
    <3>2. y - l \in Nat /\ y = l + (y - l)
      BY <2>2, <3>1
    <3>3. k * (l + (y - l)) = n + k * (y - l) /\ k * (y - l) \in Nat
      BY <3>2
    <3>4. k * y = n + k * (y - l)
      BY <3>2, <3>3, Zenon
    <3> HIDE DEF n
    <3>5. QED
      BY <2>1, <2>2, <3>3, <3>4
  <2>4. x = y * k + z
    BY <2>2
  <2>5. y \in 0..l - 1
    BY <2>2, <2>3
  <2>6. QED
    BY <2>2, <2>4, <2>5, Zenon
<1>3. QED
  BY <1>1, <1>2, Zenon DEF Nested

\* The cells of a window.
Cells(c, a, b, m, n) == {<<c, a + y, b + x>> : y \in 0..m - 1, x \in 0..n - 1}

LEMMA CellsCount ==
  ASSUME NEW c, NEW a \in Nat, NEW b \in Nat, NEW m \in Nat \ {0}, NEW n \in Nat \ {0}
  PROVE  Cardinality(Cells(c, a, b, m, n)) = m * n
<1> DEFINE S == (0..m - 1) \X (0..n - 1)
           T == Cells(c, a, b, m, n)
           f == [p \in S |-> <<c, a + p[1], b + p[2]>>]
<1>1. IsFiniteSet(S) /\ Cardinality(S) = m * n
  <2>1. IsFiniteSet(0..m - 1) /\ Cardinality(0..m - 1) = m
    BY FS_Interval
  <2>2. IsFiniteSet(0..n - 1) /\ Cardinality(0..n - 1) = n
    BY FS_Interval
  <2>3. QED
    BY <2>1, <2>2, FS_Product, ZenonT(60)
<1>0. \A t : t \in Cells(c, a, b, m, n) <=> \E y \in 0..m - 1, x \in 0..n - 1 : t = <<c, a + y, b + x>>
  BY DEF Cells
<1>2. \A p \in S : f[p] \in T
  <2>1. \A p \in S : p[1] \in 0..m - 1 /\ p[2] \in 0..n - 1 /\ f[p] = <<c, a + p[1], b + p[2]>>
    OBVIOUS
  <2> HIDE DEF f, S
  <2>2. QED
    BY <1>0, <2>1, Zenon
<1>3. \A p, q \in S : f[p] = f[q] => p = q
  OBVIOUS
<1>4. \A t \in T : \E p \in S : f[p] = t
  <2>1. ASSUME NEW t \in T PROVE \E p \in S : f[p] = t
    <3>1. PICK y \in 0..m - 1, x \in 0..n - 1 : t = <<c, a + y, b + x>>
      BY <1>0, Zenon
    <3>2. <<y, x>> \in S /\ f[<<y, x>>] = t
      BY <3>1
    <3>3. QED
      BY <3>2, Zenon
  <2>2. QED
    BY <2>1, Zenon
<1>5. DOMAIN f = S /\ f \in [S -> T]
  BY <1>2
<1> HIDE DEF S, T, f
<1>6. f \in Bijection(S, T)
  BY <1>3, <1>4, <1>5, Zenon DEF Bijection, Injection, Surjection, IsInjective
<1>7. QED
  BY <1>1, <1>6, FS_Bijection, Zenon DEF ExistsBijection, T

\* A window over a tensor: its shape, and a mean at each place.
WindowShape(sh, k, s) == <<sh[1], (sh[2] - k[1]) \div s[1] + 1, (sh[3] - k[2]) \div s[2] + 1>>

LEMMA WindowIs ==
  ASSUME NEW t, NEW k, NEW s
  PROVE  LET sh == WindowShape(t.shape, k, s) IN
         Window(t, k, s)
           = [shape |-> sh,
              at |-> [i \in Indices(sh) |-> MeanOf(t, Cells(i[1], i[2] * s[1], i[3] * s[2], k[1], k[2]))]]
<1> DEFINE sh == WindowShape(t.shape, k, s)
           At(i) == MeanOf(t, Cells(i[1], i[2] * s[1], i[3] * s[2], k[1], k[2]))
<1>1. Window(t, k, s) = Tensor(sh, At)
  BY DEF Window, WindowShape, Cells, Range0
<1> HIDE DEF sh, At
<1>2. Tensor(sh, At) = [shape |-> sh, at |-> [i \in Indices(sh) |-> At(i)]]
  BY TensorIs
<1>3. QED
  BY <1>1, <1>2, Zenon DEF sh, At

Within(c, a, b, m, n, h) == \E y \in 0..m - 1, x \in 0..n - 1 : h = <<c, a + y, b + x>>

LEMMA CellsIn ==
  ASSUME NEW c, NEW a, NEW b, NEW m, NEW n
  PROVE  \A h : h \in Cells(c, a, b, m, n) <=> Within(c, a, b, m, n, h)
BY DEF Cells, Within

\* The cells of a window hold means with one divisor.
Even(t, c, a, b, m, n, d) ==
  /\ a \in Nat /\ b \in Nat /\ m \in Nat \ {0} /\ n \in Nat \ {0}
  /\ \A h \in Cells(c, a, b, m, n) : t.at[h].by = d
MeanIn(t, c, a, b, m, n, d) ==
  [cells |-> UNION {t.at[h].cells : h \in Cells(c, a, b, m, n)}, by |-> (m * n) * d]

LEMMA MeanIs ==
  ASSUME NEW t, NEW c, NEW a, NEW b, NEW m, NEW n, NEW d, Even(t, c, a, b, m, n, d)
  PROVE  MeanOf(t, Cells(c, a, b, m, n)) = MeanIn(t, c, a, b, m, n, d)
<1>0. /\ a \in Nat /\ b \in Nat /\ m \in Nat \ {0} /\ n \in Nat \ {0}
      /\ \A h \in Cells(c, a, b, m, n) : t.at[h].by = d
  BY Zenon DEF Even
<1> DEFINE X == Cells(c, a, b, m, n)
           p == CHOOSE i \in X : TRUE
<1>1. Cardinality(X) = m * n
  BY <1>0, CellsCount
<1>2. <<c, a + 0, b + 0>> \in X
  <2>1. 0 \in 0..m - 1 /\ 0 \in 0..n - 1
    BY <1>0
  <2>2. Within(c, a, b, m, n, <<c, a + 0, b + 0>>)
    BY <2>1, Zenon DEF Within
  <2>3. QED
    BY <2>2, CellsIn, Zenon
<1>3. p \in X
  BY <1>2, Zenon
<1>4. t.at[p].by = d
  BY <1>0, <1>3, Zenon
<1>5. MeanOf(t, X) = [cells |-> UNION {t.at[h].cells : h \in X}, by |-> Cardinality(X) * t.at[p].by]
  BY Zenon DEF MeanOf
<1> HIDE DEF X, p
<1>6. QED
  BY <1>1, <1>4, <1>5, Zenon DEF X, MeanIn

\* The cells of the windows in a window are those of the large window.
LEMMA NestedCells ==
  ASSUME NEW c, NEW p \in Nat, NEW q \in Nat,
         NEW k1 \in Nat \ {0}, NEW k2 \in Nat \ {0}, NEW l1 \in Nat \ {0}, NEW l2 \in Nat \ {0}, NEW h
  PROVE  h \in Cells(c, p * (k1 * l1), q * (k2 * l2), k1 * l1, k2 * l2)
           <=> \E y \in 0..l1 - 1, x \in 0..l2 - 1 :
                  h \in Cells(c, (p * l1 + y) * k1, (q * l2 + x) * k2, k1, k2)
<1> DEFINE m1 == k1 * l1
           m2 == k2 * l2
<1>n. Nested(k1, l1, p) /\ Nested(k2, l2, q)
  BY NestedPlace, Zenon
<1>1. ASSUME NEW y \in 0..l1 - 1, NEW x \in 0..l2 - 1,
             h \in Cells(c, (p * l1 + y) * k1, (q * l2 + x) * k2, k1, k2)
      PROVE  h \in Cells(c, p * (k1 * l1), q * (k2 * l2), k1 * l1, k2 * l2)
  <2>0. Within(c, (p * l1 + y) * k1, (q * l2 + x) * k2, k1, k2, h)
    BY <1>1, CellsIn, Zenon
  <2>1. PICK y2 \in 0..k1 - 1, x2 \in 0..k2 - 1 : h = <<c, (p * l1 + y) * k1 + y2, (q * l2 + x) * k2 + x2>>
    BY <2>0, Zenon DEF Within
  <2>2. /\ y * k1 + y2 \in 0..k1 * l1 - 1
        /\ (p * l1 + y) * k1 + y2 = p * (k1 * l1) + (y * k1 + y2)
    BY <1>n, Zenon DEF Nested
  <2>3. /\ x * k2 + x2 \in 0..k2 * l2 - 1
        /\ (q * l2 + x) * k2 + x2 = q * (k2 * l2) + (x * k2 + x2)
    BY <1>n, Zenon DEF Nested
  <2>4. h = <<c, p * (k1 * l1) + (y * k1 + y2), q * (k2 * l2) + (x * k2 + x2)>>
    BY <2>1, <2>2, <2>3, Zenon
  <2>5. Within(c, p * m1, q * m2, m1, m2, h)
    BY <2>2, <2>3, <2>4, Zenon DEF Within
  <2>6. QED
    BY <2>5, CellsIn, Zenon
<1>2. ASSUME h \in Cells(c, p * (k1 * l1), q * (k2 * l2), k1 * l1, k2 * l2)
      PROVE  \E y \in 0..l1 - 1, x \in 0..l2 - 1 :
                h \in Cells(c, (p * l1 + y) * k1, (q * l2 + x) * k2, k1, k2)
  <2>0. Within(c, p * m1, q * m2, m1, m2, h)
    BY <1>2, CellsIn, Zenon
  <2>1. PICK yy \in 0..k1 * l1 - 1, xx \in 0..k2 * l2 - 1 : h = <<c, p * (k1 * l1) + yy, q * (k2 * l2) + xx>>
    BY <2>0, Zenon DEF Within
  <2>2. PICK y \in 0..l1 - 1, y2 \in 0..k1 - 1 : yy = y * k1 + y2
    BY <1>n, Zenon DEF Nested
  <2>3. PICK x \in 0..l2 - 1, x2 \in 0..k2 - 1 : xx = x * k2 + x2
    BY <1>n, Zenon DEF Nested
  <2>4. (p * l1 + y) * k1 + y2 = p * (k1 * l1) + (y * k1 + y2)
    BY <1>n, Zenon DEF Nested
  <2>5. (q * l2 + x) * k2 + x2 = q * (k2 * l2) + (x * k2 + x2)
    BY <1>n, Zenon DEF Nested
  <2>6. h = <<c, (p * l1 + y) * k1 + y2, (q * l2 + x) * k2 + x2>>
    BY <2>1, <2>2, <2>3, <2>4, <2>5, Zenon
  <2>7. Within(c, (p * l1 + y) * k1, (q * l2 + x) * k2, k1, k2, h)
    BY <2>6, Zenon DEF Within
  <2>8. h \in Cells(c, (p * l1 + y) * k1, (q * l2 + x) * k2, k1, k2)
    BY <2>7, CellsIn, Zenon
  <2>9. QED
    BY <2>8, Zenon
<1>3. QED
  BY <1>1, <1>2, Zenon

\* A tensor of means with one divisor, a window that fits on it, and the
\* tensor of its windows side by side.
MeansBy(t, d) ==
  t.shape \in Shape3 /\ d \in Nat /\ \A i \in Indices(t.shape) : t.at[i].by = d
WindowFits(t, k1, k2) ==
  k1 \in Nat \ {0} /\ k2 \in Nat \ {0} /\ t.shape[2] >= k1 /\ t.shape[3] >= k2

PooledShape(t, k1, k2) == <<t.shape[1], t.shape[2] \div k1, t.shape[3] \div k2>>
PooledAt(t, k1, k2, d, i) == MeanIn(t, i[1], i[2] * k1, i[3] * k2, k1, k2, d)
Pooled(t, k1, k2, d) ==
  [shape |-> PooledShape(t, k1, k2),
   at |-> [i \in Indices(PooledShape(t, k1, k2)) |-> PooledAt(t, k1, k2, d, i)]]

LEMMA Shape3Is ==
  ASSUME NEW s \in Shape3
  PROVE  /\ s[1] \in Nat \ {0} /\ s[2] \in Nat \ {0} /\ s[3] \in Nat \ {0}
         /\ Indices(s) = (0..s[1] - 1) \X (0..s[2] - 1) \X (0..s[3] - 1)
<1>1. s[1] \in Nat \ {0} /\ s[2] \in Nat \ {0} /\ s[3] \in Nat \ {0}
  BY DEF Shape3, Extents
<1>2. s = <<s[1], s[2], s[3]>>
  <2>1. s = [k \in 1..3 |-> s[k]]
    BY Zenon DEF Shape3
  <2>2. QED
    BY <2>1, Triple, Zenon
<1>3. Indices(<<s[1], s[2], s[3]>>) = (0..s[1] - 1) \X (0..s[2] - 1) \X (0..s[3] - 1)
  BY <1>1, TripleIndices, Zenon
<1>4. QED
  BY <1>1, <1>2, <1>3, Zenon

LEMMA PooledShape3 ==
  ASSUME NEW t, t.shape \in Shape3, NEW k1, NEW k2, WindowFits(t, k1, k2)
  PROVE  PooledShape(t, k1, k2) \in Shape3
<1> DEFINE H == t.shape[2]
           W == t.shape[3]
<1>1. t.shape[1] \in Nat \ {0} /\ H \in Nat /\ W \in Nat
  BY Shape3Is
<1>2. k1 \in Nat \ {0} /\ k2 \in Nat \ {0} /\ H >= k1 /\ W >= k2
  BY Zenon DEF WindowFits
<1> HIDE DEF H, W
<1>3. H \div k1 \in Nat \ {0} /\ W \div k2 \in Nat \ {0}
  BY <1>1, <1>2, WholeWindows
<1>4. <<t.shape[1], H \div k1, W \div k2>> \in Shape3
  BY <1>1, <1>3 DEF Shape3, Extents
<1>5. QED
  BY <1>4, Zenon DEF PooledShape, H, W

LEMMA PooledIs ==
  ASSUME NEW t, NEW d, MeansBy(t, d), NEW k1, NEW k2, WindowFits(t, k1, k2)
  PROVE  /\ Window(t, <<k1, k2>>, <<k1, k2>>) = Pooled(t, k1, k2, d)
         /\ MeansBy(Pooled(t, k1, k2, d), (k1 * k2) * d)
<1> DEFINE C == t.shape[1]
           H == t.shape[2]
           W == t.shape[3]
           sh == PooledShape(t, k1, k2)
           k == <<k1, k2>>
           In(i) == Cells(i[1], i[2] * k1, i[3] * k2, k1, k2)
<1>1. /\ t.shape \in Shape3 /\ d \in Nat /\ \A i \in Indices(t.shape) : t.at[i].by = d
      /\ k1 \in Nat \ {0} /\ k2 \in Nat \ {0} /\ H >= k1 /\ W >= k2
  BY Zenon DEF MeansBy, WindowFits
<1>2. /\ C \in Nat \ {0} /\ H \in Nat /\ W \in Nat
      /\ Indices(t.shape) = (0..C - 1) \X (0..H - 1) \X (0..W - 1)
  BY <1>1, Shape3Is
<1>3. sh \in Shape3
  BY <1>1, PooledShape3, Zenon
<1>4. sh[1] = C /\ sh[2] = H \div k1 /\ sh[3] = W \div k2
  BY DEF PooledShape
<1>5. Indices(sh) = (0..C - 1) \X (0..(H \div k1) - 1) \X (0..(W \div k2) - 1)
  BY <1>3, <1>4, Shape3Is, Zenon
<1>6. WindowShape(t.shape, k, k) = sh
  <2>1. (H - k1) \div k1 + 1 = H \div k1 /\ (W - k2) \div k2 + 1 = W \div k2
    <3> HIDE DEF H, W
    <3>1. QED
      BY <1>1, <1>2, WholeWindows
  <2>2. k[1] = k1 /\ k[2] = k2
    OBVIOUS
  <2> HIDE DEF k
  <2>3. WindowShape(t.shape, k, k) = <<C, (H - k1) \div k1 + 1, (W - k2) \div k2 + 1>>
    BY <2>2, Zenon DEF WindowShape
  <2>4. QED
    BY <2>1, <2>3, Zenon DEF PooledShape
<1>7. ASSUME NEW i \in Indices(sh)
      PROVE  MeanOf(t, In(i)) = PooledAt(t, k1, k2, d, i)
  <2>1. i[1] \in 0..C - 1 /\ i[2] \in 0..(H \div k1) - 1 /\ i[3] \in 0..(W \div k2) - 1
    BY <1>5
  <2>2. /\ \A y \in 0..k1 - 1 : i[2] * k1 + y \in 0..H - 1
        /\ \A x \in 0..k2 - 1 : i[3] * k2 + x \in 0..W - 1
    <3> HIDE DEF H, W
    <3>1. \A p \in 0..(H \div k1) - 1, y \in 0..k1 - 1 : p * k1 + y \in 0..H - 1
      BY <1>1, <1>2, WholeWindows
    <3>2. \A p \in 0..(W \div k2) - 1, y \in 0..k2 - 1 : p * k2 + y \in 0..W - 1
      BY <1>1, <1>2, WholeWindows
    <3>3. QED
      BY <2>1, <3>1, <3>2, Zenon
  <2>3. ASSUME NEW h \in In(i) PROVE t.at[h].by = d
    <3>1. Within(i[1], i[2] * k1, i[3] * k2, k1, k2, h)
      BY CellsIn, Zenon
    <3>2. PICK y \in 0..k1 - 1, x \in 0..k2 - 1 : h = <<i[1], i[2] * k1 + y, i[3] * k2 + x>>
      BY <3>1, Zenon DEF Within
    <3>3. i[2] * k1 + y \in 0..H - 1 /\ i[3] * k2 + x \in 0..W - 1
      BY <2>2, Zenon
    <3>4. h \in (0..C - 1) \X (0..H - 1) \X (0..W - 1)
      BY <2>1, <3>2, <3>3, Zenon
    <3>5. QED
      BY <1>1, <1>2, <3>4, Zenon
  <2>4. i[2] * k1 \in Nat /\ i[3] * k2 \in Nat
    <3>1. i[2] \in Nat /\ i[3] \in Nat
      BY <2>1
    <3>2. QED
      BY <1>1, <3>1
  <2> DEFINE c == i[1]
             a == i[2] * k1
             b == i[3] * k2
  <2>5. Even(t, c, a, b, k1, k2, d)
    BY <1>1, <2>3, <2>4, Zenon DEF Even
  <2> HIDE DEF c, a, b
  <2>6. MeanOf(t, Cells(c, a, b, k1, k2)) = MeanIn(t, c, a, b, k1, k2, d)
    BY <2>5, MeanIs, Zenon
  <2>7. QED
    BY <2>6, Zenon DEF PooledAt, c, a, b
<1>8. Window(t, k, k) = [shape |-> sh, at |-> [i \in Indices(sh) |-> MeanOf(t, In(i))]]
  <2>1. k[1] = k1 /\ k[2] = k2
    OBVIOUS
  <2> HIDE DEF k
  <2>2. QED
    BY <1>6, <2>1, WindowIs, Zenon
<1>9. [i \in Indices(sh) |-> MeanOf(t, In(i))] = [i \in Indices(sh) |-> PooledAt(t, k1, k2, d, i)]
  <2> HIDE DEF In, sh
  <2>1. QED
    BY <1>7
<1>10. Window(t, k, k) = Pooled(t, k1, k2, d)
  BY <1>8, <1>9, Zenon DEF Pooled
<1>11. MeansBy(Pooled(t, k1, k2, d), (k1 * k2) * d)
  <2> DEFINE means == [i \in Indices(sh) |-> PooledAt(t, k1, k2, d, i)]
             e == (k1 * k2) * d
  <2>1. \A i \in Indices(sh) : means[i] = PooledAt(t, k1, k2, d, i)
    BY Zenon
  <2>2. \A i : PooledAt(t, k1, k2, d, i).by = e
    BY DEF PooledAt, MeanIn
  <2>3. e \in Nat
    BY <1>1
  <2> HIDE DEF means
  <2>4. Pooled(t, k1, k2, d).shape = sh /\ Pooled(t, k1, k2, d).at = means
    <3>1. Pooled(t, k1, k2, d) = [shape |-> sh, at |-> means]
      BY Zenon DEF Pooled, means
    <3> HIDE DEF sh
    <3>2. QED
      BY <3>1
  <2> HIDE DEF sh, e
  <2>5. QED
    BY <1>3, <2>1, <2>2, <2>3, <2>4, Zenon DEF MeansBy, sh, e
<1>12. QED
  BY <1>10, <1>11, Zenon

\* A pool in stages is the pool (decompose_pools in
\* sw/model_prep/graph_ops/pool_decompose.py, the cascade): on a tensor of means
\* with one divisor, as an image or a pool gives it, a small pool followed by
\* another is the pool whose window is as large as both together, also where the
\* windows leave a rest at the edge; and its result is again such a tensor, so
\* that a further stage may follow.
THEOREM StagesAreOnePool ==
  ASSUME NEW t, NEW d, MeansBy(t, d),
         NEW k1 \in Extents, NEW k2 \in Extents, NEW l1 \in Extents, NEW l2 \in Extents,
         WindowFits(t, k1 * l1, k2 * l2)
  PROVE  LET k == <<k1, k2>>
             l == <<l1, l2>>
             kl == <<k1 * l1, k2 * l2>>
         IN /\ Window(Window(t, k, k), l, l) = Window(t, kl, kl)
            /\ MeansBy(Window(t, kl, kl), ((k1 * l1) * (k2 * l2)) * d)
<1> DEFINE C == t.shape[1]
           H == t.shape[2]
           W == t.shape[3]
           m1 == k1 * l1
           m2 == k2 * l2
           u == Pooled(t, k1, k2, d)
           e == (k1 * k2) * d
           sh == PooledShape(t, m1, m2)
<1>1. k1 \in Nat \ {0} /\ k2 \in Nat \ {0} /\ l1 \in Nat \ {0} /\ l2 \in Nat \ {0}
  BY DEF Extents
<1>2. t.shape \in Shape3 /\ d \in Nat /\ C \in Nat \ {0} /\ H \in Nat /\ W \in Nat
  <2>1. t.shape \in Shape3 /\ d \in Nat
    BY Zenon DEF MeansBy
  <2>2. QED
    BY <2>1, Shape3Is
<1>3. /\ H >= m1 /\ W >= m2
      /\ H >= k1 /\ H \div k1 >= l1 /\ (H \div k1) \div l1 = H \div m1
      /\ W >= k2 /\ W \div k2 >= l2 /\ (W \div k2) \div l2 = W \div m2
  <2>1. H >= m1 /\ W >= m2
    BY Zenon DEF WindowFits
  <2> HIDE DEF H, W
  <2>2. QED
    BY <1>1, <1>2, <2>1, WindowsOfWindows
<1>4. WindowFits(t, k1, k2)
  BY <1>1, <1>3, Zenon DEF WindowFits
<1>5. /\ Window(t, <<k1, k2>>, <<k1, k2>>) = u /\ MeansBy(u, e)
      /\ Window(t, <<m1, m2>>, <<m1, m2>>) = Pooled(t, m1, m2, d)
      /\ MeansBy(Pooled(t, m1, m2, d), (m1 * m2) * d)
  <2> HIDE DEF m1, m2
  <2>1. WindowFits(t, m1, m2)
    BY Zenon DEF m1, m2
  <2>2. QED
    BY <1>4, <2>1, PooledIs, Zenon
<1>6. u.shape = <<C, H \div k1, W \div k2>>
      /\ \A j \in Indices(u.shape) : u.at[j] = PooledAt(t, k1, k2, d, j)
  BY DEF Pooled, PooledShape
<1> HIDE DEF u
<1>7. u.shape[1] = C /\ u.shape[2] = H \div k1 /\ u.shape[3] = W \div k2
  BY <1>6
<1>8. WindowFits(u, l1, l2)
  BY <1>1, <1>3, <1>7, Zenon DEF WindowFits
<1>9. Window(u, <<l1, l2>>, <<l1, l2>>) = Pooled(u, l1, l2, e)
  <2> HIDE DEF e
  <2>1. QED
    BY <1>5, <1>8, PooledIs, Zenon
<1>10. PooledShape(u, l1, l2) = sh
  BY <1>3, <1>7, Zenon DEF PooledShape
<1>11. ASSUME NEW i \in Indices(sh)
       PROVE  PooledAt(u, l1, l2, e, i) = PooledAt(t, m1, m2, d, i)
  <2> DEFINE c == i[1]
             p == i[2]
             q == i[3]
             Outer == Cells(c, p * l1, q * l2, l1, l2)
             Inner(y, x) == Cells(c, (p * l1 + y) * k1, (q * l2 + x) * k2, k1, k2)
             Large == Cells(c, p * m1, q * m2, m1, m2)
  <2>1. c \in 0..C - 1 /\ p \in 0..(H \div m1) - 1 /\ q \in 0..(W \div m2) - 1
    <3>1. sh \in Shape3
      <4>1. WindowFits(t, m1, m2)
        BY Zenon
      <4> HIDE DEF m1, m2
      <4>2. QED
        BY <1>2, <4>1, PooledShape3, Zenon
    <3>2. sh[1] = C /\ sh[2] = H \div m1 /\ sh[3] = W \div m2
      BY DEF PooledShape
    <3> HIDE DEF sh
    <3>3. Indices(sh) = (0..C - 1) \X (0..(H \div m1) - 1) \X (0..(W \div m2) - 1)
      BY <3>1, <3>2, Shape3Is, Zenon
    <3>4. QED
      BY <3>3
  <2>2. p \in Nat /\ q \in Nat
    BY <2>1
  <2>3. ASSUME NEW y \in 0..l1 - 1, NEW x \in 0..l2 - 1
        PROVE  /\ u.at[<<c, p * l1 + y, q * l2 + x>>].cells = UNION {t.at[h].cells : h \in Inner(y, x)}
               /\ <<c, p * l1 + y, q * l2 + x>> \in Outer
    <3> DEFINE j == <<c, p * l1 + y, q * l2 + x>>
    <3>1. p * l1 + y \in 0..(H \div k1) - 1 /\ q * l2 + x \in 0..(W \div k2) - 1
      <4>1. H \div k1 \in Nat /\ W \div k2 \in Nat
        BY <1>1, <1>2
      <4> DEFINE h1 == H \div k1
                 w1 == W \div k2
      <4>2. h1 \in Nat /\ w1 \in Nat /\ h1 >= l1 /\ w1 >= l2
            /\ p \in 0..(h1 \div l1) - 1 /\ q \in 0..(w1 \div l2) - 1
        BY <1>3, <2>1, <4>1, Zenon
      <4> HIDE DEF h1, w1, p, q
      <4>3. /\ \A a \in 0..(h1 \div l1) - 1, b \in 0..l1 - 1 : a * l1 + b \in 0..h1 - 1
            /\ \A a \in 0..(w1 \div l2) - 1, b \in 0..l2 - 1 : a * l2 + b \in 0..w1 - 1
        BY <1>1, <4>2, WholeWindows
      <4>4. QED
        BY <4>2, <4>3, Zenon DEF h1, w1
    <3>2. j \in Indices(u.shape)
      <4>1. Indices(u.shape) = (0..C - 1) \X (0..(H \div k1) - 1) \X (0..(W \div k2) - 1)
        <5>1. u.shape \in Shape3
          BY <1>5, Zenon DEF MeansBy
        <5>2. QED
          BY <1>7, <5>1, Shape3Is, Zenon
      <4>2. QED
        BY <2>1, <3>1, <4>1, Zenon
    <3>3. u.at[j] = PooledAt(t, k1, k2, d, j)
      BY <1>6, <3>2, Zenon
    <3>4. j[1] = c /\ j[2] = p * l1 + y /\ j[3] = q * l2 + x
      OBVIOUS
    <3>5. PooledAt(t, k1, k2, d, j) = MeanIn(t, c, (p * l1 + y) * k1, (q * l2 + x) * k2, k1, k2, d)
      <4> HIDE DEF j
      <4>1. QED
        BY <3>4, Zenon DEF PooledAt
    <3>6. PooledAt(t, k1, k2, d, j).cells = UNION {t.at[h].cells : h \in Inner(y, x)}
      BY <3>5 DEF MeanIn
    <3>7. Within(c, p * l1, q * l2, l1, l2, j)
      BY Zenon DEF Within
    <3>8. j \in Outer
      BY <3>7, CellsIn, Zenon
    <3>9. QED
      BY <3>3, <3>6, <3>8, Zenon
  <2>4. ASSUME NEW j \in Outer
        PROVE  \E y \in 0..l1 - 1, x \in 0..l2 - 1 : j = <<c, p * l1 + y, q * l2 + x>>
    <3>1. Within(c, p * l1, q * l2, l1, l2, j)
      BY CellsIn, Zenon
    <3>2. QED
      BY <3>1, Zenon DEF Within
  <2>5. \A h : h \in Large <=> \E y \in 0..l1 - 1, x \in 0..l2 - 1 : h \in Inner(y, x)
    <3> HIDE DEF p, q, c
    <3>1. QED
      BY <1>1, <2>2, NestedCells, ZenonT(60)
  <2>6. UNION {u.at[j].cells : j \in Outer} = UNION {t.at[h].cells : h \in Large}
    <3> DEFINE A == UNION {u.at[j].cells : j \in Outer}
               B == UNION {t.at[h].cells : h \in Large}
    <3> HIDE DEF Outer, Inner, Large
    <3>1. ASSUME NEW z \in A PROVE z \in B
      <4>1. PICK j \in Outer : z \in u.at[j].cells
        BY Zenon
      <4>2. PICK y \in 0..l1 - 1, x \in 0..l2 - 1 : j = <<c, p * l1 + y, q * l2 + x>>
        BY <2>4, Zenon
      <4>3. z \in UNION {t.at[h].cells : h \in Inner(y, x)}
        BY <2>3, <4>1, <4>2, Zenon
      <4>4. PICK h \in Inner(y, x) : z \in t.at[h].cells
        BY <4>3, Zenon
      <4>5. h \in Large
        BY <2>5, Zenon
      <4>6. QED
        BY <4>4, <4>5, Zenon
    <3>2. ASSUME NEW z \in B PROVE z \in A
      <4>1. PICK h \in Large : z \in t.at[h].cells
        BY Zenon
      <4>2. PICK y \in 0..l1 - 1, x \in 0..l2 - 1 : h \in Inner(y, x)
        BY <2>5, Zenon
      <4>3. z \in UNION {t.at[g].cells : g \in Inner(y, x)}
        BY <4>1, <4>2, Zenon
      <4>4. z \in u.at[<<c, p * l1 + y, q * l2 + x>>].cells
        BY <2>3, <4>3, Zenon
      <4>5. QED
        BY <2>3, <4>4, Zenon
    <3> HIDE DEF A, B
    <3>3. A = B
      BY <3>1, <3>2, Zenon
    <3>4. QED
      BY <3>3, Zenon DEF A, B
  <2>7. (l1 * l2) * e = (m1 * m2) * d
    <3>1. (k1 * l1) * (k2 * l2) = (k1 * k2) * (l1 * l2)
      BY <1>1
    <3> DEFINE kk == k1 * k2
               ll == l1 * l2
    <3>2. kk \in Nat /\ ll \in Nat
      BY <1>1
    <3> HIDE DEF kk, ll
    <3>3. ll * (kk * d) = (kk * ll) * d
      BY <1>2, <3>2
    <3>4. QED
      BY <3>1, <3>3, Zenon DEF kk, ll
  <2>8. QED
    BY <2>6, <2>7, Zenon DEF PooledAt, MeanIn
<1>12. [i \in Indices(sh) |-> PooledAt(u, l1, l2, e, i)] = [i \in Indices(sh) |-> PooledAt(t, m1, m2, d, i)]
  <2> HIDE DEF sh, m1, m2, e
  <2>1. QED
    BY <1>11
<1>13. Pooled(u, l1, l2, e) = Pooled(t, m1, m2, d)
  BY <1>10, <1>12, Zenon DEF Pooled
<1>14. QED
  BY <1>5, <1>9, <1>13, Zenon

\* The window of a global pool, whatever its stride.
LEMMA GlobalWindow ==
  ASSUME NEW t, NEW s1 \in Extents, NEW s2 \in Extents, \A a \in 1..3 : t.shape[a] \in Extents
  PROVE  LET k == <<t.shape[2], t.shape[3]>>
         IN Window(t, k, <<s1, s2>>) = Window(t, k, <<1, 1>>)
<1> DEFINE C == t.shape[1]
           H == t.shape[2]
           W == t.shape[3]
           sh == <<C, 1, 1>>
           k == <<H, W>>
           In(i, a, b) == MeanOf(t, Cells(i[1], i[2] * a, i[3] * b, H, W))
<1>1. C \in Nat \ {0} /\ H \in Nat \ {0} /\ W \in Nat \ {0}
  <2>1. 1 \in 1..3 /\ 2 \in 1..3 /\ 3 \in 1..3
    OBVIOUS
  <2>2. QED
    BY <2>1, Zenon DEF Extents
<1> HIDE DEF C, H, W
<1>2. ASSUME NEW a \in Nat \ {0}, NEW b \in Nat \ {0}
      PROVE  Window(t, k, <<a, b>>) = [shape |-> sh, at |-> [i \in Indices(sh) |-> In(i, a, b)]]
  <2>1. (H - H) \div a + 1 = 1 /\ (W - W) \div b + 1 = 1
    <3>1. 0 \div a = 0 /\ 0 \div b = 0
      OBVIOUS
    <3>2. QED
      BY <1>1, <3>1
  <2> DEFINE s == <<a, b>>
  <2>2. k[1] = H /\ k[2] = W /\ s[1] = a /\ s[2] = b
    OBVIOUS
  <2> HIDE DEF k, s, In
  <2>3. WindowShape(t.shape, k, s) = sh
    BY <2>1, <2>2, Zenon DEF WindowShape, C, H, W
  <2>4. QED
    BY <2>2, <2>3, WindowIs, Zenon DEF In, s
<1>3. Indices(sh) = (0..C - 1) \X (0..0) \X (0..0)
  <2>1. 1 \in Nat \ {0} /\ 1 - 1 = 0
    OBVIOUS
  <2>2. Indices(<<C, 1, 1>>) = (0..C - 1) \X (0..1 - 1) \X (0..1 - 1)
    BY <1>1, <2>1, TripleIndices
  <2>3. QED
    BY <2>1, <2>2, Zenon
<1>4. ASSUME NEW i \in Indices(sh)
      PROVE  In(i, s1, s2) = In(i, 1, 1)
  <2>1. i[2] = 0 /\ i[3] = 0
    BY <1>3
  <2>2. 0 * s1 = 0 * 1 /\ 0 * s2 = 0 * 1
    BY DEF Extents
  <2>3. QED
    BY <2>1, <2>2, Zenon
<1>5. [i \in Indices(sh) |-> In(i, s1, s2)] = [i \in Indices(sh) |-> In(i, 1, 1)]
  <2> HIDE DEF In, sh
  <2>1. QED
    BY <1>4
<1>6. s1 \in Nat \ {0} /\ s2 \in Nat \ {0} /\ 1 \in Nat \ {0}
  BY DEF Extents
<1>7. Window(t, k, <<s1, s2>>) = Window(t, k, <<1, 1>>)
  <2> DEFINE F(a, b) == [i \in Indices(sh) |-> In(i, a, b)]
  <2>1. F(s1, s2) = F(1, 1)
    BY <1>5, Zenon
  <2> HIDE DEF k, In, sh, F
  <2>2. \A a, b \in Nat \ {0} : Window(t, k, <<a, b>>) = [shape |-> sh, at |-> F(a, b)]
    BY <1>2, Zenon DEF F
  <2>3. QED
    BY <1>6, <2>1, <2>2, Zenon
<1>8. QED
  BY <1>7, Zenon DEF H, W

-------------------------------------------------------------------------------
(* A graph and its equations.                                               *)

\* The equations of a graph.
Solves(g, e) ==
  /\ e[<<"x">>] = Input(g.shape)
  /\ \A c \in DOMAIN g.inits : e[c] = g.inits[c]
  /\ \A i \in DOMAIN g.nodes : e[g.nodes[i].out] = Value(g.nodes[i], e)

AgreeOn(S, e, f) == \A y \in S : e[y] = f[y]

\* A node's value, from two evaluations that agree on what the node may read.
LEMMA NodeReads ==
  ASSUME NEW g, InOrder(g), NEW i \in DOMAIN g.nodes, NEW e, NEW f,
         AgreeOn(Range(g.nodes[i].ins), e, f)
  PROVE  Value(g.nodes[i], e) = Value(g.nodes[i], f)
<1> DEFINE n == g.nodes[i]
<1>1. n.op \in Ops /\ 1..(IF n.op \in Layers THEN 2 ELSE 1) \subseteq DOMAIN n.ins
  BY Zenon DEF InOrder
<1> HIDE DEF n
<1>2. 1 \in DOMAIN n.ins /\ (n.op \in Layers => 2 \in DOMAIN n.ins)
  BY <1>1
<1>3. \A a \in DOMAIN n.ins : n.ins[a] \in Range(n.ins)
  BY Zenon DEF Range
<1>4. e[n.ins[1]] = f[n.ins[1]] /\ (n.op \in Layers => e[n.ins[2]] = f[n.ins[2]])
  BY <1>2, <1>3, Zenon DEF n, AgreeOn
<1>5. QED
  BY <1>1, <1>4, ValueReads, Zenon DEF n

LEMMA Solved ==
  ASSUME NEW g, InOrder(g)
  PROVE  Solves(g, Env(g))
<1> DEFINE L == Len(g.nodes)
           E == EnvAt(g)
           X == <<"x">>
           v == Input(g.shape)
<1>1. L \in Nat /\ DOMAIN g.nodes = 1..L
  BY ElementOfSeq, SMT DEF InOrder
<1>2. /\ Env(g) = E[L] /\ E[0] = With(g.inits, X, v)
      /\ \A i \in 1..L : E[i] = With(E[i - 1], g.nodes[i].out, Value(g.nodes[i], E[i - 1]))
  BY <1>1, EnvFacts, Zenon
<1>3. \A k \in 0..L : \A y \in Made(g, k) : E[L][y] = E[k][y]
  BY EnvNames, Zenon
<1> HIDE DEF E, v, X
<1>4. 0 \in 0..L /\ X \in Made(g, 0) /\ X \notin DOMAIN g.inits /\ DOMAIN g.inits \subseteq Made(g, 0)
  <2>1. 0 \in 0..L
    BY <1>1
  <2>2. X \notin DOMAIN g.inits
    BY Zenon DEF InOrder, X
  <2>3. X \in Made(g, 0) /\ DOMAIN g.inits \subseteq Made(g, 0)
    BY Zenon DEF Made, X
  <2>4. QED
    BY <2>1, <2>2, <2>3, Zenon
<1>5. E[0][X] = v /\ \A c \in DOMAIN g.inits : E[0][c] = g.inits[c]
  BY <1>2, <1>4, Zenon DEF With
<1>6. ASSUME NEW i \in DOMAIN g.nodes
      PROVE  E[L][g.nodes[i].out] = Value(g.nodes[i], E[L])
  <2> DEFINE n == g.nodes[i]
             o == n.out
             e == E[i - 1]
             u == Value(n, e)
  <2>1. i \in 1..L /\ i \in 0..L /\ i - 1 \in 0..L
    BY <1>1
  <2>2. E[i] = With(e, o, u)
    BY <1>2, <2>1, Zenon
  <2>3. o \in Made(g, i)
    <3>1. Made(g, i) = Made(g, i - 1) \cup {g.nodes[i].out}
      BY <1>1, <2>1, MadeNext, Zenon
    <3>2. QED
      BY <3>1, Zenon
  <2>4. E[L][o] = E[i][o]
    BY <1>3, <2>1, <2>3, Zenon
  <2>5. \A y \in Range(n.ins) : e[y] = E[L][y]
    BY <1>3, <2>1, Zenon DEF InOrder
  <2>6. Value(n, e) = Value(n, E[L])
    <3> DEFINE f == E[L]
    <3> HIDE DEF e, f
    <3>1. AgreeOn(Range(n.ins), e, f)
      BY <2>5, Zenon DEF f, AgreeOn
    <3>2. Value(n, e) = Value(n, f)
      BY <3>1, NodeReads, ZenonT(60)
    <3>3. QED
      BY <3>2, Zenon DEF f
  <2> HIDE DEF e, o, u
  <2>7. With(e, o, u)[o] = u
    BY Zenon DEF With
  <2>8. QED
    BY <2>2, <2>4, <2>6, <2>7, Zenon DEF o, u
<1>7. QED
  BY <1>2, <1>3, <1>4, <1>5, <1>6, Zenon DEF Solves, X, v

\* They have one solution, its evaluation.
LEMMA Determined ==
  ASSUME NEW g, InOrder(g), NEW e, Solves(g, e)
  PROVE  AgreeOn(Made(g, Len(g.nodes)), Env(g), e)
<1> DEFINE L == Len(g.nodes)
           E == EnvAt(g)
           X == <<"x">>
           v == Input(g.shape)
<1>1. L \in Nat /\ DOMAIN g.nodes = 1..L
  BY ElementOfSeq, SMT DEF InOrder
<1>2. /\ Env(g) = E[L] /\ E[0] = With(g.inits, X, v)
      /\ \A i \in 1..L : E[i] = With(E[i - 1], g.nodes[i].out, Value(g.nodes[i], E[i - 1]))
  BY <1>1, EnvFacts, Zenon
<1>3. \A k \in 0..L : DOMAIN E[k] = Made(g, k)
  BY EnvNames, Zenon
<1>4. e[X] = v /\ \A c \in DOMAIN g.inits : e[c] = g.inits[c]
  BY Zenon DEF Solves
<1> HIDE DEF E, v, X
<1> DEFINE Bad == {k \in 0..L : \E y \in Made(g, k) : E[k][y] # e[y]}
<1>5. ASSUME Bad # {} PROVE FALSE
  <2>1. Bad \in SUBSET Nat
    BY <1>1
  <2>2. PICK k \in Bad : \A j \in Bad : k <= j
    BY <1>5, <2>1, Least, Zenon
  <2>3. k \in 0..L
    BY Zenon
  <2>4. PICK y \in Made(g, k) : E[k][y] # e[y]
    BY Zenon
  <2>5. CASE k = 0
    <3>1. DOMAIN E[0] = Made(g, 0)
      BY <1>3, <2>3, <2>5, Zenon
    <3>2. E[0][y] = e[y]
      <4>1. y \in DOMAIN With(g.inits, X, v)
        BY <1>2, <2>5, <3>1, Zenon
      <4>2. QED
        BY <1>2, <1>4, <4>1, Zenon DEF With
    <3>3. QED
      BY <2>4, <2>5, <3>2, Zenon
  <2>6. CASE k # 0
    <3> DEFINE n == g.nodes[k]
               o == n.out
               f == E[k - 1]
    <3>1. k \in 1..L /\ k - 1 \in 0..L /\ ~(k <= k - 1)
      BY <1>1, <2>3, <2>6
    <3>2. \A z \in Made(g, k - 1) : f[z] = e[z]
      BY <2>2, <3>1, Zenon
    <3>3. E[k] = With(f, o, Value(n, f))
      BY <1>2, <3>1, Zenon
    <3>4. Value(n, f) = Value(n, e)
      <4>1. k \in DOMAIN g.nodes
        BY <1>1, <3>1, Zenon
      <4>2. AgreeOn(Range(n.ins), f, e)
        BY <3>2, <4>1, Zenon DEF InOrder, AgreeOn
      <4> HIDE DEF f
      <4>3. QED
        BY <4>1, <4>2, NodeReads, ZenonT(60)
    <3>5. Value(n, e) = e[o]
      BY <1>1, <3>1, Zenon DEF Solves
    <3>6. Made(g, k) = Made(g, k - 1) \cup {o} /\ DOMAIN f = Made(g, k - 1)
      BY <1>1, <1>3, <3>1, MadeNext, Zenon
    <3> HIDE DEF f, o, n
    <3>7. E[k][y] = e[y]
      BY <2>4, <3>2, <3>3, <3>4, <3>5, <3>6, Zenon DEF With
    <3>8. QED
      BY <2>4, <3>7, Zenon
  <2>7. QED
    BY <2>5, <2>6, Zenon
<1>6. L \in 0..L
  BY <1>1
<1>7. QED
  BY <1>2, <1>5, <1>6, Zenon DEF AgreeOn

LEMMA SameMeaning ==
  ASSUME NEW g, NEW h, InOrder(h), h.outputs = g.outputs, NEW e, Solves(h, e),
         \A o \in g.outputs : e[o] = Env(g)[o]
  PROVE  Meaning(h) = Meaning(g)
<1> DEFINE Eh == Env(h)
           Eg == Env(g)
<1>1. \A o \in g.outputs : Eh[o] = Eg[o]
  <2>1. AgreeOn(Made(h, Len(h.nodes)), Env(h), e)
    BY Determined, Zenon
  <2>2. QED
    BY <2>1, Zenon DEF AgreeOn, InOrder
<1> HIDE DEF Eh, Eg
<1>2. [o \in g.outputs |-> Eh[o]] = [o \in g.outputs |-> Eg[o]]
  BY <1>1, Zenon
<1>3. QED
  BY <1>2, Zenon DEF Meaning, Eh, Eg

-------------------------------------------------------------------------------
(* transpose_fold: what may go.                                             *)

\* A sequence without its element i.
LEMMA RemovedAt ==
  ASSUME NEW s, s \in Seq(Range(s)), NEW i \in DOMAIN s
  PROVE  LET r == RemoveAt(s, i) IN
         /\ r \in Seq(Range(s)) /\ Len(r) = Len(s) - 1 /\ Len(s) \in Nat \ {0}
         /\ DOMAIN r = 1..Len(s) - 1
         /\ \A j \in 1..Len(s) - 1 : r[j] = s[IF j < i THEN j ELSE j + 1]
<1> DEFINE L == Len(s)
           a == SubSeq(s, 1, i - 1)
           b == SubSeq(s, i + 1, L)
           T == Range(s)
<1>1. L \in Nat \ {0} /\ DOMAIN s = 1..L /\ i \in 1..L /\ \A j \in 1..L : s[j] \in T
  BY ElementOfSeq
<1>2. a \in Seq(T) /\ Len(a) = i - 1 /\ \A j \in 1..i - 1 : a[j] = s[j]
  BY <1>1, SubSeqProperties
<1>3. b \in Seq(T) /\ Len(b) = L - i /\ \A j \in 1..L - i : b[j] = s[i + j]
  BY <1>1, SubSeqProperties
<1>4. RemoveAt(s, i) = a \o b
  BY Zenon DEF RemoveAt
<1> HIDE DEF a, b, L, T
<1> DEFINE r == a \o b
<1>5. r \in Seq(T) /\ Len(r) = L - 1 /\ DOMAIN r = 1..L - 1
  BY <1>1, <1>2, <1>3, SMT
<1>6. \A j \in 1..L - 1 : r[j] = IF j < i THEN a[j] ELSE b[j - (i - 1)]
  BY <1>1, <1>2, <1>3, SMT
<1>7. \A j \in 1..L - 1 : r[j] = s[IF j < i THEN j ELSE j + 1]
  <2>1. ASSUME NEW j \in 1..L - 1 PROVE r[j] = s[IF j < i THEN j ELSE j + 1]
    <3>1. CASE j < i
      <4>1. j \in 1..i - 1
        BY <1>1, <3>1
      <4>2. QED
        BY <1>2, <1>6, <3>1, <4>1, Zenon
    <3>2. CASE ~(j < i)
      <4>1. j - (i - 1) \in 1..L - i /\ i + (j - (i - 1)) = j + 1
        BY <1>1, <3>2
      <4>2. QED
        BY <1>3, <1>6, <3>2, <4>1, Zenon
    <3>3. QED
      BY <3>1, <3>2, Zenon
  <2>2. QED
    BY <2>1, Zenon
<1>8. QED
  BY <1>1, <1>4, <1>5, <1>7, Zenon DEF L, T

\* A node nobody needs may go.
Unneeded(g, i) == Consumers(g, g.nodes[i].out) = {} /\ g.nodes[i].out \notin g.outputs
Without(g, i) == [g EXCEPT !.nodes = RemoveAt(@, i)]

LEMMA WithoutNode ==
  ASSUME NEW g, InOrder(g), NEW i \in DOMAIN g.nodes, Unneeded(g, i)
  PROVE  LET h == Without(g, i) IN
         /\ InOrder(h) /\ h.outputs = g.outputs /\ h.inits = g.inits /\ h.shape = g.shape
         /\ \A e : Solves(g, e) => Solves(h, e)
<1> DEFINE L == Len(g.nodes)
           s == g.nodes
           r == RemoveAt(s, i)
           h == Without(g, i)
           o == g.nodes[i].out
           p(j) == IF j < i THEN j ELSE j + 1
<1>1. /\ DOMAIN g = {"shape", "inits", "outputs", "nodes"} /\ s \in Seq(Range(s))
      /\ <<"x">> \notin DOMAIN g.inits
      /\ g.outputs \subseteq Made(g, L) \ DOMAIN g.inits
  BY Zenon DEF InOrder
<1>2. /\ DOMAIN h = DOMAIN g /\ h.shape = g.shape /\ h.inits = g.inits /\ h.outputs = g.outputs
      /\ h.nodes = r
  <2> HIDE DEF r
  <2>1. h = [g EXCEPT !.nodes = r]
    BY Zenon DEF Without, r
  <2> HIDE DEF h
  <2>2. QED
    BY <1>1, <2>1
<1>3. /\ L \in Nat \ {0} /\ DOMAIN s = 1..L /\ i \in 1..L
      /\ r \in Seq(Range(s)) /\ Len(r) = L - 1 /\ DOMAIN r = 1..L - 1
      /\ \A j \in 1..L - 1 : r[j] = s[p(j)]
  <2> HIDE DEF s
  <2>1. i \in DOMAIN s
    BY Zenon DEF s
  <2>2. /\ RemoveAt(s, i) \in Seq(Range(s)) /\ Len(RemoveAt(s, i)) = Len(s) - 1 /\ Len(s) \in Nat \ {0}
        /\ DOMAIN RemoveAt(s, i) = 1..Len(s) - 1
        /\ \A j \in 1..Len(s) - 1 : RemoveAt(s, i)[j] = s[IF j < i THEN j ELSE j + 1]
    BY <1>1, <2>1, RemovedAt
  <2>3. DOMAIN s = 1..Len(s)
    BY <1>1, ElementOfSeq
  <2>4. QED
    BY <2>1, <2>2, <2>3, Zenon DEF s
<1> HIDE DEF h, r
<1>4. \A j \in 1..L - 1 : p(j) \in 1..L /\ p(j) # i
  BY <1>3
<1>5. \A q \in 1..L : q # i => \E j \in 1..L - 1 : p(j) = q
  <2>1. ASSUME NEW q \in 1..L, q # i PROVE \E j \in 1..L - 1 : p(j) = q
    <3>1. CASE q < i
      <4>1. q \in 1..L - 1 /\ p(q) = q
        BY <1>3, <3>1
      <4>2. QED
        BY <4>1, Zenon
    <3>2. CASE ~(q < i)
      <4>1. q - 1 \in 1..L - 1 /\ p(q - 1) = q
        BY <1>3, <2>1, <3>2
      <4>2. QED
        BY <4>1, Zenon
    <3>3. QED
      BY <3>1, <3>2, Zenon
  <2>2. QED
    BY <2>1, Zenon
<1> HIDE DEF L
<1>6. ASSUME NEW k \in 1..L, NEW m \in 0..L - 1, \A j \in 1..L - 1 : j <= m <=> p(j) < k
      PROVE  Made(h, m) \subseteq Made(g, k - 1) /\ Made(g, k - 1) \ {o} \subseteq Made(h, m)
  <2> DEFINE F == {<<"x">>} \cup DOMAIN g.inits
             outOf(j) == s[j].out
  <2>1. \A y : y \in Made(h, m) <=> y \in F \/ \E j \in 1..m : y = outOf(p(j))
    <3>1. \A y : y \in Made(h, m) <=> y \in F \/ \E j \in 1..m : y = h.nodes[j].out
      BY <1>2, Zenon DEF Made
    <3>2. \A j \in 1..m : h.nodes[j] = s[p(j)]
      <4>1. \A j \in 1..m : j \in 1..L - 1
        BY <1>3
      <4>2. QED
        BY <1>2, <1>3, <4>1, Zenon
    <3>3. \A j \in 1..m : h.nodes[j].out = outOf(p(j))
      BY <3>2, Zenon
    <3> DEFINE made(j) == h.nodes[j].out
               left(j) == outOf(p(j))
    <3>4. \A j \in 1..m : made(j) = left(j)
      BY <3>3, Zenon
    <3> HIDE DEF F, outOf, p, made, left
    <3>5. \A y : (\E j \in 1..m : y = made(j)) <=> \E j \in 1..m : y = left(j)
      BY <3>4, Zenon
    <3>6. QED
      BY <3>1, <3>5, Zenon DEF made, left
  <2>2. \A y : y \in Made(g, k - 1) <=> y \in F \/ \E j \in 1..k - 1 : y = outOf(j)
    BY Zenon DEF Made
  <2>3. \A j \in 1..m : p(j) \in 1..k - 1
    <3>1. \A j \in 1..m : j \in 1..L - 1 /\ j <= m
      BY <1>3
    <3>2. \A j \in 1..m : p(j) < k /\ p(j) \in 1..L
      BY <1>4, <1>6, <3>1, Zenon
    <3> HIDE DEF p
    <3>3. QED
      BY <1>3, <3>2
  <2>4. \A q \in 1..k - 1 : q # i => \E j \in 1..m : p(j) = q
    <3>1. ASSUME NEW q \in 1..k - 1, q # i PROVE \E j \in 1..m : p(j) = q
      <4>1. q \in 1..L /\ q < k
        BY <1>3
      <4>2. PICK j \in 1..L - 1 : p(j) = q
        BY <1>5, <3>1, <4>1, Zenon
      <4>3. j <= m
        BY <1>6, <4>1, <4>2, Zenon
      <4>4. j \in 1..m
        BY <1>3, <4>3
      <4>5. QED
        BY <4>2, <4>4, Zenon
    <3>2. QED
      BY <3>1, Zenon
  <2>5. outOf(i) = o
    BY Zenon
  <2> HIDE DEF F, outOf, o, p
  <2>6. QED
    BY <2>1, <2>2, <2>3, <2>4, <2>5, ZenonT(60)
<1>7. InOrder(h)
  <2>1. h.nodes \in Seq(Range(h.nodes))
    <3>1. r \in Seq(Range(r))
      <4>1. r \in [1..L - 1 -> Range(r)] /\ L - 1 \in Nat
        <5>1. L - 1 \in Nat
          BY <1>3
        <5>2. r = [j \in 1..L - 1 |-> r[j]]
          BY <1>3, ElementOfSeq, SMT
        <5>3. \A j \in 1..L - 1 : r[j] \in Range(r)
          BY <1>3, Zenon DEF Range
        <5>4. QED
          BY <5>1, <5>2, <5>3, Zenon
      <4>2. QED
        BY <4>1, SeqDef, Zenon
    <3>2. QED
      BY <1>2, <3>1, Zenon
  <2>2. g.outputs \subseteq Made(h, L - 1)
    <3>1. o \notin g.outputs
      BY Zenon DEF Unneeded
    <3>2. ASSUME NEW y \in g.outputs PROVE y \in Made(h, L - 1)
      <4>1. y \in Made(g, L) /\ y # o
        BY <1>1, <3>1, Zenon
      <4>2. y \in {<<"x">>} \cup DOMAIN g.inits \/ \E j \in 1..L : y = s[j].out
        BY <4>1, Zenon DEF Made
      <4>3. CASE y \in {<<"x">>} \cup DOMAIN g.inits
        BY <1>2, <4>3, Zenon DEF Made
      <4>4. CASE \E j \in 1..L : y = s[j].out
        <5>1. PICK q \in 1..L : y = s[q].out
          BY <4>4, Zenon
        <5>2. q # i
          BY <4>1, <5>1, Zenon
        <5>3. PICK j \in 1..L - 1 : p(j) = q
          BY <1>5, <5>2, Zenon
        <5>4. h.nodes[j].out = y
          BY <1>2, <1>3, <5>1, <5>3, Zenon
        <5>5. QED
          BY <5>4, Zenon DEF Made
      <4>5. QED
        BY <4>2, <4>3, <4>4, Zenon
    <3>3. QED
      BY <3>2, Zenon
  <2>3. ASSUME NEW j \in DOMAIN h.nodes
        PROVE  LET n == h.nodes[j] IN
               /\ n.op \in Ops /\ {"op", "ins", "out"} \subseteq DOMAIN n
               /\ 1..(IF n.op \in Layers THEN 2 ELSE 1) \subseteq DOMAIN n.ins
               /\ Range(n.ins) \subseteq Made(h, j - 1) /\ n.out \notin Made(h, j - 1)
    <3> DEFINE q == p(j)
               n == h.nodes[j]
    <3>1. j \in 1..L - 1 /\ q \in 1..L /\ q # i
      BY <1>2, <1>3, <1>4, Zenon
    <3>2. n = g.nodes[q] /\ q \in DOMAIN g.nodes
      BY <1>2, <1>3, <3>1, Zenon
    <3>3. /\ n.op \in Ops /\ {"op", "ins", "out"} \subseteq DOMAIN n
          /\ 1..(IF n.op \in Layers THEN 2 ELSE 1) \subseteq DOMAIN n.ins
          /\ Range(n.ins) \subseteq Made(g, q - 1) /\ n.out \notin Made(g, q - 1)
      BY <3>2, Zenon DEF InOrder
    <3>4. o \notin Range(n.ins)
      BY <3>2, Zenon DEF Unneeded, Consumers
    <3>5. j - 1 \in 0..L - 1 /\ \A k \in 1..L - 1 : k <= j - 1 <=> p(k) < q
      BY <1>3, <3>1
    <3> HIDE DEF q, n, p
    <3>6. Made(h, j - 1) \subseteq Made(g, q - 1) /\ Made(g, q - 1) \ {o} \subseteq Made(h, j - 1)
      BY <1>6, <3>1, <3>5, Zenon
    <3>7. QED
      BY <3>3, <3>4, <3>6, Zenon DEF n
  <2>4. Len(h.nodes) = L - 1
    BY <1>2, <1>3, Zenon
  <2>5. QED
    BY <1>1, <1>2, <2>1, <2>2, <2>3, <2>4, Zenon DEF InOrder
<1>8. ASSUME NEW e, Solves(g, e) PROVE Solves(h, e)
  <2>1. \A j \in DOMAIN h.nodes : \E q \in DOMAIN g.nodes : h.nodes[j] = g.nodes[q]
    BY <1>2, <1>3, <1>4, Zenon
  <2>2. QED
    BY <1>2, <1>8, <2>1, Zenon DEF Solves
<1>9. QED
  BY <1>2, <1>7, <1>8, Zenon DEF h

\* So may a constant that nobody reads.
LEMMA WithoutInit ==
  ASSUME NEW g, InOrder(g), NEW c
  PROVE  LET h == PruneInit(g, c) IN
         /\ InOrder(h) /\ h.outputs = g.outputs
         /\ \A e : Solves(g, e) => Solves(h, e)
<1>1. CASE Consumers(g, c) # {}
  <2>1. PruneInit(g, c) = g
    BY <1>1, Zenon DEF PruneInit
  <2>2. QED
    BY <2>1, Zenon
<1>2. CASE Consumers(g, c) = {}
  <2> DEFINE f == [d \in DOMAIN g.inits \ {c} |-> g.inits[d]]
             h == PruneInit(g, c)
             L == Len(g.nodes)
             X == <<"x">>
  <2>1. /\ DOMAIN g = {"shape", "inits", "outputs", "nodes"} /\ g.nodes \in Seq(Range(g.nodes))
        /\ X \notin DOMAIN g.inits
        /\ g.outputs \subseteq Made(g, L) \ DOMAIN g.inits
    BY Zenon DEF InOrder
  <2>2. DOMAIN f = DOMAIN g.inits \ {c} /\ \A d \in DOMAIN f : f[d] = g.inits[d]
    BY Zenon
  <2>3. h = [g EXCEPT !.inits = f]
    BY <1>2, Zenon DEF PruneInit
  <2> HIDE DEF f
  <2>4. /\ DOMAIN h = DOMAIN g /\ h.shape = g.shape /\ h.inits = f /\ h.outputs = g.outputs
        /\ h.nodes = g.nodes
    <3> HIDE DEF h
    <3>1. QED
      BY <2>1, <2>3
  <2> HIDE DEF h
  <2>5. \A k : Made(h, k) \subseteq Made(g, k) /\ Made(g, k) \ {c} \subseteq Made(h, k)
               /\ Made(g, k) \ DOMAIN g.inits \subseteq Made(h, k)
    <3> TAKE k
    <3> DEFINE Outs == {g.nodes[j].out : j \in 1..k}
    <3>1. Made(g, k) = {X} \cup DOMAIN g.inits \cup Outs
      BY Zenon DEF Made
    <3>2. Made(h, k) = {X} \cup DOMAIN f \cup Outs
      BY <2>4, Zenon DEF Made
    <3> HIDE DEF Outs, X
    <3>3. QED
      BY <2>2, <3>1, <3>2, Zenon
  <2>6. ASSUME NEW j \in DOMAIN h.nodes
        PROVE  LET n == h.nodes[j] IN
               /\ n.op \in Ops /\ {"op", "ins", "out"} \subseteq DOMAIN n
               /\ 1..(IF n.op \in Layers THEN 2 ELSE 1) \subseteq DOMAIN n.ins
               /\ Range(n.ins) \subseteq Made(h, j - 1) /\ n.out \notin Made(h, j - 1)
    <3> DEFINE n == h.nodes[j]
    <3>1. n = g.nodes[j] /\ j \in DOMAIN g.nodes
      BY <2>4, Zenon
    <3>2. /\ n.op \in Ops /\ {"op", "ins", "out"} \subseteq DOMAIN n
          /\ 1..(IF n.op \in Layers THEN 2 ELSE 1) \subseteq DOMAIN n.ins
          /\ Range(n.ins) \subseteq Made(g, j - 1) /\ n.out \notin Made(g, j - 1)
      BY <3>1, Zenon DEF InOrder
    <3>3. c \notin Range(n.ins)
      BY <1>2, <3>1, Zenon DEF Consumers
    <3> HIDE DEF n
    <3>4. QED
      BY <2>5, <3>2, <3>3, Zenon DEF n
  <2>7. g.outputs \subseteq Made(h, L) \ DOMAIN f
    BY <2>1, <2>2, <2>5, Zenon
  <2>8. InOrder(h)
    BY <2>1, <2>2, <2>4, <2>6, <2>7, Zenon DEF InOrder
  <2>9. \A e : Solves(g, e) => Solves(h, e)
    BY <2>2, <2>4, Zenon DEF Solves
  <2>10. QED
    BY <2>4, <2>8, <2>9, Zenon DEF h
<1>3. QED
  BY <1>1, <1>2, Zenon

\* A node that reads something else, and perhaps a new constant.
Rewires(g, i, m, new, h) ==
  /\ DOMAIN h = DOMAIN g /\ h.shape = g.shape /\ h.outputs = g.outputs
  /\ h.nodes = [g.nodes EXCEPT ![i] = m]
  /\ DOMAIN h.inits = DOMAIN g.inits \cup {new}
  /\ new \notin g.outputs /\ new # <<"x">> /\ \A j \in DOMAIN g.nodes : g.nodes[j].out # new
  /\ m.op = g.nodes[i].op /\ m.out = g.nodes[i].out /\ {"op", "ins", "out"} \subseteq DOMAIN m
  /\ DOMAIN m.ins = DOMAIN g.nodes[i].ins
  /\ Range(m.ins) \subseteq Made(g, i - 1) \cup {new}

LEMMA Rewired ==
  ASSUME NEW g, InOrder(g), NEW i \in DOMAIN g.nodes, NEW m, NEW new, NEW h, Rewires(g, i, m, new, h)
  PROVE  /\ InOrder(h)
         /\ DOMAIN h.nodes = DOMAIN g.nodes /\ h.nodes[i] = m
         /\ \A j \in DOMAIN g.nodes : j # i => h.nodes[j] = g.nodes[j]
<1> DEFINE L == Len(g.nodes)
           X == <<"x">>
           s == [g.nodes EXCEPT ![i] = m]
<1>1. /\ DOMAIN g = {"shape", "inits", "outputs", "nodes"} /\ g.nodes \in Seq(Range(g.nodes))
      /\ X \notin DOMAIN g.inits
      /\ g.outputs \subseteq Made(g, L) \ DOMAIN g.inits
  BY Zenon DEF InOrder
<1>2. L \in Nat /\ DOMAIN g.nodes = 1..L
  BY <1>1, ElementOfSeq, SMT
<1>3. DOMAIN s = 1..L /\ s[i] = m /\ \A j \in 1..L : j # i => s[j] = g.nodes[j]
  BY <1>2, Zenon
<1>4. s = [j \in 1..L |-> s[j]]
  <2>1. s = [j \in DOMAIN g.nodes |-> IF j = i THEN m ELSE g.nodes[j]]
    BY Zenon
  <2>2. QED
    BY <1>2, <2>1, Zenon
<1>5. h.nodes = s
  BY Zenon DEF Rewires
<1> HIDE DEF s
<1>6. s \in Seq(Range(s)) /\ Len(s) = L
  <2>1. \A j \in 1..L : s[j] \in Range(s)
    BY <1>3, Zenon DEF Range
  <2> DEFINE T == Range(s)
  <2> HIDE DEF T
  <2>2. s \in [1..L -> T]
    BY <1>4, <2>1, Zenon DEF T
  <2> HIDE DEF L
  <2>3. s \in Seq(T)
    BY <1>2, <2>2, SeqDef, Zenon
  <2>4. Len(s) = L
    BY <1>2, <1>3, <2>3, SMT
  <2>5. QED
    BY <2>3, <2>4, Zenon DEF T
<1>7. \A j \in 1..L : s[j].out = g.nodes[j].out
  BY <1>3, Zenon DEF Rewires
<1>8. \A k \in 0..L : Made(h, k) = Made(g, k) \cup {new}
  <2> TAKE k \in 0..L
  <2> DEFINE Outs == {g.nodes[j].out : j \in 1..k}
             outOf(j) == g.nodes[j].out
             outNow(j) == h.nodes[j].out
  <2>1. \A j \in 1..k : j \in 1..L
    BY <1>2
  <2>2. \A j \in 1..k : outNow(j) = outOf(j)
    BY <1>5, <1>7, <2>1, Zenon
  <2>3. Made(g, k) = {X} \cup DOMAIN g.inits \cup {outOf(j) : j \in 1..k}
    BY Zenon DEF Made
  <2>4. Made(h, k) = {X} \cup (DOMAIN g.inits \cup {new}) \cup {outNow(j) : j \in 1..k}
    BY Zenon DEF Made, Rewires
  <2> HIDE DEF outOf, outNow, X
  <2>5. {outNow(j) : j \in 1..k} = {outOf(j) : j \in 1..k}
    BY <2>2
  <2> DEFINE Q == {outOf(j) : j \in 1..k}
  <2> HIDE DEF Q
  <2>6. Made(h, k) = {X} \cup (DOMAIN g.inits \cup {new}) \cup Q /\ Made(g, k) = {X} \cup DOMAIN g.inits \cup Q
    BY <2>3, <2>4, <2>5, Zenon DEF Q
  <2>7. QED
    BY <2>6, SMT
<1>9. ASSUME NEW j \in DOMAIN h.nodes
      PROVE  LET n == h.nodes[j] IN
             /\ n.op \in Ops /\ {"op", "ins", "out"} \subseteq DOMAIN n
             /\ 1..(IF n.op \in Layers THEN 2 ELSE 1) \subseteq DOMAIN n.ins
             /\ Range(n.ins) \subseteq Made(h, j - 1) /\ n.out \notin Made(h, j - 1)
  <2> DEFINE n == h.nodes[j]
             q == g.nodes[j]
  <2>1. j \in 1..L /\ j - 1 \in 0..L
    <3>1. j \in 1..L
      BY <1>3, <1>5, Zenon
    <3>2. QED
      BY <1>2, <3>1
  <2>2. /\ q.op \in Ops /\ {"op", "ins", "out"} \subseteq DOMAIN q
        /\ 1..(IF q.op \in Layers THEN 2 ELSE 1) \subseteq DOMAIN q.ins
        /\ Range(q.ins) \subseteq Made(g, j - 1) /\ q.out \notin Made(g, j - 1)
    BY <1>2, <2>1, Zenon DEF InOrder
  <2>3. q.out # new
    BY <1>2, <2>1, Zenon DEF Rewires
  <2>4. Made(h, j - 1) = Made(g, j - 1) \cup {new}
    BY <1>8, <2>1, Zenon
  <2>5. CASE j = i
    <3>1. /\ n.op = q.op /\ n.out = q.out /\ {"op", "ins", "out"} \subseteq DOMAIN n
          /\ DOMAIN n.ins = DOMAIN q.ins /\ Range(n.ins) \subseteq Made(g, j - 1) \cup {new}
      BY <1>3, <1>5, <2>5, Zenon DEF Rewires
    <3> HIDE DEF n, q
    <3>2. QED
      BY <2>2, <2>3, <2>4, <3>1, Zenon DEF n
  <2>6. CASE j # i
    <3>1. n = q
      BY <1>3, <1>5, <2>1, <2>6, Zenon
    <3> HIDE DEF n, q
    <3>2. QED
      BY <2>2, <2>3, <2>4, <3>1, Zenon DEF n
  <2>7. QED
    BY <2>5, <2>6, Zenon
<1>10. InOrder(h)
  <2>1. X \notin DOMAIN h.inits /\ DOMAIN h = {"shape", "inits", "outputs", "nodes"}
        /\ h.outputs = g.outputs /\ DOMAIN h.inits = DOMAIN g.inits \cup {new} /\ new \notin g.outputs
    BY <1>1, Zenon DEF Rewires
  <2>2. L \in 0..L
    BY <1>2
  <2>3. h.outputs \subseteq Made(h, L) \ DOMAIN h.inits
    BY <1>1, <1>8, <2>1, <2>2, Zenon
  <2>4. QED
    BY <1>5, <1>6, <1>9, <2>1, <2>3, Zenon DEF InOrder
<1>11. QED
  BY <1>2, <1>3, <1>5, <1>10, Zenon

-------------------------------------------------------------------------------
(* transpose_fold: the two folds.                                           *)

\* A node that reads nothing of what has changed.
LEMMA OthersSolve ==
  ASSUME NEW g, InOrder(g), NEW j \in DOMAIN g.nodes, NEW e, NEW Gone,
         AgreeOn(Made(g, Len(g.nodes)) \ Gone, e, Env(g)),
         Range(g.nodes[j].ins) \cap Gone = {}, g.nodes[j].out \notin Gone
  PROVE  e[g.nodes[j].out] = Value(g.nodes[j], e)
<1> DEFINE L == Len(g.nodes)
           n == g.nodes[j]
           E == Env(g)
<1>1. L \in Nat /\ DOMAIN g.nodes = 1..L /\ g.nodes \in Seq(Range(g.nodes))
  BY ElementOfSeq, SMT DEF InOrder
<1>2. Made(g, j - 1) \subseteq Made(g, L) /\ n.out \in Made(g, L)
  <2>1. \A k \in 1..j - 1 : k \in 1..L
    BY <1>1
  <2>2. j \in 1..L
    BY <1>1
  <2> HIDE DEF L
  <2>3. QED
    BY <2>1, <2>2, Zenon DEF Made
<1>3. Range(n.ins) \subseteq Made(g, j - 1)
  BY Zenon DEF InOrder
<1>4. E[n.out] = Value(n, E)
  BY Solved, Zenon DEF Solves
<1>5. e[n.out] = E[n.out]
  BY <1>2, Zenon DEF AgreeOn
<1>6. AgreeOn(Range(n.ins), e, E)
  BY <1>2, <1>3, Zenon DEF AgreeOn
<1>7. Value(n, e) = Value(n, E)
  <2> HIDE DEF E
  <2>1. QED
    BY <1>6, NodeReads
<1>8. QED
  BY <1>4, <1>5, <1>7, Zenon

LEMMA OneProducer ==
  ASSUME NEW g, InOrder(g), NEW y, NEW p \in Producers(g, y), NEW q \in Producers(g, y)
  PROVE  p = q
<1>1. Len(g.nodes) \in Nat /\ DOMAIN g.nodes = 1..Len(g.nodes)
  BY ElementOfSeq, SMT DEF InOrder
<1>2. /\ p \in 1..Len(g.nodes) /\ q \in 1..Len(g.nodes) /\ p \in DOMAIN g.nodes /\ q \in DOMAIN g.nodes
      /\ g.nodes[p].out = y /\ g.nodes[q].out = y
  BY <1>1, Zenon DEF Producers
<1>3. ASSUME NEW a \in DOMAIN g.nodes, NEW b \in DOMAIN g.nodes, a \in 1..b - 1,
             g.nodes[a].out = y, g.nodes[b].out = y
      PROVE  FALSE
  <2>1. g.nodes[b].out \notin Made(g, b - 1)
    BY Zenon DEF InOrder
  <2>2. y \in Made(g, b - 1)
    BY <1>3, Zenon DEF Made
  <2>3. QED
    BY <1>3, <2>1, <2>2, Zenon
<1>4. p \in 1..q - 1 \/ q \in 1..p - 1 \/ p = q
  BY <1>1, <1>2
<1>5. QED
  BY <1>2, <1>3, <1>4, Zenon

LEMMA SetInputOf ==
  ASSUME NEW n, {"op", "ins", "out"} \subseteq DOMAIN n, NEW old, NEW new, NEW m, m = SetInput(n, old, new)
  PROVE  /\ m.op = n.op /\ m.out = n.out /\ DOMAIN m = DOMAIN n
         /\ DOMAIN m.ins = DOMAIN n.ins
         /\ \A a \in DOMAIN n.ins : m.ins[a] = IF n.ins[a] = old THEN new ELSE n.ins[a]
         /\ "transB" \in DOMAIN n => m.transB = n.transB
<1> DEFINE f == [a \in DOMAIN n.ins |-> IF n.ins[a] = old THEN new ELSE n.ins[a]]
<1>1. DOMAIN f = DOMAIN n.ins /\ \A a \in DOMAIN n.ins : f[a] = IF n.ins[a] = old THEN new ELSE n.ins[a]
  BY Zenon
<1>2. m = [n EXCEPT !.ins = f]
  BY Zenon DEF SetInput
<1> HIDE DEF f
<1>3. m.op = n.op /\ m.out = n.out /\ m.ins = f /\ DOMAIN m = DOMAIN n
      /\ ("transB" \in DOMAIN n => m.transB = n.transB)
  BY <1>2
<1>4. QED
  BY <1>1, <1>3, Zenon

LEMMA LayerValue ==
  ASSUME NEW n, NEW e, n.op \in {"MatMul", "Gemm"}
  PROVE  Value(n, e) = Product(e[n.ins[1]], e[n.ins[2]], WeightAxis(n))
<1> DEFINE a == e[n.ins[1]]
<1>1. Value(n, e) = ValueFrom(a, n, e)
  BY Zenon DEF Value, Once
<1> HIDE DEF a
<1>2. ValueFrom(a, n, e) = Product(a, e[n.ins[2]], WeightAxis(n))
  BY DEF ValueFrom
<1>3. QED
  BY <1>1, <1>2, Zenon DEF a

LEMMA MoveValue ==
  ASSUME NEW n, NEW e
  PROVE  /\ n.op = "Transpose" => Value(n, e) = Transposed(e[n.ins[1]], n.perm)
         /\ n.op = "Reshape" => Value(n, e) = Flat(e[n.ins[1]])
<1> DEFINE a == e[n.ins[1]]
<1>1. Value(n, e) = ValueFrom(a, n, e)
  BY Zenon DEF Value, Once
<1> HIDE DEF a
<1>2. n.op = "Transpose" => ValueFrom(a, n, e) = Transposed(a, n.perm)
  BY DEF ValueFrom
<1>3. n.op = "Reshape" => ValueFrom(a, n, e) = Flat(a)
  BY DEF ValueFrom
<1>4. QED
  BY <1>1, <1>2, <1>3, Zenon DEF a

\* The Transpose goes, or stays for others.
LEMMA Tidied ==
  ASSUME NEW g, InOrder(g), NEW t \in DOMAIN g.nodes
  PROVE  LET h == RemoveIfUnused(g, t) IN
         /\ InOrder(h) /\ h.outputs = g.outputs
         /\ \A e : Solves(g, e) => Solves(h, e)
<1>1. CASE Unneeded(g, t)
  <2>1. RemoveIfUnused(g, t) = Without(g, t)
    BY <1>1, Zenon DEF RemoveIfUnused, Unneeded, Without
  <2>2. /\ InOrder(Without(g, t)) /\ Without(g, t).outputs = g.outputs
        /\ \A e : Solves(g, e) => Solves(Without(g, t), e)
    BY <1>1, WithoutNode
  <2>3. QED
    BY <2>1, <2>2, Zenon
<1>2. CASE ~Unneeded(g, t)
  <2>1. RemoveIfUnused(g, t) = g
    BY <1>2, Zenon DEF RemoveIfUnused, Unneeded
  <2>2. QED
    BY <2>1, Zenon
<1>3. QED
  BY <1>1, <1>2, Zenon

\* What is known in a graph.
LEMMA Known ==
  ASSUME NEW g, InOrder(g)
  PROVE  /\ Len(g.nodes) \in Nat /\ DOMAIN g.nodes = 1..Len(g.nodes)
         /\ DOMAIN Env(g) = Made(g, Len(g.nodes))
         /\ \A j \in DOMAIN g.nodes : /\ g.nodes[j].out \in Made(g, Len(g.nodes)) \ DOMAIN g.inits
                                      /\ g.nodes[j].out # <<"x">>
                                      /\ Made(g, j - 1) \subseteq Made(g, Len(g.nodes))
<1> DEFINE L == Len(g.nodes)
<1>1. L \in Nat /\ DOMAIN g.nodes = 1..L /\ L \in 0..L
  BY ElementOfSeq, SMT DEF InOrder
<1>2. DOMAIN Env(g) = Made(g, L)
  BY <1>1, EnvFacts, EnvNames, Zenon
<1>3. ASSUME NEW j \in DOMAIN g.nodes
      PROVE  /\ g.nodes[j].out \in Made(g, L) \ DOMAIN g.inits /\ g.nodes[j].out # <<"x">>
             /\ Made(g, j - 1) \subseteq Made(g, L)
  <2>1. j \in 1..L /\ \A k \in 1..j - 1 : k \in 1..L
    BY <1>1
  <2> HIDE DEF L
  <2>2. g.nodes[j].out \in Made(g, L) /\ Made(g, j - 1) \subseteq Made(g, L)
    BY <2>1, Zenon DEF Made
  <2>3. g.nodes[j].out \notin Made(g, j - 1)
    BY Zenon DEF InOrder
  <2>4. DOMAIN g.inits \subseteq Made(g, j - 1) /\ <<"x">> \in Made(g, j - 1)
    BY Zenon DEF Made
  <2>5. QED
    BY <2>2, <2>3, <2>4, Zenon
<1>4. QED
  BY <1>1, <1>2, <1>3, Zenon

\* No node is new.
NodesFrom(g, h) == \A j \in DOMAIN h.nodes : \E k \in DOMAIN g.nodes : h.nodes[j] = g.nodes[k]

LEMMA TidiedNodes ==
  ASSUME NEW g, InOrder(g), NEW t \in DOMAIN g.nodes
  PROVE  NodesFrom(g, RemoveIfUnused(g, t))
<1>1. CASE Unneeded(g, t)
  <2> DEFINE r == RemoveAt(g.nodes, t)
             h == Without(g, t)
  <2>1. RemoveIfUnused(g, t) = h
    BY <1>1, Zenon DEF RemoveIfUnused, Unneeded, Without
  <2>2. h.nodes = r
    <3>1. DOMAIN g = {"shape", "inits", "outputs", "nodes"} /\ h = [g EXCEPT !.nodes = r]
      BY Zenon DEF InOrder, Without
    <3> HIDE DEF r, h
    <3>2. QED
      BY <3>1
  <2>3. /\ DOMAIN g.nodes = 1..Len(g.nodes) /\ Len(g.nodes) \in Nat \ {0} /\ DOMAIN r = 1..Len(g.nodes) - 1
        /\ \A j \in 1..Len(g.nodes) - 1 : r[j] = g.nodes[IF j < t THEN j ELSE j + 1]
    <3>1. g.nodes \in Seq(Range(g.nodes))
      BY Zenon DEF InOrder
    <3>2. DOMAIN g.nodes = 1..Len(g.nodes)
      BY <3>1, ElementOfSeq, SMT
    <3>3. QED
      BY <3>1, <3>2, RemovedAt, Zenon
  <2>4. \A j \in 1..Len(g.nodes) - 1 : (IF j < t THEN j ELSE j + 1) \in 1..Len(g.nodes)
    BY <2>3
  <2>5. QED
    BY <2>1, <2>2, <2>3, <2>4, Zenon DEF NodesFrom
<1>2. CASE ~Unneeded(g, t)
  <2>1. RemoveIfUnused(g, t) = g
    BY <1>2, Zenon DEF RemoveIfUnused, Unneeded
  <2>2. QED
    BY <2>1, Zenon DEF NodesFrom
<1>3. QED
  BY <1>1, <1>2, Zenon

\* The pools of h are pools of g, and e has the same for them.
PoolsStay(g, h, e) ==
  \A j \in DOMAIN h.nodes : h.nodes[j].op \in PoolOps =>
    \E k \in DOMAIN g.nodes : h.nodes[j] = g.nodes[k] /\ e[h.nodes[j].ins[1]] = Env(g)[h.nodes[j].ins[1]]

\* h is a rewriting of g by which no output changes and no pool.
Rewrites(g, h, e) ==
  /\ InOrder(h) /\ h.outputs = g.outputs /\ Solves(h, e)
  /\ \A o \in g.outputs : e[o] = Env(g)[o]
  /\ PoolsStay(g, h, e)

\* mid is g but for node i, which is no pool.
AllBut(g, i, mid) ==
  /\ DOMAIN mid.nodes = DOMAIN g.nodes /\ mid.nodes[i].op \notin PoolOps
  /\ \A j \in DOMAIN g.nodes : j # i => mid.nodes[j] = g.nodes[j]

LEMMA FirstInput ==
  ASSUME NEW g, InOrder(g), NEW j \in DOMAIN g.nodes
  PROVE  /\ g.nodes[j].ins[1] \in Range(g.nodes[j].ins)
         /\ Range(g.nodes[j].ins) \subseteq Made(g, Len(g.nodes))
<1>1. 1 \in 1..(IF g.nodes[j].op \in Layers THEN 2 ELSE 1)
  OBVIOUS
<1>2. 1 \in DOMAIN g.nodes[j].ins /\ Range(g.nodes[j].ins) \subseteq Made(g, j - 1)
  BY <1>1, Zenon DEF InOrder
<1>3. Made(g, j - 1) \subseteq Made(g, Len(g.nodes))
  BY Known, Zenon
<1>4. QED
  BY <1>2, <1>3, Zenon DEF Range

LEMMA PoolsStayIn ==
  ASSUME NEW g, InOrder(g), NEW i, NEW mid, AllBut(g, i, mid), NEW h, NodesFrom(mid, h),
         NEW e, NEW Gone, AgreeOn(Made(g, Len(g.nodes)) \ Gone, e, Env(g)),
         \A j \in DOMAIN g.nodes : g.nodes[j].op \in PoolOps => Range(g.nodes[j].ins) \cap Gone = {}
  PROVE  PoolsStay(g, h, e)
<1>1. SUFFICES ASSUME NEW j \in DOMAIN h.nodes, h.nodes[j].op \in PoolOps
      PROVE  \E k \in DOMAIN g.nodes : /\ h.nodes[j] = g.nodes[k]
                                       /\ e[h.nodes[j].ins[1]] = Env(g)[h.nodes[j].ins[1]]
  BY Zenon DEF PoolsStay
<1>2. PICK k \in DOMAIN mid.nodes : h.nodes[j] = mid.nodes[k]
  BY Zenon DEF NodesFrom
<1>3. k # i /\ k \in DOMAIN g.nodes /\ h.nodes[j] = g.nodes[k]
  BY <1>1, <1>2, Zenon DEF AllBut
<1>4. g.nodes[k].ins[1] \in Made(g, Len(g.nodes)) \ Gone
  BY <1>1, <1>3, FirstInput, Zenon
<1>5. QED
  BY <1>3, <1>4, Zenon DEF AgreeOn

\* If the accelerator takes all pools of g, it takes those of h.
LEMMA NoneOversized ==
  ASSUME NEW g, NEW h, PoolsStay(g, h, Env(h)), Oversized(g) = {}
  PROVE  Oversized(h) = {}
<1>1. SUFFICES ASSUME NEW j \in Oversized(h) PROVE FALSE
  BY Zenon
<1>2. j \in DOMAIN h.nodes /\ h.nodes[j].op \in PoolOps
  BY Zenon DEF Oversized
<1>3. PICK k \in DOMAIN g.nodes : /\ h.nodes[j] = g.nodes[k]
                                  /\ Env(h)[h.nodes[j].ins[1]] = Env(g)[h.nodes[j].ins[1]]
  BY <1>2, Zenon DEF PoolsStay
<1>4. Kernel(g, k) = Kernel(h, j)
  BY <1>3, Zenon DEF Kernel
<1>5. Stride(g, k) = Stride(h, j)
  BY <1>3, <1>4, Zenon DEF Stride
<1>6. k \in Oversized(g)
  BY <1>2, <1>3, <1>4, <1>5, Zenon DEF Oversized
<1>7. QED
  BY <1>6, Zenon

LEMMA RewritesKeep ==
  ASSUME NEW g, InOrder(g), NEW h, NEW e, Rewrites(g, h, e)
  PROVE  /\ Meaning(h) = Meaning(g)
         /\ Oversized(g) = {} => Oversized(h) = {}
<1>1. InOrder(h) /\ h.outputs = g.outputs /\ Solves(h, e) /\ \A o \in g.outputs : e[o] = Env(g)[o]
  BY Zenon DEF Rewrites
<1>2. Meaning(h) = Meaning(g)
  BY <1>1, SameMeaning
<1>3. AgreeOn(Made(h, Len(h.nodes)), Env(h), e)
  BY <1>1, Determined, Zenon
<1>4. PoolsStay(g, h, Env(h))
  <2>1. ASSUME NEW j \in DOMAIN h.nodes PROVE Env(h)[h.nodes[j].ins[1]] = e[h.nodes[j].ins[1]]
    <3>1. h.nodes[j].ins[1] \in Made(h, Len(h.nodes))
      BY <1>1, FirstInput, Zenon
    <3>2. QED
      BY <1>3, <3>1, Zenon DEF AgreeOn
  <2>2. SUFFICES ASSUME NEW j \in DOMAIN h.nodes, h.nodes[j].op \in PoolOps
        PROVE  \E k \in DOMAIN g.nodes : /\ h.nodes[j] = g.nodes[k]
                                         /\ Env(h)[h.nodes[j].ins[1]] = Env(g)[h.nodes[j].ins[1]]
    BY Zenon DEF PoolsStay
  <2>3. PICK k \in DOMAIN g.nodes : h.nodes[j] = g.nodes[k] /\ e[h.nodes[j].ins[1]] = Env(g)[h.nodes[j].ins[1]]
    BY <2>2, Zenon DEF Rewrites, PoolsStay
  <2>4. Env(h)[h.nodes[j].ins[1]] = e[h.nodes[j].ins[1]]
    BY <2>1, Zenon
  <2>5. QED
    BY <2>3, <2>4, Zenon
<1>5. QED
  BY <1>2, <1>4, NoneOversized, Zenon

\* A layer whose weight is a turned constant reads the constant, turned.
LEMMA OneWeightFold ==
  ASSUME NEW g, InOrder(g), FoldsFit(g), NEW i \in FcNodes(g), WeightFoldable(g, i)
  PROVE  \E e : Rewrites(g, FoldWeight(g, i), e)
<1> DEFINE L == Len(g.nodes)
           E == Env(g)
           n == g.nodes[i]
           w == n.ins[2]
           t == CHOOSE t \in Producers(g, w) : TRUE
           perm == g.nodes[t].perm
           src == g.nodes[t].ins[1]
           new == Append(src, "T")
           T == Transposed(g.inits[src], perm)
           m == SetInput(n, w, new)
           mid == [g EXCEPT !.inits = With(@, new, T), !.nodes[i] = SetInput(@, w, new)]
           e == With(E, new, T)
<1>1. FoldWeight(g, i) = PruneInit(RemoveIfUnused(mid, t), src)
  BY Zenon DEF FoldWeight
<1>2. /\ i \in DOMAIN g.nodes /\ n.op \in {"MatMul", "Gemm"} /\ n.op \in Layers
      /\ {"op", "ins", "out"} \subseteq DOMAIN n /\ 1 \in DOMAIN n.ins /\ 2 \in DOMAIN n.ins
      /\ Range(n.ins) \subseteq Made(g, i - 1)
      /\ n.op = "Gemm" => "transB" \in DOMAIN n
  <2>1. i \in DOMAIN g.nodes /\ n.op \in {"MatMul", "Gemm"}
    BY Zenon DEF FcNodes
  <2>2. n.op \in Layers
    BY <2>1, Zenon DEF Layers
  <2>3. /\ {"op", "ins", "out"} \subseteq DOMAIN n /\ 1..2 \subseteq DOMAIN n.ins
        /\ Range(n.ins) \subseteq Made(g, i - 1)
    BY <2>1, <2>2, Zenon DEF InOrder
  <2>4. 1 \in 1..2 /\ 2 \in 1..2
    OBVIOUS
  <2>5. n.op = "Gemm" => "transB" \in DOMAIN n
    BY Zenon DEF FoldsFit
  <2>6. QED
    BY <2>1, <2>2, <2>3, <2>4, <2>5, Zenon
<1>3. /\ t \in Producers(g, w) /\ t \in DOMAIN g.nodes /\ g.nodes[t].out = w
      /\ g.nodes[t].op = "Transpose" /\ src \in DOMAIN g.inits
  <2>1. PICK q \in Producers(g, w) : g.nodes[q].op = "Transpose" /\ IsInit(g, g.nodes[q].ins[1])
    BY Zenon DEF WeightFoldable
  <2>2. t \in Producers(g, w)
    BY <2>1, Zenon
  <2> HIDE DEF t, w
  <2>3. t = q
    BY <2>1, <2>2, OneProducer, Zenon
  <2>4. QED
    BY <2>1, <2>2, <2>3, Zenon DEF Producers, IsInit
<1>4. new \in Made(g, L) => new \in DOMAIN g.inits /\ g.inits[new] = T
  BY <1>3, Zenon DEF FoldsFit, IsInit
<1>5. /\ L \in Nat /\ DOMAIN g.nodes = 1..L /\ DOMAIN E = Made(g, L)
      /\ \A j \in DOMAIN g.nodes : /\ g.nodes[j].out \in Made(g, L) \ DOMAIN g.inits
                                   /\ g.nodes[j].out # <<"x">> /\ Made(g, j - 1) \subseteq Made(g, L)
      /\ g.outputs \subseteq Made(g, L) \ DOMAIN g.inits /\ <<"x">> \notin DOMAIN g.inits
      /\ <<"x">> \in Made(g, L) /\ DOMAIN g.inits \subseteq Made(g, L)
      /\ DOMAIN g = {"shape", "inits", "outputs", "nodes"}
  <2>1. /\ g.outputs \subseteq Made(g, L) \ DOMAIN g.inits /\ <<"x">> \notin DOMAIN g.inits
        /\ DOMAIN g = {"shape", "inits", "outputs", "nodes"}
    BY Zenon DEF InOrder
  <2>2. <<"x">> \in Made(g, L) /\ DOMAIN g.inits \subseteq Made(g, L)
    BY Zenon DEF Made
  <2>3. QED
    BY <2>1, <2>2, Known, Zenon
<1>6. /\ m.op = n.op /\ m.out = n.out /\ DOMAIN m = DOMAIN n
      /\ DOMAIN m.ins = DOMAIN n.ins
      /\ \A a \in DOMAIN n.ins : m.ins[a] = IF n.ins[a] = w THEN new ELSE n.ins[a]
      /\ "transB" \in DOMAIN n => m.transB = n.transB
  <2> HIDE DEF m, new, w
  <2>1. m = SetInput(n, w, new)
    BY Zenon DEF m
  <2>2. QED
    BY <1>2, <2>1, SetInputOf
<1>7. /\ DOMAIN mid = DOMAIN g /\ mid.shape = g.shape /\ mid.outputs = g.outputs
      /\ mid.nodes = [g.nodes EXCEPT ![i] = m] /\ mid.inits = With(g.inits, new, T)
  <2> HIDE DEF new, T, w
  <2>1. QED
    BY <1>5
<1> HIDE DEF m, mid, new, T, perm, L, E
<1>8. /\ DOMAIN mid.inits = DOMAIN g.inits \cup {new} /\ mid.inits[new] = T
      /\ \A c \in DOMAIN g.inits : c # new => mid.inits[c] = g.inits[c]
  BY <1>7, Zenon DEF With
<1>9. Rewires(g, i, m, new, mid)
  <2>1. new \notin g.outputs /\ new # <<"x">> /\ \A j \in DOMAIN g.nodes : g.nodes[j].out # new
    BY <1>4, <1>5, Zenon
  <2>2. Range(m.ins) \subseteq Made(g, i - 1) \cup {new}
    <3>1. \A a \in DOMAIN n.ins : n.ins[a] \in Made(g, i - 1)
      BY <1>2, Zenon DEF Range
    <3>2. \A a \in DOMAIN m.ins : m.ins[a] \in Made(g, i - 1) \cup {new}
      BY <1>6, <3>1, Zenon
    <3>3. QED
      BY <3>2, Zenon DEF Range
  <2>3. QED
    BY <1>2, <1>6, <1>7, <1>8, <2>1, <2>2, Zenon DEF Rewires
<1>10. /\ InOrder(mid) /\ DOMAIN mid.nodes = DOMAIN g.nodes /\ mid.nodes[i] = m
       /\ \A j \in DOMAIN g.nodes : j # i => mid.nodes[j] = g.nodes[j]
  BY <1>2, <1>9, Rewired
<1>11. Solves(g, E)
  BY Solved, Zenon DEF E
<1>12. e[new] = T /\ \A y \in Made(g, L) : e[y] = E[y]
  <2>1. e[new] = T /\ \A y \in DOMAIN E : y # new => e[y] = E[y]
    BY Zenon DEF With, e
  <2>2. new \in Made(g, L) => E[new] = T
    BY <1>4, <1>11, Zenon DEF Solves
  <2>3. QED
    BY <1>5, <2>1, <2>2, Zenon
<1> HIDE DEF e
<1>13. e[m.out] = Value(m, e)
  <2>1. E[n.out] = Value(n, E) /\ E[w] = Value(g.nodes[t], E)
    BY <1>2, <1>3, <1>11, Zenon DEF Solves
  <2>2. E[w] = T
    <3>1. Value(g.nodes[t], E) = Transposed(E[src], perm)
      BY <1>3, MoveValue, Zenon DEF perm
    <3>2. E[src] = g.inits[src]
      BY <1>3, <1>11, Zenon DEF Solves
    <3>3. QED
      BY <2>1, <3>1, <3>2, Zenon DEF T
  <2>3. m.ins[2] = new
    BY <1>2, <1>6, Zenon
  <2>4. e[m.ins[1]] = E[n.ins[1]]
    <3>1. n.ins[1] \in Made(g, L)
      BY <1>2, <1>5, Zenon DEF Range
    <3>2. CASE n.ins[1] = w
      BY <1>2, <1>6, <1>12, <2>2, <3>2, Zenon
    <3>3. CASE n.ins[1] # w
      BY <1>2, <1>6, <1>12, <3>1, <3>3, Zenon
    <3>4. QED
      BY <3>2, <3>3, Zenon
  <2>5. WeightAxis(m) = WeightAxis(n)
    <3> HIDE DEF n
    <3>1. QED
      BY <1>2, <1>6, Zenon DEF WeightAxis
  <2>6. Value(m, e) = Product(e[m.ins[1]], e[m.ins[2]], WeightAxis(m))
    BY <1>2, <1>6, LayerValue
  <2>7. Value(n, E) = Product(E[n.ins[1]], E[w], WeightAxis(n))
    BY <1>2, LayerValue
  <2>8. e[m.out] = E[n.out]
    BY <1>2, <1>5, <1>6, <1>12, Zenon
  <2>9. QED
    BY <1>12, <2>1, <2>2, <2>3, <2>4, <2>5, <2>6, <2>7, <2>8, Zenon
<1>14. Solves(mid, e)
  <2>1. e[<<"x">>] = Input(mid.shape)
    BY <1>5, <1>7, <1>11, <1>12, Zenon DEF Solves
  <2>2. \A c \in DOMAIN mid.inits : e[c] = mid.inits[c]
    BY <1>5, <1>8, <1>11, <1>12, Zenon DEF Solves
  <2>3. ASSUME NEW j \in DOMAIN g.nodes PROVE e[g.nodes[j].out] = Value(g.nodes[j], e)
    <3>1. AgreeOn(Made(g, Len(g.nodes)) \ {}, e, Env(g))
      BY <1>12, Zenon DEF AgreeOn, L, E
    <3>2. Range(g.nodes[j].ins) \cap {} = {} /\ g.nodes[j].out \notin {}
      OBVIOUS
    <3>3. QED
      BY <3>1, <3>2, OthersSolve
  <2>4. \A j \in DOMAIN mid.nodes : e[mid.nodes[j].out] = Value(mid.nodes[j], e)
    BY <1>10, <1>13, <2>3, Zenon
  <2>5. QED
    BY <2>1, <2>2, <2>4, Zenon DEF Solves
<1> DEFINE mid2 == RemoveIfUnused(mid, t)
           h == PruneInit(mid2, src)
<1>15. InOrder(mid2) /\ mid2.outputs = g.outputs /\ Solves(mid2, e)
  <2>1. t \in DOMAIN mid.nodes
    BY <1>3, <1>10, Zenon
  <2>2. QED
    BY <1>7, <1>10, <1>14, <2>1, Tidied, Zenon
<1> HIDE DEF mid2
<1>16. InOrder(h) /\ h.outputs = g.outputs /\ Solves(h, e)
  BY <1>15, WithoutInit, Zenon
<1>17. \A o \in g.outputs : e[o] = Env(g)[o]
  BY <1>5, <1>12, Zenon DEF E
<1> HIDE DEF h
<1>18. PoolsStay(g, h, e)
  <2>1. AllBut(g, i, mid)
    <3>1. m.op \notin PoolOps
      BY <1>2, <1>6, SMT DEF PoolOps
    <3>2. QED
      BY <1>10, <3>1, Zenon DEF AllBut
  <2>2. NodesFrom(mid, h)
    <3>1. NodesFrom(mid, mid2)
      <4>1. t \in DOMAIN mid.nodes
        BY <1>3, <1>10, Zenon
      <4>2. QED
        BY <1>10, <4>1, TidiedNodes, Zenon DEF mid2
    <3>2. h.nodes = mid2.nodes
      <4>1. HasFields(mid2)
        BY <1>15, Zenon DEF HasFields, InOrder
      <4>2. QED
        BY <4>1, Pruned, Zenon DEF h
    <3>3. QED
      BY <3>1, <3>2, Zenon DEF NodesFrom
  <2>3. AgreeOn(Made(g, Len(g.nodes)) \ {}, e, Env(g))
    BY <1>12, Zenon DEF AgreeOn, L, E
  <2>4. \A j \in DOMAIN g.nodes : g.nodes[j].op \in PoolOps => Range(g.nodes[j].ins) \cap {} = {}
    OBVIOUS
  <2>5. QED
    BY <2>1, <2>2, <2>3, <2>4, PoolsStayIn, Zenon
<1>19. Rewrites(g, h, e)
  BY <1>16, <1>17, <1>18, Zenon DEF Rewrites
<1>20. QED
  BY <1>1, <1>19, Zenon DEF h, mid2

\* The weight of a layer that a Transpose is folded into, as a weight.
LEMMA FoldedWeight ==
  ASSUME NEW s, s \in Seq(Extents), Len(s) = 2, NEW axis \in 1..2, NEW v, s[axis] = v
  PROVE  \E c \in Extents : s = WeightShape(axis, v, c)
<1>1. s[1] \in Extents /\ s[2] \in Extents /\ s = <<s[1], s[2]>>
  <2>1. s = [k \in 1..2 |-> s[k]] /\ \A k \in 1..2 : s[k] \in Extents
    BY ElementOfSeq
  <2>2. QED
    BY <2>1
<1>2. CASE axis = 1
  BY <1>1, <1>2, Zenon DEF WeightShape
<1>3. CASE axis = 2
  <2>1. s = WeightShape(2, s[2], s[1])
    BY <1>1 DEF WeightShape
  <2>2. QED
    BY <1>1, <1>3, <2>1, Zenon
<1>4. QED
  BY <1>2, <1>3

\* The Reshape reads what the Transpose read, and the layer a moved weight.
LEMMA OneActivationFold ==
  ASSUME NEW g, InOrder(g), FoldsFit(g), NEW i \in FcNodes(g), Foldable(g, i)
  PROVE  \E e : Rewrites(g, FoldActivation(g, i), e)
<1> DEFINE L == Len(g.nodes)
           E == Env(g)
           n == g.nodes[i]
           a == n.ins[1]
           w == n.ins[2]
           axis == WeightAxis(n)
           r == CHOOSE r \in Producers(g, a) : TRUE
           y == g.nodes[r].ins[1]
           t == CHOOSE t \in Producers(g, y) : TRUE
           x == g.nodes[t].ins[1]
           perm == g.nodes[t].perm
           new == Permuted(g.inits[w], axis, RowPermutation(E[x].shape, perm))
           m == SetInput(g.nodes[r], g.nodes[t].out, x)
           mid == [g EXCEPT !.inits[w] = new, !.nodes[r] = SetInput(@, g.nodes[t].out, x)]
           flat == Flat(E[x])
           e == With(With(E, a, flat), w, new)
           Gone == {a, w}
<1>1. FoldActivation(g, i) = RemoveIfUnused(mid, t)
  BY Zenon DEF FoldActivation, Once
<1>2. /\ i \in DOMAIN g.nodes /\ n.op \in {"MatMul", "Gemm"} /\ n.op \in Layers
      /\ a \in Range(n.ins) /\ w \in Range(n.ins) /\ w \in DOMAIN g.inits
  <2>1. i \in DOMAIN g.nodes /\ n.op \in {"MatMul", "Gemm"}
    BY Zenon DEF FcNodes
  <2>2. n.op \in Layers
    BY <2>1, Zenon DEF Layers
  <2>3. 1..2 \subseteq DOMAIN n.ins
    BY <2>1, <2>2, Zenon DEF InOrder
  <2>4. 1 \in 1..2 /\ 2 \in 1..2
    OBVIOUS
  <2>5. w \in DOMAIN g.inits
    BY Zenon DEF Foldable, IsInit
  <2>6. QED
    BY <2>1, <2>2, <2>3, <2>4, <2>5, Zenon DEF Range
<1>3. /\ r \in Producers(g, a) /\ r \in DOMAIN g.nodes /\ g.nodes[r].out = a /\ g.nodes[r].op = "Reshape"
      /\ t \in Producers(g, y) /\ t \in DOMAIN g.nodes /\ g.nodes[t].out = y /\ g.nodes[t].op = "Transpose"
      /\ g.inits[w].shape[axis] = Prod(E[x].shape)
  <2>1. PICK q \in Producers(g, a) :
          /\ g.nodes[q].op = "Reshape"
          /\ \E p \in Producers(g, g.nodes[q].ins[1]) :
               /\ g.nodes[p].op = "Transpose"
               /\ g.inits[w].shape[axis] = Prod(E[g.nodes[p].ins[1]].shape)
    BY Zenon DEF Foldable
  <2>2. r \in Producers(g, a)
    BY <2>1, Zenon
  <2> HIDE DEF r, a, axis, w, E
  <2>3. r = q
    BY <2>1, <2>2, OneProducer, Zenon
  <2>4. PICK p \in Producers(g, y) :
               /\ g.nodes[p].op = "Transpose"
               /\ g.inits[w].shape[axis] = Prod(E[g.nodes[p].ins[1]].shape)
    BY <2>1, <2>3, Zenon
  <2>5. t \in Producers(g, y)
    BY <2>4, Zenon
  <2> HIDE DEF t, y
  <2>6. t = p
    BY <2>4, <2>5, OneProducer, Zenon
  <2>7. QED
    BY <2>1, <2>2, <2>3, <2>4, <2>5, <2>6, Zenon DEF Producers
<1>4. /\ g.inits[w].shape \in Seq(Extents) /\ Len(g.inits[w].shape) = 2
      /\ Consumers(g, w) = {i} /\ Consumers(g, a) = {i} /\ a \notin g.outputs
      /\ perm \in Bijection(1..3, 1..3) /\ E[x].shape \in [1..3 -> Extents]
      /\ n.op = "Gemm" => "transB" \in DOMAIN n
  <2>1. n.op = "Gemm" => "transB" \in DOMAIN n
    BY Zenon DEF FoldsFit
  <2>2. /\ g.inits[w].shape \in Seq(Extents) /\ Len(g.inits[w].shape) = 2
        /\ Consumers(g, w) = {i} /\ Consumers(g, a) = {i} /\ a \notin g.outputs
        /\ \A q \in Producers(g, a) : \A p \in Producers(g, g.nodes[q].ins[1]) :
             /\ g.nodes[p].perm \in Bijection(1..3, 1..3)
             /\ E[g.nodes[p].ins[1]].shape \in [1..3 -> Extents]
    <3> HIDE DEF r, t
    <3>1. QED
      BY Zenon DEF FoldsFit
  <2> HIDE DEF r, t, a, E
  <2>3. QED
    BY <1>3, <2>1, <2>2, Zenon
<1> HIDE DEF L, E, t, r, perm, new, flat
<1>5. /\ DOMAIN E = Made(g, L)
      /\ \A j \in DOMAIN g.nodes : /\ g.nodes[j].out \in Made(g, L) \ DOMAIN g.inits
                                   /\ g.nodes[j].out # <<"x">> /\ Made(g, j - 1) \subseteq Made(g, L)
      /\ g.outputs \subseteq Made(g, L) \ DOMAIN g.inits /\ <<"x">> \notin DOMAIN g.inits
      /\ <<"x">> \in Made(g, L) /\ DOMAIN g.inits \subseteq Made(g, L)
      /\ DOMAIN g = {"shape", "inits", "outputs", "nodes"}
  <2>1. /\ g.outputs \subseteq Made(g, L) \ DOMAIN g.inits /\ <<"x">> \notin DOMAIN g.inits
        /\ DOMAIN g = {"shape", "inits", "outputs", "nodes"}
    BY Zenon DEF InOrder, L
  <2>2. <<"x">> \in Made(g, L) /\ DOMAIN g.inits \subseteq Made(g, L)
    BY Zenon DEF Made
  <2>3. QED
    BY <2>1, <2>2, Known, Zenon DEF L, E
<1>6. \A j \in {r, t} : /\ {"op", "ins", "out"} \subseteq DOMAIN g.nodes[j]
                        /\ 1 \in DOMAIN g.nodes[j].ins /\ Range(g.nodes[j].ins) \subseteq Made(g, j - 1)
                        /\ g.nodes[j].ins[1] \in Range(g.nodes[j].ins) /\ j # i
  <2> TAKE j \in {r, t}
  <2>1. j \in DOMAIN g.nodes /\ g.nodes[j].op \in {"Reshape", "Transpose"}
    <3> HIDE DEF a, y
    <3>1. QED
      BY <1>3
  <2>2. g.nodes[j].op \notin Layers
    BY <2>1 DEF Layers
  <2>3. /\ {"op", "ins", "out"} \subseteq DOMAIN g.nodes[j] /\ 1..1 \subseteq DOMAIN g.nodes[j].ins
        /\ Range(g.nodes[j].ins) \subseteq Made(g, j - 1)
    BY <2>1, <2>2, Zenon DEF InOrder
  <2>4. 1 \in 1..1
    OBVIOUS
  <2>5. QED
    BY <1>2, <2>2, <2>3, <2>4, Zenon DEF Range
<1>7. /\ r # i /\ t # i
      /\ \A j \in DOMAIN g.nodes : j # i => Range(g.nodes[j].ins) \cap Gone = {}
      /\ \A j \in DOMAIN g.nodes : j # r => g.nodes[j].out \notin Gone
      /\ x \notin Gone /\ a # w
  <2>1. \A j \in DOMAIN g.nodes : j # i => a \notin Range(g.nodes[j].ins) /\ w \notin Range(g.nodes[j].ins)
    <3> HIDE DEF a, w
    <3>1. ASSUME NEW z, Consumers(g, z) = {i}, NEW j \in DOMAIN g.nodes, j # i
          PROVE  z \notin Range(g.nodes[j].ins)
      BY <3>1, Zenon DEF Consumers
    <3>2. Consumers(g, a) = {i} /\ Consumers(g, w) = {i}
      BY <1>4, Zenon
    <3>3. QED
      BY <3>1, <3>2, Zenon
  <2>2. ASSUME NEW j \in DOMAIN g.nodes, j # r PROVE g.nodes[j].out # a /\ g.nodes[j].out # w
    <3> HIDE DEF a, w
    <3>1. g.nodes[j].out = a => j \in Producers(g, a)
      BY Zenon DEF Producers
    <3>2. g.nodes[j].out = a => j = r
      BY <1>3, <3>1, OneProducer, Zenon
    <3>3. QED
      BY <1>2, <1>5, <2>2, <3>2, Zenon
  <2>3. r # i /\ t # i /\ x \in Range(g.nodes[t].ins)
    BY <1>6, Zenon
  <2>4. x # a /\ x # w
    BY <1>3, <2>1, <2>3, Zenon
  <2>5. a # w
    BY <1>2, <1>3, <1>5, Zenon
  <2> HIDE DEF a, w, x
  <2>6. QED
    BY <2>1, <2>2, <2>3, <2>4, <2>5, Zenon
<1>8. /\ m.op = "Reshape" /\ m.out = a /\ DOMAIN m = DOMAIN g.nodes[r]
      /\ DOMAIN m.ins = DOMAIN g.nodes[r].ins
      /\ \A b \in DOMAIN m.ins : m.ins[b] = IF g.nodes[r].ins[b] = y THEN x ELSE g.nodes[r].ins[b]
  <2> DEFINE o == g.nodes[t].out
             k == g.nodes[r]
  <2>1. {"op", "ins", "out"} \subseteq DOMAIN k
    BY <1>6, Zenon
  <2> HIDE DEF m, x, o, k
  <2>2. m = SetInput(k, o, x)
    BY Zenon DEF m, o, k
  <2>3. /\ m.op = k.op /\ m.out = k.out /\ DOMAIN m = DOMAIN k
        /\ DOMAIN m.ins = DOMAIN k.ins
        /\ \A b \in DOMAIN k.ins : m.ins[b] = IF k.ins[b] = o THEN x ELSE k.ins[b]
    BY <2>1, <2>2, SetInputOf
  <2>4. o = y /\ k.op = "Reshape" /\ k.out = a
    BY <1>3, Zenon DEF o, k
  <2>5. QED
    BY <2>3, <2>4, Zenon DEF k
<1>9. /\ DOMAIN mid = DOMAIN g /\ mid.shape = g.shape /\ mid.outputs = g.outputs
      /\ mid.nodes = [g.nodes EXCEPT ![r] = m] /\ mid.inits = [g.inits EXCEPT ![w] = new]
  <2> HIDE DEF w, x
  <2>1. QED
    BY <1>5
<1> HIDE DEF m, mid
<1>10. /\ DOMAIN mid.inits = DOMAIN g.inits \cup {w} /\ mid.inits[w] = new
       /\ \A c \in DOMAIN g.inits : c # w => mid.inits[c] = g.inits[c]
  <2> HIDE DEF w
  <2>1. QED
    BY <1>2, <1>9, Zenon
<1>11. x \in Made(g, r - 1) /\ x \in Made(g, L)
  <2>1. x \in Made(g, t - 1) /\ y \in Made(g, r - 1)
    BY <1>6, Zenon
  <2>2. y \notin DOMAIN g.inits /\ y # <<"x">>
    BY <1>3, <1>5, Zenon
  <2>3. PICK q \in 1..r - 1 : g.nodes[q].out = y
    BY <2>1, <2>2, Zenon DEF Made
  <2>4. q \in 1..L /\ L \in Nat /\ DOMAIN g.nodes = 1..L /\ r \in 1..L
    <3>1. L \in Nat /\ DOMAIN g.nodes = 1..L
      BY Known, Zenon DEF L
    <3>2. r \in 1..L
      BY <1>3, <3>1, Zenon
    <3>3. QED
      BY <2>3, <3>1, <3>2
  <2>5. q = t
    <3> HIDE DEF y
    <3>1. q \in Producers(g, y)
      BY <2>3, <2>4, Zenon DEF Producers
    <3>2. QED
      BY <1>3, <3>1, OneProducer, Zenon
  <2>6. \A j \in 1..t - 1 : j \in 1..r - 1
    BY <2>3, <2>4, <2>5
  <2>7. Made(g, t - 1) \subseteq Made(g, r - 1)
    BY <2>6, Zenon DEF Made
  <2> HIDE DEF x
  <2>8. QED
    BY <1>3, <1>5, <2>1, <2>7, Zenon
<1>12. Rewires(g, r, m, w, mid)
  <2>1. w \notin g.outputs /\ w # <<"x">> /\ \A j \in DOMAIN g.nodes : g.nodes[j].out # w
    BY <1>2, <1>5, Zenon
  <2>2. Range(m.ins) \subseteq Made(g, r - 1) \cup {w}
    <3>1. \A b \in DOMAIN g.nodes[r].ins : g.nodes[r].ins[b] \in Made(g, r - 1)
      BY <1>6, Zenon DEF Range
    <3> HIDE DEF x, y
    <3>2. \A b \in DOMAIN m.ins : m.ins[b] \in Made(g, r - 1) \cup {w}
      BY <1>8, <1>11, <3>1, Zenon
    <3>3. QED
      BY <3>2, Zenon DEF Range
  <2>3. {"op", "ins", "out"} \subseteq DOMAIN m /\ m.op = g.nodes[r].op /\ m.out = g.nodes[r].out
    BY <1>3, <1>6, <1>8, Zenon
  <2> HIDE DEF w
  <2>4. QED
    BY <1>8, <1>9, <1>10, <2>1, <2>2, <2>3, Zenon DEF Rewires
<1>13. /\ InOrder(mid) /\ DOMAIN mid.nodes = DOMAIN g.nodes /\ mid.nodes[r] = m
       /\ \A j \in DOMAIN g.nodes : j # r => mid.nodes[j] = g.nodes[j]
  <2> HIDE DEF w
  <2>1. QED
    BY <1>3, <1>12, Rewired
<1>14. Solves(g, E)
  BY Solved, Zenon DEF E
<1>15. e[w] = new /\ e[a] = flat /\ \A z \in Made(g, L) \ Gone : e[z] = E[z]
  <2> HIDE DEF a, w
  <2>1. a # w
    BY <1>7, Zenon
  <2>2. QED
    BY <1>5, <2>1, Zenon DEF With
<1> HIDE DEF e
<1>16. e[x] = E[x]
  <2> HIDE DEF x
  <2>1. QED
    BY <1>7, <1>11, <1>15, Zenon
<1>17. e[m.out] = Value(m, e)
  <2>1. m.ins[1] = x
    BY <1>6, <1>8, Zenon
  <2>2. Value(m, e) = Flat(e[m.ins[1]])
    BY <1>8, MoveValue, Zenon
  <2>3. QED
    BY <1>8, <1>15, <1>16, <2>1, <2>2, Zenon DEF flat
<1>18. e[n.out] = Value(n, e)
  <2> DEFINE W == g.inits[w]
             s == E[x].shape
  <2>1. E[w] = W /\ E[n.out] = Value(n, E) /\ E[a] = Value(g.nodes[r], E) /\ E[y] = Value(g.nodes[t], E)
    BY <1>2, <1>3, <1>14, Zenon DEF Solves
  <2>2. E[a] = Flat(Transposed(E[x], perm))
    <3>1. Value(g.nodes[r], E) = Flat(E[y]) /\ Value(g.nodes[t], E) = Transposed(E[x], perm)
      BY <1>3, MoveValue, Zenon DEF perm
    <3>2. QED
      BY <2>1, <3>1, Zenon
  <2>3. Value(n, E) = Product(E[a], E[w], axis) /\ Value(n, e) = Product(e[a], e[w], axis)
    BY <1>2, LayerValue
  <2>4. e[n.out] = E[n.out]
    BY <1>2, <1>5, <1>7, <1>15, Zenon
  <2>5. axis \in 1..2
    BY DEF WeightAxis
  <2>6. s \in Shape3 /\ perm \in Orders
    BY <1>4, Zenon DEF Shape3, Orders
  <2>7. PICK c \in Extents : W.shape = WeightShape(axis, Volume(s), c)
    <3>1. Prod(s) = Volume(s)
      <4> HIDE DEF s
      <4>1. QED
        BY <2>6, RoundTrip, Zenon
    <3>2. W.shape \in Seq(Extents) /\ Len(W.shape) = 2 /\ W.shape[axis] = Volume(s)
      BY <1>3, <1>4, <3>1, Zenon
    <3> HIDE DEF W, s, axis
    <3>3. QED
      BY <2>5, <3>2, FoldedWeight
  <2>8. Product(flat, new, axis) = Product(Flat(Transposed(E[x], perm)), W, axis)
    <3> DEFINE X == E[x]
    <3>1. flat = Flat(X) /\ new = Permuted(W, axis, RowPermutation(X.shape, perm))
      BY Zenon DEF flat, new
    <3>2. X.shape \in Shape3 /\ perm \in Orders /\ W.shape = WeightShape(axis, Volume(X.shape), c)
      BY <2>6, <2>7, Zenon
    <3> HIDE DEF X, W, axis
    <3>3. Product(Flat(X), Permuted(W, axis, RowPermutation(X.shape, perm)), axis)
           = Product(Flat(Transposed(X, perm)), W, axis)
      BY <2>5, <3>2, FoldedRowsKeepLayer
    <3>4. QED
      BY <3>1, <3>3, Zenon DEF X
  <2>9. QED
    BY <1>15, <2>1, <2>2, <2>3, <2>4, <2>8, Zenon
<1>19. Solves(mid, e)
  <2>1. e[<<"x">>] = Input(mid.shape)
    <3>1. <<"x">> \notin Gone
      BY <1>2, <1>3, <1>5, Zenon
    <3>2. QED
      BY <1>5, <1>9, <1>14, <1>15, <3>1, Zenon DEF Solves
  <2>2. \A c \in DOMAIN mid.inits : e[c] = mid.inits[c]
    <3>1. a \notin DOMAIN g.inits
      BY <1>3, <1>5, Zenon
    <3>2. \A c \in DOMAIN g.inits : c # w => c \notin Gone
      BY <3>1, Zenon
    <3> HIDE DEF Gone, w
    <3>3. \A c \in DOMAIN g.inits : c # w => e[c] = mid.inits[c]
      BY <1>5, <1>10, <1>14, <1>15, <3>2, Zenon DEF Solves
    <3>4. QED
      BY <1>10, <1>15, <3>3, Zenon
  <2>3. ASSUME NEW j \in DOMAIN g.nodes, j # i, j # r PROVE e[g.nodes[j].out] = Value(g.nodes[j], e)
    <3>1. AgreeOn(Made(g, Len(g.nodes)) \ Gone, e, Env(g))
      BY <1>15, Zenon DEF AgreeOn, L, E
    <3>2. Range(g.nodes[j].ins) \cap Gone = {} /\ g.nodes[j].out \notin Gone
      BY <1>7, <2>3, Zenon
    <3> HIDE DEF Gone
    <3>3. QED
      BY <3>1, <3>2, OthersSolve
  <2>4. ASSUME NEW j \in DOMAIN mid.nodes PROVE e[mid.nodes[j].out] = Value(mid.nodes[j], e)
    <3>1. CASE j = r
      BY <1>13, <1>17, <3>1, Zenon
    <3>2. CASE j = i
      BY <1>2, <1>7, <1>13, <1>18, <3>2, Zenon
    <3>3. CASE j # i /\ j # r
      BY <1>13, <2>3, <3>3, Zenon
    <3>4. QED
      BY <3>1, <3>2, <3>3, Zenon
  <2>5. QED
    BY <2>1, <2>2, <2>4, Zenon DEF Solves
<1> DEFINE h == RemoveIfUnused(mid, t)
<1>20. InOrder(h) /\ h.outputs = g.outputs /\ Solves(h, e)
  <2>1. t \in DOMAIN mid.nodes
    BY <1>3, <1>13, Zenon
  <2>2. QED
    BY <1>9, <1>13, <1>19, <2>1, Tidied, Zenon
<1> HIDE DEF h
<1>21. \A o \in g.outputs : e[o] = Env(g)[o]
  <2>1. \A o \in g.outputs : o \notin Gone
    BY <1>2, <1>4, <1>5, Zenon
  <2>2. QED
    BY <1>5, <1>15, <2>1, Zenon DEF E
<1>22. PoolsStay(g, h, e)
  <2>1. AllBut(g, r, mid)
    <3>1. m.op \notin PoolOps
      BY <1>8 DEF PoolOps
    <3>2. QED
      BY <1>13, <3>1, Zenon DEF AllBut
  <2>2. NodesFrom(mid, h)
    <3>1. t \in DOMAIN mid.nodes
      BY <1>3, <1>13, Zenon
    <3>2. QED
      BY <1>13, <3>1, TidiedNodes, Zenon DEF h
  <2>3. AgreeOn(Made(g, Len(g.nodes)) \ Gone, e, Env(g))
    BY <1>15, Zenon DEF AgreeOn, L, E
  <2>4. \A j \in DOMAIN g.nodes : g.nodes[j].op \in PoolOps => Range(g.nodes[j].ins) \cap Gone = {}
    <3>1. n.op \notin PoolOps
      <4> HIDE DEF n
      <4>1. QED
        BY <1>2 DEF PoolOps
    <3>2. QED
      BY <1>7, <3>1, Zenon
  <2> HIDE DEF Gone
  <2>5. QED
    BY <2>1, <2>2, <2>3, <2>4, PoolsStayIn, Zenon
<1>23. Rewrites(g, h, e)
  BY <1>20, <1>21, <1>22, Zenon DEF Rewrites
<1>24. QED
  BY <1>1, <1>23, Zenon DEF h

\* A step of fold_transposes changes no output: neither the one that
\* folds a Transpose and a Reshape into the layer behind them, nor the one that
\* puts a turned constant in place of a Transpose of the constant.
THEOREM FoldsKeepMeaning ==
  GraphSpec => [][WellFormed(graph) /\ FoldTranspose => Meaning(graph') = Meaning(graph)]_gvars
<1>1. ASSUME WellFormed(graph), FoldTranspose PROVE Meaning(graph') = Meaning(graph)
  <2>1. InOrder(graph) /\ FoldsFit(graph)
    BY <1>1, Zenon DEF WellFormed
  <2>2. \/ graph' = graph
        \/ \E i \in FirstOf(Folds(graph)) :
             graph' = IF Foldable(graph, i) THEN FoldActivation(graph, i) ELSE FoldWeight(graph, i)
    BY <1>1, Zenon DEF FoldTranspose
  <2>3. CASE graph' = graph
    BY <2>3, Zenon
  <2>4. CASE \E i \in FirstOf(Folds(graph)) :
               graph' = IF Foldable(graph, i) THEN FoldActivation(graph, i) ELSE FoldWeight(graph, i)
    <3>1. PICK i \in FirstOf(Folds(graph)) :
            graph' = IF Foldable(graph, i) THEN FoldActivation(graph, i) ELSE FoldWeight(graph, i)
      BY <2>4, Zenon
    <3>2. i \in FcNodes(graph) /\ (Foldable(graph, i) \/ WeightFoldable(graph, i))
      BY Zenon DEF FirstOf, Folds
    <3>3. CASE Foldable(graph, i)
      <4>1. Meaning(FoldActivation(graph, i)) = Meaning(graph)
        BY <2>1, <3>2, <3>3, OneActivationFold, RewritesKeep, Zenon
      <4>2. graph' = FoldActivation(graph, i)
        BY <3>1, <3>3, Zenon
      <4>3. QED
        BY <4>1, <4>2, Zenon
    <3>4. CASE ~Foldable(graph, i)
      <4>1. Meaning(FoldWeight(graph, i)) = Meaning(graph)
        BY <2>1, <3>2, <3>4, OneWeightFold, RewritesKeep, Zenon
      <4>2. graph' = FoldWeight(graph, i)
        BY <3>1, <3>4, Zenon
      <4>3. QED
        BY <4>1, <4>2, Zenon
    <3>5. QED
      BY <3>3, <3>4, Zenon
  <2>5. QED
    BY <2>2, <2>3, <2>4, Zenon
<1>2. GraphSpec => [][WellFormed(graph) /\ FoldTranspose => Meaning(graph') = Meaning(graph)]_gvars
  BY <1>1, PTL DEF GraphSpec
<1>3. QED
  BY <1>2, Zenon

-------------------------------------------------------------------------------
(* pool_decompose: nodes in place of a pool.                                *)

\* A sequence with others in place of its element i.
Swapped(s, i, new) == SubSeq(s, 1, i - 1) \o new \o SubSeq(s, i + 1, Len(s))
SwappedParts(s, i, new) ==
  /\ Len(s) \in Nat \ {0} /\ Len(new) \in Nat /\ i \in 1..Len(s) /\ DOMAIN s = 1..Len(s) /\ DOMAIN new = 1..Len(new)
  /\ Swapped(s, i, new) \in Seq(Range(Swapped(s, i, new)))
  /\ Len(Swapped(s, i, new)) = Len(s) - 1 + Len(new) /\ DOMAIN Swapped(s, i, new) = 1..Len(s) - 1 + Len(new)
  /\ \A p \in 1..i - 1 : Swapped(s, i, new)[p] = s[p]
  /\ \A q \in 1..Len(new) : Swapped(s, i, new)[i - 1 + q] = new[q]
  /\ \A p \in i + 1..Len(s) : Swapped(s, i, new)[p + Len(new) - 1] = s[p]

LEMMA SwappedIs ==
  ASSUME NEW s, s \in Seq(Range(s)), NEW i \in DOMAIN s, NEW new, new \in Seq(Range(new))
  PROVE  SwappedParts(s, i, new)
<1> DEFINE L == Len(s)
           M == Len(new)
           a == SubSeq(s, 1, i - 1)
           b == SubSeq(s, i + 1, L)
           T == Range(s) \cup Range(new)
<1>1. L \in Nat \ {0} /\ DOMAIN s = 1..L /\ i \in 1..L /\ \A j \in 1..L : s[j] \in T
  BY ElementOfSeq
<1>2. M \in Nat /\ DOMAIN new = 1..M /\ \A j \in 1..M : new[j] \in T
  BY ElementOfSeq
<1>3. s \in Seq(T) /\ new \in Seq(T)
  <2>1. s \in [1..L -> T] /\ new \in [1..M -> T]
    <3>1. s = [j \in 1..L |-> s[j]] /\ new = [j \in 1..M |-> new[j]]
      BY <1>1, <1>2, ElementOfSeq, SMT
    <3> HIDE DEF T, L, M
    <3>2. QED
      BY <1>1, <1>2, <3>1, Zenon
  <2> HIDE DEF T, L, M
  <2>2. s \in Seq(T)
    BY <1>1, <2>1, SMT
  <2>3. new \in Seq(T)
    BY <1>2, <2>1, SMT
  <2>4. QED
    BY <2>2, <2>3
<1>4. a \in Seq(T) /\ Len(a) = i - 1 /\ \A j \in 1..i - 1 : a[j] = s[j]
  <2> HIDE DEF T
  <2>1. QED
    BY <1>1, <1>3, SubSeqProperties
<1>5. b \in Seq(T) /\ Len(b) = L - i /\ \A j \in 1..L - i : b[j] = s[i + j]
  <2> HIDE DEF T
  <2>1. \A k \in i + 1..L : s[k] \in T
    BY <1>1
  <2>2. \A j \in 1..L - i : i + 1 + j - 1 = i + j
    BY <1>1
  <2>3. i + 1 \in Int /\ L \in Int /\ L - (i + 1) + 1 = L - i /\ (i + 1 <= L \/ L - i = 0)
    BY <1>1
  <2>4. /\ b \in Seq(T) /\ Len(b) = IF i + 1 <= L THEN L - (i + 1) + 1 ELSE 0
        /\ \A j \in 1..L - (i + 1) + 1 : b[j] = s[i + 1 + j - 1]
    BY <2>1, <2>3, SubSeqProperties
  <2>5. \A j \in 1..L - i : b[j] = s[i + j]
    BY <2>2, <2>3, <2>4
  <2>6. QED
    BY <2>3, <2>4, <2>5
<1> HIDE DEF a, b, L, T, M
<1> DEFINE c == a \o new
           r == c \o b
<1>6. /\ c \in Seq(T) /\ Len(c) = i - 1 + M
      /\ \A j \in 1..i - 1 : c[j] = s[j]
      /\ \A q \in 1..M : c[i - 1 + q] = new[q]
  <2>1. /\ c \in Seq(T) /\ Len(c) = i - 1 + M
        /\ \A j \in 1..i - 1 + M : c[j] = IF j <= i - 1 THEN a[j] ELSE new[j - (i - 1)]
    BY <1>1, <1>2, <1>3, <1>4, SMTT(60) DEF M
  <2>2. \A j \in 1..i - 1 : j \in 1..i - 1 + M /\ j <= i - 1
    BY <1>1, <1>2
  <2> HIDE DEF c
  <2>4. ASSUME NEW j \in 1..i - 1 PROVE c[j] = s[j]
    <3>1. c[j] = a[j]
      BY <2>1, <2>2
    <3>2. QED
      BY <1>4, <3>1, Zenon
  <2>5. ASSUME NEW q \in 1..M PROVE c[i - 1 + q] = new[q]
    <3> DEFINE p == i - 1 + q
    <3>1. p \in 1..i - 1 + M /\ ~(p <= i - 1) /\ p - (i - 1) = q
      BY <1>1, <1>2
    <3> HIDE DEF p
    <3>2. c[p] = new[p - (i - 1)]
      BY <2>1, <3>1, Zenon
    <3>3. QED
      BY <3>1, <3>2, Zenon DEF p
  <2>6. QED
    BY <2>1, <2>4, <2>5, Zenon
<1> HIDE DEF c
<1>7. /\ r \in Seq(T) /\ Len(r) = L - 1 + M /\ DOMAIN r = 1..L - 1 + M
      /\ \A j \in 1..i - 1 + M : r[j] = c[j]
      /\ \A p \in i + 1..L : r[p + M - 1] = s[p]
  <2>1. /\ r \in Seq(T) /\ Len(r) = L - 1 + M /\ DOMAIN r = 1..L - 1 + M
        /\ \A j \in 1..L - 1 + M : r[j] = IF j <= i - 1 + M THEN c[j] ELSE b[j - (i - 1 + M)]
    <3>1. /\ r \in Seq(T) /\ Len(r) = Len(c) + Len(b)
          /\ \A j \in 1..Len(c) + Len(b) : r[j] = IF j <= Len(c) THEN c[j] ELSE b[j - Len(c)]
      BY <1>5, <1>6, ConcatProperties
    <3>2. Len(c) + Len(b) = L - 1 + M /\ Len(c) = i - 1 + M
      BY <1>1, <1>2, <1>5, <1>6
    <3> HIDE DEF r
    <3>3. DOMAIN r = 1..Len(r)
      BY <3>1
    <3>4. QED
      BY <3>1, <3>2, <3>3, Zenon
  <2>2. \A j \in 1..i - 1 + M : j \in 1..L - 1 + M /\ j <= i - 1 + M
    BY <1>1, <1>2
  <2>3. \A p \in i + 1..L : p - i \in 1..L - i /\ i + (p - i) = p
    BY <1>1, <1>2
  <2> HIDE DEF r
  <2>4. ASSUME NEW p \in i + 1..L PROVE r[p + M - 1] = s[p]
    <3> DEFINE j == p + M - 1
    <3>1. j \in 1..L - 1 + M /\ ~(j <= i - 1 + M) /\ j - (i - 1 + M) = p - i
      BY <1>1, <1>2
    <3> HIDE DEF j
    <3>2. r[j] = b[p - i]
      BY <2>1, <3>1, Zenon
    <3>3. b[p - i] = s[p]
      BY <1>5, <2>3, Zenon
    <3>4. QED
      BY <3>2, <3>3, Zenon DEF j
  <2>5. QED
    BY <2>1, <2>2, <2>4, Zenon
<1>8. \A j \in 1..i - 1 : j \in 1..i - 1 + M
  BY <1>1, <1>2
<1>9. \A q \in 1..M : i - 1 + q \in 1..i - 1 + M
  BY <1>1, <1>2
<1> HIDE DEF r
<1>10. r \in Seq(Range(r))
  <2>1. L - 1 + M \in Nat /\ r = [j \in 1..L - 1 + M |-> r[j]]
    BY <1>1, <1>2, <1>7, ElementOfSeq, SMT
  <2>2. \A j \in 1..L - 1 + M : r[j] \in Range(r)
    BY <1>7, Zenon DEF Range
  <2>3. r \in [1..L - 1 + M -> Range(r)]
    BY <2>1, <2>2, Zenon
  <2>4. QED
    BY <2>1, <2>3, SeqDef, Zenon
<1>11. QED
  BY <1>1, <1>2, <1>6, <1>7, <1>8, <1>9, <1>10, Zenon DEF r, c, a, b, L, M, Swapped, SwappedParts

\* The graph with the nodes new in place of node i.
Expanded(g, i, new) ==
  [g EXCEPT !.nodes = Swapped(@, i, new)]
Outs(new, q) == {new[r].out : r \in 1..q}

\* Nodes that make what node i makes, by way of names of their own.
Chain(g, i, new) ==
  /\ new \in Seq(Range(new)) /\ Len(new) # 0 /\ new[Len(new)].out = g.nodes[i].out
  /\ \A q \in 1..Len(new) : LET m == new[q] IN
       /\ m.op \in Ops \ Layers /\ {"op", "ins", "out"} \subseteq DOMAIN m /\ 1 \in DOMAIN m.ins
       /\ Range(m.ins) \subseteq Made(g, i - 1) \cup Outs(new, q - 1)
       /\ m.out \notin Outs(new, q - 1)
       /\ m.out \in Made(g, Len(g.nodes)) => m.out = g.nodes[i].out

LEMMA OutsNext ==
  ASSUME NEW new, NEW q \in Nat
  PROVE  /\ \A y : y \in Outs(new, q) <=> \E r \in 1..q : y = new[r].out
         /\ \A r \in 0..q : Outs(new, r) \subseteq Outs(new, q)
<1>1. \A r \in 0..q : \A a \in 1..r : a \in 1..q
  OBVIOUS
<1>2. \A p : \A y : y \in Outs(new, p) <=> \E r \in 1..p : y = new[r].out
  BY Zenon DEF Outs
<1>3. QED
  BY <1>1, <1>2

\* What is made before each node of it.
ExpandedParts(g, i, new, h, L, M) ==
  /\ L = Len(g.nodes) /\ M = Len(new)
  /\ DOMAIN h = DOMAIN g /\ h.shape = g.shape /\ h.inits = g.inits /\ h.outputs = g.outputs
  /\ h.nodes \in Seq(Range(h.nodes)) /\ Len(h.nodes) = L - 1 + M /\ DOMAIN h.nodes = 1..L - 1 + M
  /\ L \in Nat \ {0} /\ M \in Nat \ {0} /\ i \in 1..L /\ DOMAIN g.nodes = 1..L
  /\ \A p \in 1..i - 1 : h.nodes[p] = g.nodes[p] /\ Made(h, p - 1) \subseteq Made(g, p - 1)
                         /\ Made(g, p - 1) \subseteq Made(h, p - 1)
  /\ \A q \in 1..M : h.nodes[i - 1 + q] = new[q]
                     /\ Made(h, i - 1 + q - 1) = Made(g, i - 1) \cup Outs(new, q - 1)
  /\ \A p \in i + 1..L : h.nodes[p + M - 1] = g.nodes[p]
                         /\ Made(h, p + M - 1 - 1) = Made(g, p - 1) \cup Outs(new, M)
  /\ Made(h, L - 1 + M) = Made(g, L) \cup Outs(new, M)

LEMMA ExpandedMade ==
  ASSUME NEW g, InOrder(g), NEW i \in DOMAIN g.nodes, NEW new, Chain(g, i, new)
  PROVE  ExpandedParts(g, i, new, Expanded(g, i, new), Len(g.nodes), Len(new))
<1> DEFINE s == g.nodes
           L == Len(s)
           M == Len(new)
           r == Swapped(s, i, new)
           h == Expanded(g, i, new)
           F == {<<"x">>} \cup DOMAIN g.inits
           o == s[i].out
<1>1. /\ DOMAIN g = {"shape", "inits", "outputs", "nodes"} /\ s \in Seq(Range(s))
      /\ new \in Seq(Range(new)) /\ M # 0 /\ new[M].out = o
  BY Zenon DEF InOrder, Chain
<1>2. /\ L \in Nat \ {0} /\ M \in Nat /\ i \in 1..L /\ DOMAIN s = 1..L
      /\ r \in Seq(Range(r)) /\ Len(r) = L - 1 + M /\ DOMAIN r = 1..L - 1 + M
      /\ \A p \in 1..i - 1 : r[p] = s[p]
      /\ \A q \in 1..M : r[i - 1 + q] = new[q]
      /\ \A p \in i + 1..L : r[p + M - 1] = s[p]
  <2>1. SwappedParts(s, i, new)
    BY <1>1, SwappedIs
  <2>2. QED
    BY <2>1, Zenon DEF SwappedParts
<1>3. h = [g EXCEPT !.nodes = r]
  BY Zenon DEF Expanded
<1> HIDE DEF r, h
<1>4. DOMAIN h = DOMAIN g /\ h.shape = g.shape /\ h.inits = g.inits /\ h.outputs = g.outputs /\ h.nodes = r
  BY <1>1, <1>3
<1>5. \A k, y : /\ y \in Made(h, k) <=> y \in F \/ \E j \in 1..k : y = r[j].out
                /\ y \in Made(g, k) <=> y \in F \/ \E j \in 1..k : y = s[j].out
                /\ y \in Outs(new, k) <=> \E j \in 1..k : y = new[j].out
  BY <1>4, Zenon DEF Made, Outs
<1> HIDE DEF L, M, F, s, o
<1>6. ASSUME NEW p \in 1..i
      PROVE  Made(h, p - 1) \subseteq Made(g, p - 1) /\ Made(g, p - 1) \subseteq Made(h, p - 1)
  <2>1. \A j \in 1..p - 1 : j \in 1..i - 1
    BY <1>2
  <2>2. QED
    BY <1>2, <1>5, <2>1, ZenonT(60)
<1>7. ASSUME NEW q \in 0..M
      PROVE  Made(h, i - 1 + q) = Made(g, i - 1) \cup Outs(new, q)
  <2> DEFINE k == i - 1 + q
  <2>1. \A j \in 1..i - 1 : j \in 1..k
    BY <1>2
  <2>2. \A j \in 1..q : i - 1 + j \in 1..k /\ j \in 1..M
    BY <1>2
  <2>3. \A j \in 1..k : j \in 1..i - 1 \/ \E a \in 1..q : j = i - 1 + a
    <3>1. \A j \in 1..k : j \notin 1..i - 1 => j - (i - 1) \in 1..q /\ j = i - 1 + (j - (i - 1))
      BY <1>2
    <3>2. QED
      BY <3>1, Zenon
  <2> HIDE DEF k
  <2>4. ASSUME NEW y \in Made(h, k) PROVE y \in Made(g, i - 1) \/ y \in Outs(new, q)
    <3>1. CASE y \in F
      BY <1>5, <3>1, Zenon
    <3>2. CASE y \notin F
      <4>1. PICK j \in 1..k : y = r[j].out
        BY <1>5, <3>2
      <4>2. CASE j \in 1..i - 1
        BY <1>2, <1>5, <4>1, <4>2, Zenon
      <4>3. CASE j \notin 1..i - 1
        <5>1. PICK a \in 1..q : j = i - 1 + a
          BY <2>3, <4>3, Zenon
        <5>2. r[j] = new[a]
          BY <1>2, <2>2, <5>1, Zenon
        <5>3. QED
          BY <1>5, <4>1, <5>2, Zenon
      <4>4. QED
        BY <4>2, <4>3, Zenon
    <3>3. QED
      BY <3>1, <3>2, Zenon
  <2>5. ASSUME NEW y \in Made(g, i - 1) PROVE y \in Made(h, k)
    BY <1>2, <1>5, <2>1
  <2>6. ASSUME NEW y \in Outs(new, q) PROVE y \in Made(h, k)
    <3>1. PICK a \in 1..q : y = new[a].out
      BY <1>5
    <3>2. r[i - 1 + a] = new[a] /\ i - 1 + a \in 1..k
      BY <1>2, <2>2, Zenon
    <3>3. QED
      BY <1>5, <3>1, <3>2, Zenon
  <2>7. QED
    BY <2>4, <2>5, <2>6, Zenon DEF k
<1>8. ASSUME NEW p \in i..L
      PROVE  Made(h, p + M - 1) = Made(g, p) \cup Outs(new, M)
  <2> DEFINE k == p + M - 1
             b == i - 1 + M
  <2>1. Made(h, b) = Made(g, i - 1) \cup Outs(new, M)
    <3>1. M \in 0..M
      BY <1>2
    <3>2. QED
      BY <1>7, <3>1, Zenon
  <2>2. \A j \in 1..b : j \in 1..k
    BY <1>2
  <2>3. \A j \in i + 1..p : j + M - 1 \in 1..k /\ j \in i + 1..L /\ j \in 1..p
    BY <1>2
  <2>4. \A j \in 1..k : j \in 1..b \/ \E a \in i + 1..p : j = a + M - 1
    <3>1. \A j \in 1..k : j \notin 1..b => j - M + 1 \in i + 1..p /\ j = (j - M + 1) + M - 1
      BY <1>2
    <3>2. QED
      BY <3>1, Zenon
  <2>5. \A j \in 1..p : j \in 1..i - 1 \/ j = i \/ j \in i + 1..p
    BY <1>2
  <2>6. (\A j \in 1..i - 1 : j \in 1..p) /\ M \in 1..M /\ i \in 1..p
    BY <1>1, <1>2
  <2> HIDE DEF k, b
  <2>7. ASSUME NEW y \in Made(h, k) PROVE y \in Made(g, p) \/ y \in Outs(new, M)
    <3>1. CASE y \in Made(h, b)
      <4>1. y \in Outs(new, M) \/ y \in Made(g, i - 1)
        BY <2>1, <3>1, Zenon
      <4>2. QED
        BY <1>5, <2>6, <4>1
    <3>2. CASE y \notin Made(h, b)
      <4>1. y \notin F
        BY <1>5, <3>2, Zenon
      <4>2. PICK j \in 1..k : y = r[j].out
        BY <1>5, <4>1
      <4>3. j \notin 1..b
        BY <1>5, <3>2, <4>2, Zenon
      <4>4. PICK a \in i + 1..p : j = a + M - 1
        BY <2>4, <4>3, Zenon
      <4>5. r[j] = s[a] /\ a \in 1..p
        BY <1>2, <2>3, <4>4, Zenon
      <4>6. QED
        BY <1>5, <4>2, <4>5, Zenon
    <3>3. QED
      BY <3>1, <3>2, Zenon
  <2>8. ASSUME NEW y \in Made(h, b) PROVE y \in Made(h, k)
    BY <1>5, <2>2
  <2>9. ASSUME NEW y \in Made(g, p) PROVE y \in Made(h, k)
    <3>1. CASE y \in F
      BY <1>5, <3>1, Zenon
    <3>2. CASE y \notin F
      <4>1. PICK j \in 1..p : y = s[j].out
        BY <1>5, <3>2
      <4>2. CASE j \in 1..i - 1
        <5>1. y \in Made(g, i - 1)
          BY <1>5, <4>1, <4>2, Zenon
        <5>2. QED
          BY <2>1, <2>8, <5>1, Zenon
      <4>3. CASE j = i
        <5>1. y = new[M].out
          BY <1>1, <4>1, <4>3, Zenon DEF o
        <5>2. y \in Outs(new, M)
          BY <1>5, <2>6, <5>1, Zenon
        <5>3. QED
          BY <2>1, <2>8, <5>2, Zenon
      <4>4. CASE j \in i + 1..p
        <5>1. r[j + M - 1] = s[j] /\ j + M - 1 \in 1..k
          BY <1>2, <2>3, <4>4, Zenon
        <5>2. QED
          BY <1>5, <4>1, <5>1, Zenon
      <4>5. QED
        BY <2>5, <4>2, <4>3, <4>4, Zenon
    <3>3. QED
      BY <3>1, <3>2, Zenon
  <2>10. QED
    BY <2>1, <2>7, <2>8, <2>9, Zenon DEF k
<1>9. \A p \in 1..i - 1 : p \in 1..i
  BY <1>2
<1>10. ASSUME NEW q \in 1..M PROVE Made(h, i - 1 + q - 1) = Made(g, i - 1) \cup Outs(new, q - 1)
  <2>1. q - 1 \in 0..M /\ i - 1 + q - 1 = i - 1 + (q - 1)
    BY <1>2
  <2>2. QED
    BY <1>7, <2>1, Zenon
<1>11. ASSUME NEW p \in i + 1..L PROVE Made(h, p + M - 1 - 1) = Made(g, p - 1) \cup Outs(new, M)
  <2>1. p - 1 \in i..L /\ p + M - 1 - 1 = p - 1 + M - 1
    BY <1>2
  <2>2. QED
    BY <1>8, <2>1, Zenon
<1>12. Made(h, L - 1 + M) = Made(g, L) \cup Outs(new, M)
  <2>1. L \in i..L /\ L - 1 + M = L + M - 1
    BY <1>2
  <2>2. QED
    BY <1>8, <2>1, Zenon
<1>13. M \in Nat \ {0}
  BY <1>1, <1>2
<1>14. QED
  BY <1>2, <1>4, <1>6, <1>9, <1>10, <1>11, <1>12, <1>13, Zenon DEF h, s, L, M, ExpandedParts

\* A node that reads what is made and makes something else.
NodeFits(n, S) ==
  /\ n.op \in Ops /\ {"op", "ins", "out"} \subseteq DOMAIN n
  /\ 1..(IF n.op \in Layers THEN 2 ELSE 1) \subseteq DOMAIN n.ins
  /\ Range(n.ins) \subseteq S /\ n.out \notin S

LEMMA OrderIs ==
  ASSUME NEW g
  PROVE  InOrder(g) <=>
           /\ DOMAIN g = {"shape", "inits", "outputs", "nodes"}
           /\ g.nodes \in Seq(Range(g.nodes))
           /\ <<"x">> \notin DOMAIN g.inits
           /\ g.outputs \subseteq Made(g, Len(g.nodes)) \ DOMAIN g.inits
           /\ \A i \in DOMAIN g.nodes : NodeFits(g.nodes[i], Made(g, i - 1))
BY Zenon DEF InOrder, NodeFits

\* A place in the expanded graph is one before, in or behind the chain.
InThree(L, M, i, p) ==
  \/ p \in 1..i - 1
  \/ \E q \in 1..M : p = i - 1 + q
  \/ \E j \in i + 1..L : p = j + M - 1

LEMMA ThreeParts ==
  ASSUME NEW L \in Nat \ {0}, NEW M \in Nat \ {0}, NEW i \in 1..L, NEW p \in 1..L - 1 + M
  PROVE  InThree(L, M, i, p)
<1>1. \/ p \in 1..i - 1
      \/ p - (i - 1) \in 1..M /\ p = i - 1 + (p - (i - 1))
      \/ p - M + 1 \in i + 1..L /\ p = (p - M + 1) + M - 1
  OBVIOUS
<1>2. QED
  BY <1>1, Zenon DEF InThree

LEMMA ExpandedOrder ==
  ASSUME NEW g, InOrder(g), NEW i \in DOMAIN g.nodes, NEW new, Chain(g, i, new)
  PROVE  InOrder(Expanded(g, i, new))
<1> DEFINE h == Expanded(g, i, new)
           L == Len(g.nodes)
           M == Len(new)
           o == g.nodes[i].out
           Fits(p) == NodeFits(h.nodes[p], Made(h, p - 1))
<1>1. /\ DOMAIN h = DOMAIN g /\ h.shape = g.shape /\ h.inits = g.inits /\ h.outputs = g.outputs
      /\ h.nodes \in Seq(Range(h.nodes)) /\ Len(h.nodes) = L - 1 + M /\ DOMAIN h.nodes = 1..L - 1 + M
      /\ L \in Nat \ {0} /\ M \in Nat \ {0} /\ i \in 1..L /\ DOMAIN g.nodes = 1..L
      /\ \A p \in 1..i - 1 : h.nodes[p] = g.nodes[p] /\ Made(h, p - 1) \subseteq Made(g, p - 1)
                             /\ Made(g, p - 1) \subseteq Made(h, p - 1)
      /\ \A q \in 1..M : h.nodes[i - 1 + q] = new[q]
                         /\ Made(h, i - 1 + q - 1) = Made(g, i - 1) \cup Outs(new, q - 1)
      /\ \A p \in i + 1..L : h.nodes[p + M - 1] = g.nodes[p]
                             /\ Made(h, p + M - 1 - 1) = Made(g, p - 1) \cup Outs(new, M)
      /\ Made(h, L - 1 + M) = Made(g, L) \cup Outs(new, M)
  <2>1. ExpandedParts(g, i, new, h, L, M)
    BY ExpandedMade, Zenon
  <2> HIDE DEF h, L, M
  <2>2. QED
    BY <2>1, Zenon DEF ExpandedParts
<1> HIDE DEF h, L, M
<1>2. /\ DOMAIN g = {"shape", "inits", "outputs", "nodes"} /\ <<"x">> \notin DOMAIN g.inits
      /\ g.outputs \subseteq Made(g, L) \ DOMAIN g.inits
      /\ \A p \in DOMAIN g.nodes : NodeFits(g.nodes[p], Made(g, p - 1))
  BY OrderIs, Zenon DEF L
<1>3. \A p \in DOMAIN g.nodes : g.nodes[p].out \in Made(g, L) /\ Made(g, p - 1) \subseteq Made(g, L)
  BY Known, Zenon DEF L
<1>4. \A q \in 1..M : /\ new[q].op \in Ops \ Layers /\ {"op", "ins", "out"} \subseteq DOMAIN new[q]
                      /\ 1 \in DOMAIN new[q].ins
                      /\ Range(new[q].ins) \subseteq Made(g, i - 1) \cup Outs(new, q - 1)
                      /\ new[q].out \notin Outs(new, q - 1)
                      /\ new[q].out \in Made(g, L) => new[q].out = o
  BY Zenon DEF Chain, M, L
<1>5. ASSUME NEW p \in 1..i - 1 PROVE Fits(p)
  <2>1. p \in DOMAIN g.nodes
    BY <1>1
  <2>2. h.nodes[p] = g.nodes[p] /\ Made(h, p - 1) \subseteq Made(g, p - 1)
                             /\ Made(g, p - 1) \subseteq Made(h, p - 1)
    BY <1>1, Zenon
  <2>3. NodeFits(g.nodes[p], Made(g, p - 1))
    BY <1>2, <2>1, Zenon
  <2>4. Made(h, p - 1) = Made(g, p - 1)
    BY <2>2, Zenon
  <2>5. QED
    BY <2>2, <2>3, <2>4, Zenon
<1>6. ASSUME NEW q \in 1..M PROVE Fits(i - 1 + q)
  <2> DEFINE n == new[q]
  <2>1. h.nodes[i - 1 + q] = n /\ Made(h, i - 1 + q - 1) = Made(g, i - 1) \cup Outs(new, q - 1)
    BY <1>1, Zenon
  <2>2. 1..(IF n.op \in Layers THEN 2 ELSE 1) \subseteq DOMAIN n.ins
    <3>1. \A a \in 1..1 : a = 1
      OBVIOUS
    <3>2. QED
      BY <1>4, <3>1, Zenon
  <2>3. n.out \notin Made(g, i - 1)
    <3>1. n.out \in Made(g, i - 1) => n.out = o
      BY <1>1, <1>3, <1>4, Zenon
    <3>2. o \notin Made(g, i - 1)
      BY <1>2, Zenon DEF NodeFits
    <3>3. QED
      BY <3>1, <3>2, Zenon
  <2>4. NodeFits(n, Made(g, i - 1) \cup Outs(new, q - 1))
    BY <1>4, <2>2, <2>3, Zenon DEF NodeFits
  <2>5. i - 1 + q - 1 = (i - 1 + q) - 1
    BY <1>1
  <2>6. QED
    BY <2>1, <2>4, <2>5, Zenon
<1>7. ASSUME NEW j \in i + 1..L PROVE Fits(j + M - 1)
  <2> DEFINE n == g.nodes[j]
  <2>1. /\ h.nodes[j + M - 1] = n
        /\ Made(h, j + M - 1 - 1) = Made(g, j - 1) \cup Outs(new, M)
    BY <1>1, Zenon
  <2>2. j \in DOMAIN g.nodes /\ i \in 1..j - 1
    BY <1>1
  <2>3. NodeFits(n, Made(g, j - 1)) /\ n.out \in Made(g, L)
    BY <1>2, <1>3, <2>2, Zenon
  <2>4. o \in Made(g, j - 1)
    BY <2>2, Zenon DEF Made
  <2>5. n.out \notin Outs(new, M)
    <3>1. ASSUME NEW q \in 1..M, n.out = new[q].out PROVE FALSE
      <4>1. new[q].out = o
        BY <1>4, <2>3, <3>1, Zenon
      <4>2. QED
        BY <2>3, <2>4, <3>1, <4>1, Zenon DEF NodeFits
    <3>2. QED
      BY <3>1, Zenon DEF Outs
  <2>6. NodeFits(n, Made(g, j - 1) \cup Outs(new, M))
    <3> HIDE DEF n
    <3>1. QED
      BY <2>3, <2>5, Zenon DEF NodeFits
  <2>7. j + M - 1 - 1 = (j + M - 1) - 1
    BY <1>1
  <2>8. QED
    BY <2>1, <2>6, <2>7, Zenon
<1> HIDE DEF Fits
<1>8. ASSUME NEW p \in DOMAIN h.nodes PROVE Fits(p)
  <2>1. InThree(L, M, i, p)
    <3>1. p \in 1..L - 1 + M
      BY <1>1, Zenon
    <3>2. QED
      BY <1>1, <3>1, ThreeParts, Zenon
  <2>2. QED
    <3>1. CASE p \in 1..i - 1
      BY <1>5, <3>1, Zenon
    <3>2. ASSUME NEW q \in 1..M, p = i - 1 + q PROVE Fits(p)
      BY <1>6, <3>2, Zenon
    <3>3. ASSUME NEW j \in i + 1..L, p = j + M - 1 PROVE Fits(p)
      BY <1>7, <3>3, Zenon
    <3>4. QED
      BY <2>1, <3>1, <3>2, <3>3, Zenon DEF InThree
<1>9. h.outputs \subseteq Made(h, Len(h.nodes)) \ DOMAIN h.inits
  BY <1>1, <1>2, Zenon
<1>10. QED
  BY <1>1, <1>2, <1>8, <1>9, OrderIs, Zenon DEF h, Fits

LEMMA StillSolve ==
  ASSUME NEW g, InOrder(g), NEW e, AgreeOn(Made(g, Len(g.nodes)), e, Env(g))
  PROVE  \A j \in DOMAIN g.nodes : e[g.nodes[j].out] = Value(g.nodes[j], e)
<1> DEFINE E == Env(g)
           L == Len(g.nodes)
<1> TAKE j \in DOMAIN g.nodes
<1>1. Solves(g, E) /\ \A y \in Made(g, L) : e[y] = E[y]
  BY Solved, Zenon DEF AgreeOn
<1>2. Range(g.nodes[j].ins) \subseteq Made(g, j - 1)
  BY Zenon DEF InOrder
<1>3. Made(g, j - 1) \subseteq Made(g, L) /\ g.nodes[j].out \in Made(g, L)
  BY Known, Zenon
<1> HIDE DEF E
<1>4. AgreeOn(Range(g.nodes[j].ins), e, E)
  BY <1>1, <1>2, <1>3, Zenon DEF AgreeOn
<1>5. Value(g.nodes[j], e) = Value(g.nodes[j], E)
  BY <1>4, NodeReads, ZenonT(60)
<1>6. QED
  BY <1>1, <1>3, <1>5, Zenon DEF Solves

\* The values of the graph, with those of a chain's stages besides, are those
\* of the expanded graph.
LEMMA ExpandedSolves ==
  ASSUME NEW g, InOrder(g), NEW i \in DOMAIN g.nodes, NEW new, Chain(g, i, new),
         NEW e, AgreeOn(Made(g, Len(g.nodes)), e, Env(g)),
         \A q \in 1..Len(new) : e[new[q].out] = Value(new[q], e)
  PROVE  Solves(Expanded(g, i, new), e)
<1> DEFINE h == Expanded(g, i, new)
           L == Len(g.nodes)
           M == Len(new)
           E == Env(g)
           Holds(p) == e[h.nodes[p].out] = Value(h.nodes[p], e)
<1>1. /\ h.shape = g.shape /\ h.inits = g.inits
      /\ DOMAIN h.nodes = 1..L - 1 + M
      /\ L \in Nat \ {0} /\ M \in Nat \ {0} /\ i \in 1..L /\ DOMAIN g.nodes = 1..L
      /\ \A p \in 1..i - 1 : h.nodes[p] = g.nodes[p]
      /\ \A q \in 1..M : h.nodes[i - 1 + q] = new[q]
      /\ \A p \in i + 1..L : h.nodes[p + M - 1] = g.nodes[p]
  <2>1. ExpandedParts(g, i, new, h, L, M)
    BY ExpandedMade, Zenon
  <2> HIDE DEF h, L, M
  <2>2. QED
    BY <2>1, Zenon DEF ExpandedParts
<1> HIDE DEF h, M
<1>2. /\ Solves(g, E) /\ \A y \in Made(g, L) : e[y] = E[y]
  BY Solved, Zenon DEF AgreeOn
<1> HIDE DEF E
<1>3. \A j \in DOMAIN g.nodes : e[g.nodes[j].out] = Value(g.nodes[j], e)
  BY StillSolve, Zenon
<1> HIDE DEF L
<1>a. ASSUME NEW p \in i + 1..L PROVE Holds(p + M - 1)
  <2>1. p \in DOMAIN g.nodes /\ h.nodes[p + M - 1] = g.nodes[p]
    BY <1>1
  <2>2. QED
    BY <1>3, <2>1, Zenon
<1>b. ASSUME NEW q \in 1..M PROVE Holds(i - 1 + q)
  <2>1. h.nodes[i - 1 + q] = new[q] /\ e[new[q].out] = Value(new[q], e)
    BY <1>1, Zenon DEF M
  <2>2. QED
    BY <2>1, Zenon
<1>c. ASSUME NEW p \in 1..i - 1 PROVE Holds(p)
  <2>1. p \in DOMAIN g.nodes /\ h.nodes[p] = g.nodes[p]
    BY <1>1
  <2>2. QED
    BY <1>3, <2>1, Zenon
<1> HIDE DEF Holds
<1>4. ASSUME NEW p \in DOMAIN h.nodes PROVE Holds(p)
  <2>1. InThree(L, M, i, p)
    <3>1. p \in 1..L - 1 + M
      BY <1>1, Zenon
    <3>2. QED
      BY <1>1, <3>1, ThreeParts, Zenon
  <2>2. QED
    BY <1>a, <1>b, <1>c, <2>1, Zenon DEF InThree
<1>5. e[<<"x">>] = Input(h.shape) /\ \A c \in DOMAIN h.inits : e[c] = h.inits[c]
  <2>1. <<"x">> \in Made(g, L) /\ DOMAIN g.inits \subseteq Made(g, L)
    BY Zenon DEF Made
  <2>2. QED
    BY <1>1, <1>2, <2>1, Zenon DEF Solves
<1>6. QED
  BY <1>4, <1>5, Zenon DEF Solves, h, Holds

\* What a pool, or the convolution or the mean in place of one, makes.
PoolLike == {"AveragePool", "MeanConv", "ReduceMean"}
PoolOf(m, a) ==
  IF m.op = "ReduceMean" THEN Window(a, <<a.shape[2], a.shape[3]>>, <<1, 1>>) ELSE Window(a, m.k, m.s)

LEMMA PoolValue ==
  ASSUME NEW m, m.op \in PoolLike, NEW e
  PROVE  Value(m, e) = PoolOf(m, e[m.ins[1]])
<1> DEFINE a == e[m.ins[1]]
<1>1. Value(m, e) = ValueFrom(a, m, e)
  BY Zenon DEF Value, Once
<1> HIDE DEF a
<1>2. m.op = "ReduceMean" => ValueFrom(a, m, e) = Window(a, <<a.shape[2], a.shape[3]>>, <<1, 1>>)
  BY DEF ValueFrom
<1>3. m.op \in {"AveragePool", "MeanConv"} => ValueFrom(a, m, e) = Window(a, m.k, m.s)
  BY DEF ValueFrom
<1>4. m.op \in {"AveragePool", "MeanConv"} \/ m.op = "ReduceMean"
  BY Zenon DEF PoolLike
<1>5. m.op \in {"AveragePool", "MeanConv"} => m.op # "ReduceMean"
  OBVIOUS
<1>6. QED
  BY <1>1, <1>2, <1>3, <1>4, <1>5, Zenon DEF PoolOf, a

\* Each stage of the chain makes v[q] of what the stage before it made.
Linked(g, i, new, v) ==
  /\ \A q \in 1..Len(new) :
       /\ new[q].op \in PoolLike
       /\ q = 1 => /\ new[q].ins[1] = g.nodes[i].ins[1]
                   /\ v[q] = PoolOf(new[q], Env(g)[g.nodes[i].ins[1]])
       /\ q # 1 => /\ q - 1 \in 1..Len(new) /\ new[q].ins[1] = new[q - 1].out
                   /\ v[q] = PoolOf(new[q], v[q - 1])
  /\ v[Len(new)] = Env(g)[g.nodes[i].out]

LEMMA ChainApart ==
  ASSUME NEW g, NEW i, NEW new, Chain(g, i, new), Len(new) \in Nat
  PROVE  \A q, r \in 1..Len(new) : new[q].out = new[r].out => q = r
<1>1. \A q \in 1..Len(new) : new[q].out \notin Outs(new, q - 1)
  BY Zenon DEF Chain
<1>2. ASSUME NEW q \in 1..Len(new), NEW r \in 1..q - 1, new[q].out = new[r].out PROVE FALSE
  BY <1>1, <1>2, Zenon DEF Outs
<1>3. \A q, r \in 1..Len(new) : q = r \/ r \in 1..q - 1 \/ q \in 1..r - 1
  OBVIOUS
<1>4. QED
  BY <1>2, <1>3, Zenon

LEMMA ChainKeeps ==
  ASSUME NEW g, InOrder(g), NEW i \in DOMAIN g.nodes, NEW new, Chain(g, i, new), NEW v, Linked(g, i, new, v)
  PROVE  Meaning(Expanded(g, i, new)) = Meaning(g)
<1> DEFINE L == Len(g.nodes)
           M == Len(new)
           E == Env(g)
           h == Expanded(g, i, new)
           x == g.nodes[i].ins[1]
           At(y) == IF y \in Made(g, L) THEN E[y] ELSE v[CHOOSE q \in 1..M : new[q].out = y]
           e == [y \in Made(g, L) \cup Outs(new, M) |-> At(y)]
<1>1. M \in Nat \ {0} /\ L \in Nat /\ h.outputs = g.outputs
  <2>1. ExpandedParts(g, i, new, h, L, M)
    BY ExpandedMade, Zenon
  <2> HIDE DEF h, L, M
  <2>2. L \in Nat \ {0} /\ M \in Nat \ {0} /\ h.outputs = g.outputs
    BY <2>1, Zenon DEF ExpandedParts
  <2>3. QED
    BY <2>2
<1>2. x \in Made(g, L)
  <2>1. Range(g.nodes[i].ins) \subseteq Made(g, L)
    BY Known, Zenon DEF InOrder
  <2>2. 1 \in DOMAIN g.nodes[i].ins
    <3>1. 1 \in 1..(IF g.nodes[i].op \in Layers THEN 2 ELSE 1)
      OBVIOUS
    <3>2. QED
      BY <3>1, Zenon DEF InOrder
  <2>3. QED
    BY <2>1, <2>2, Zenon DEF Range
<1>3. \A y \in Made(g, L) : e[y] = E[y]
  <2> HIDE DEF E, L
  <2>1. QED
    BY Zenon
<1>4. ASSUME NEW q \in 1..M PROVE e[new[q].out] = v[q]
  <2> DEFINE y == new[q].out
  <2>1. \A r \in 1..M : new[r].out = y => r = q
    BY <1>1, ChainApart, Zenon
  <2>2. CASE y \in Made(g, L)
    <3>1. y = new[M].out /\ y = g.nodes[i].out
      BY <2>2, Zenon DEF Chain
    <3>2. M \in 1..M
      BY <1>1
    <3> HIDE DEF M
    <3>3. q = M
      BY <2>1, <3>1, <3>2, Zenon
    <3>4. v[M] = E[g.nodes[i].out]
      BY Zenon DEF Linked, M
    <3> HIDE DEF e, E, L
    <3>5. QED
      BY <1>3, <2>2, <3>1, <3>3, <3>4, Zenon
  <2>3. CASE y \notin Made(g, L)
    <3>1. y \in Outs(new, M)
      BY Zenon DEF Outs
    <3>2. (CHOOSE r \in 1..M : new[r].out = y) = q
      <4> HIDE DEF M
      <4>1. QED
        BY <2>1, Zenon
    <3> HIDE DEF E, L, M, y
    <3>3. e[y] = At(y)
      BY <3>1, Zenon
    <3>4. At(y) = v[q]
      BY <2>3, <3>2, Zenon
    <3>5. QED
      BY <3>3, <3>4, Zenon DEF y
  <2>4. QED
    BY <2>2, <2>3, Zenon
<1> HIDE DEF e
<1>5. ASSUME NEW q \in 1..M PROVE e[new[q].out] = Value(new[q], e)
  <2>1. /\ new[q].op \in PoolLike
        /\ q = 1 => /\ new[q].ins[1] = x
                    /\ v[q] = PoolOf(new[q], E[x])
        /\ q # 1 => /\ q - 1 \in 1..M /\ new[q].ins[1] = new[q - 1].out
                    /\ v[q] = PoolOf(new[q], v[q - 1])
    BY Zenon DEF Linked
  <2>2. Value(new[q], e) = PoolOf(new[q], e[new[q].ins[1]])
    BY <2>1, PoolValue, Zenon
  <2> HIDE DEF x, M, E
  <2>3. CASE q = 1
    BY <1>2, <1>3, <1>4, <2>1, <2>2, <2>3, Zenon
  <2>4. CASE q # 1
    <3>1. e[new[q - 1].out] = v[q - 1]
      BY <1>4, <2>1, <2>4, Zenon
    <3>2. QED
      BY <1>4, <2>1, <2>2, <2>4, <3>1, Zenon
  <2>5. QED
    BY <2>3, <2>4, Zenon
<1>6. AgreeOn(Made(g, Len(g.nodes)), e, Env(g)) /\ \A q \in 1..Len(new) : e[new[q].out] = Value(new[q], e)
  BY <1>3, <1>5, Zenon DEF AgreeOn
<1>7. Solves(h, e) /\ InOrder(h)
  BY <1>6, ExpandedSolves, ExpandedOrder, Zenon
<1>8. \A o \in g.outputs : e[o] = Env(g)[o]
  BY <1>3, Zenon DEF InOrder
<1> HIDE DEF h
<1>9. Meaning(h) = Meaning(g)
  BY <1>1, <1>7, <1>8, SameMeaning
<1>10. QED
  BY <1>9, Zenon DEF h

-------------------------------------------------------------------------------
(* pool_decompose: the factors of a window.                                 *)

\* factorize_into by a function on what is left and the next factor to try.
FactorBody(F, m, f) ==
  IF f = 1 THEN <<<<>>, m>>
  ELSE IF m % f = 0 THEN <<<<f>> \o F[<<m \div f, f>>][1], F[<<m \div f, f>>][2]>>
  ELSE F[<<m, f - 1>>]
Upto(n, top, d) == {p \in (1..n) \X (1..top) : p[1] + p[2] <= d}
FactorsAt(n, top, d, F) == F = [p \in Upto(n, top, d) |-> FactorBody(F, p[1], p[2])]

LEMMA FactorDown ==
  ASSUME NEW n \in Nat, NEW top \in Nat, NEW m \in 1..n, NEW f \in 1..top, f # 1
  PROVE  /\ f - 1 \in 1..top /\ m + (f - 1) < m + f
         /\ m % f = 0 => /\ m \div f \in 1..n /\ (m \div f) + f < m + f
                         /\ m = f * (m \div f)
<1>1. f - 1 \in 1..top /\ m + (f - 1) < m + f
  OBVIOUS
<1>2. CASE m % f = 0
  <2> DEFINE q == m \div f
  <2>1. q \in Nat /\ m = f * q
    <3>1. f \in Nat \ {0} /\ m \in Nat
      OBVIOUS
    <3>2. m \div f \in Nat /\ m = f * (m \div f) + (m % f) /\ f * (m \div f) \in Nat
      BY <3>1, ModParts
    <3>3. QED
      BY <1>2, <3>2
  <2> HIDE DEF q
  <2>2. q # 0
    <3>1. f * 0 = 0
      OBVIOUS
    <3>2. QED
      BY <2>1, <3>1
  <2>3. q + q <= m
    <3>1. PICK b \in Nat : f = 2 + b
      <4>1. f - 2 \in Nat /\ f = 2 + (f - 2)
        OBVIOUS
      <4>2. QED
        BY <4>1
    <3>2. (2 + b) * q = q + q + b * q /\ b * q \in Nat
      BY <2>1
    <3>3. QED
      BY <2>1, <3>1, <3>2
  <2>4. q \in 1..n /\ q + f < m + f
    BY <2>1, <2>2, <2>3
  <2>5. QED
    BY <1>1, <2>1, <2>4, Zenon DEF q
<1>3. QED
  BY <1>1, <1>2, Zenon

SameUpto(n, top, d, F, G) == \A p \in Upto(n, top, d) : F[p] = G[p]

\* A step looks at smaller pairs only.
LEMMA FactorReads ==
  ASSUME NEW n \in Nat, NEW top \in Nat, NEW d \in Nat, NEW m \in 1..n, NEW f \in 1..top, m + f <= d + 1,
         NEW F, NEW G, SameUpto(n, top, d, F, G)
  PROVE  FactorBody(F, m, f) = FactorBody(G, m, f)
<1>1. CASE f = 1
  BY <1>1, Zenon DEF FactorBody
<1>2. CASE f # 1
  <2>1. /\ f - 1 \in 1..top /\ m + (f - 1) < m + f
        /\ m % f = 0 => m \div f \in 1..n /\ (m \div f) + f < m + f
    BY <1>2, FactorDown, Zenon
  <2>2. <<m, f - 1>> \in Upto(n, top, d)
    BY <2>1 DEF Upto
  <2>3. ASSUME m % f = 0 PROVE <<m \div f, f>> \in Upto(n, top, d)
    <3> DEFINE q == m \div f
    <3>1. q \in 1..n /\ q + f < m + f
      BY <2>1, <2>3, Zenon
    <3> HIDE DEF q
    <3>2. <<q, f>> \in Upto(n, top, d)
      BY <3>1 DEF Upto
    <3>3. QED
      BY <3>2, Zenon DEF q
  <2>4. F[<<m, f - 1>>] = G[<<m, f - 1>>] /\ (m % f = 0 => F[<<m \div f, f>>] = G[<<m \div f, f>>])
    BY <2>2, <2>3, Zenon DEF SameUpto
  <2>5. QED
    BY <1>2, <2>4, Zenon DEF FactorBody
<1>3. QED
  BY <1>1, <1>2, Zenon

LEMMA FactorsExist ==
  ASSUME NEW n \in Nat, NEW top \in Nat, NEW d \in Nat
  PROVE  \E F : FactorsAt(n, top, d, F)
<1> DEFINE S == {k \in Nat : ~ \E F : FactorsAt(n, top, k, F)}
<1>1. ASSUME S # {} PROVE FALSE
  <2>1. S \in SUBSET Nat
    BY Zenon
  <2>2. PICK k \in S : \A y \in S : k <= y
    BY <1>1, <2>1, Least, Zenon
  <2>3. k \in Nat /\ ~ \E F : FactorsAt(n, top, k, F)
    BY Zenon
  <2>4. CASE k = 0
    <3> DEFINE F == [p \in {} |-> 0]
    <3>1. Upto(n, top, k) = {}
      BY <2>4 DEF Upto
    <3>2. FactorsAt(n, top, k, F)
      BY <3>1 DEF FactorsAt
    <3>3. QED
      BY <2>3, <3>2, Zenon
  <2>5. CASE k # 0
    <3>1. k - 1 \in Nat /\ ~(k <= k - 1) /\ k <= (k - 1) + 1
      BY <2>3, <2>5
    <3>2. PICK G : FactorsAt(n, top, k - 1, G)
      BY <2>2, <3>1, Zenon
    <3> DEFINE D == Upto(n, top, k)
               H == Upto(n, top, k - 1)
               F == [p \in D |-> IF p \in H THEN G[p] ELSE FactorBody(G, p[1], p[2])]
    <3>3. /\ H \subseteq D
          /\ \A p \in D : /\ p[1] \in 1..n /\ p[2] \in 1..top /\ p[1] + p[2] <= (k - 1) + 1
      BY <2>3, <3>1 DEF Upto
    <3>4. \A p \in H : G[p] = FactorBody(G, p[1], p[2])
      <4> HIDE DEF H
      <4>1. G = [p \in H |-> FactorBody(G, p[1], p[2])]
        BY <3>2, Zenon DEF FactorsAt, H
      <4>2. QED
        BY <4>1, Zenon
    <3> HIDE DEF D
    <3>5. \A p \in D : F[p] = FactorBody(G, p[1], p[2])
      <4> HIDE DEF H
      <4>1. QED
        BY <3>4, Zenon
    <3>6. \A p \in H : G[p] = F[p]
      <4> HIDE DEF H, F
      <4>1. QED
        BY <3>3, <3>4, <3>5, Zenon
    <3>7. F = [p \in D |-> F[p]]
      BY Zenon
    <3> HIDE DEF F
    <3>8. ASSUME NEW p \in D PROVE F[p] = FactorBody(F, p[1], p[2])
      <4>1. p[1] \in 1..n /\ p[2] \in 1..top /\ p[1] + p[2] <= (k - 1) + 1
        BY <3>3, Zenon
      <4>2. \A u \in Upto(n, top, k - 1) : G[u] = F[u]
        BY <3>6, Zenon
      <4>3. FactorBody(G, p[1], p[2]) = FactorBody(F, p[1], p[2])
        <5> DEFINE c == k - 1
                   m == p[1]
                   f == p[2]
        <5>1. c \in Nat /\ m \in 1..n /\ f \in 1..top /\ m + f <= c + 1 /\ SameUpto(n, top, c, G, F)
          BY <3>1, <4>1, <4>2, Zenon DEF SameUpto
        <5> HIDE DEF c, m, f
        <5>2. FactorBody(G, m, f) = FactorBody(F, m, f)
          BY <5>1, FactorReads
        <5>3. QED
          BY <5>2, Zenon DEF m, f
      <4>4. QED
        BY <3>5, <4>3, Zenon
    <3>9. FactorsAt(n, top, k, F)
      <4>1. F = [p \in D |-> FactorBody(F, p[1], p[2])]
        BY <3>7, <3>8, Zenon
      <4>2. QED
        BY <4>1, Zenon DEF FactorsAt, D
    <3>10. QED
      BY <2>3, <3>9, Zenon
  <2>6. QED
    BY <2>4, <2>5, Zenon
<1>2. QED
  BY <1>1, Zenon

LEMMA FactorsFromIs ==
  ASSUME NEW n \in Nat \ {0}, NEW top \in Nat \ {0}
  PROVE  \E F : /\ FactorsFrom(n, top) = F[<<n, top>>]
                /\ \A m \in 1..n, f \in 1..top : F[<<m, f>>] = FactorBody(F, m, f)
<1> DEFINE S == (1..n) \X (1..top)
           Body(F, p) == FactorBody(F, p[1], p[2])
           F == CHOOSE F : F = [p \in S |-> Body(F, p)]
<1>1. FactorsFrom(n, top) = F[<<n, top>>]
  BY Zenon DEF FactorsFrom, FactorBody
<1>2. \E G : G = [p \in S |-> Body(G, p)]
  <2>1. Upto(n, top, n + top) = S
    BY DEF Upto
  <2>2. n + top \in Nat
    OBVIOUS
  <2>3. PICK G : FactorsAt(n, top, n + top, G)
    BY <2>2, FactorsExist, SMT
  <2>4. G = [p \in S |-> Body(G, p)]
    <3> HIDE DEF S
    <3>1. QED
      BY <2>1, <2>3, Zenon DEF FactorsAt
  <2>5. QED
    BY <2>4, Zenon
<1>3. F = [p \in S |-> Body(F, p)]
  <2> HIDE DEF S, Body
  <2>1. QED
    BY <1>2, Zenon
<1> HIDE DEF F
<1>4. ASSUME NEW m \in 1..n, NEW f \in 1..top PROVE F[<<m, f>>] = FactorBody(F, m, f)
  <2> DEFINE p == <<m, f>>
  <2>1. p \in S /\ p[1] = m /\ p[2] = f
    OBVIOUS
  <2> HIDE DEF S, p
  <2>2. F[p] = Body(F, p)
    BY <1>3, <2>1, Zenon
  <2>3. QED
    BY <2>1, <2>2, Zenon DEF p
<1>5. QED
  BY <1>1, <1>4, Zenon

\* The factors fs of m and the rest r: P[j] is the product of the first j
\* factors, R[j] what is left behind them.
Runs(m, fs, r, P, R) ==
  /\ fs \in Seq(Extents) /\ r \in Extents
  /\ P \in [0..Len(fs) -> Extents] /\ R \in [0..Len(fs) -> Extents]
  /\ P[0] = 1 /\ R[Len(fs)] = r
  /\ \A j \in 1..Len(fs) : P[j] = P[j - 1] * fs[j]
  /\ \A j \in 0..Len(fs) : P[j] * R[j] = m
FactorsOf(m, res) == \E fs, r, P, R : res = <<fs, r>> /\ Runs(m, fs, r, P, R)

LEMMA Times ==
  /\ \A a, b \in Extents : a * b \in Extents
  /\ \A a, b, c \in Extents : (a * b) * c = a * (b * c)
  /\ \A a \in Extents : 1 * a = a /\ a * 1 = a
<1>1. \A a, b, c \in Nat : (a * b) * c = a * (b * c)
  OBVIOUS
<1>2. \A a \in Nat : 1 * a = a /\ a * 1 = a
  OBVIOUS
<1>3. \A a, b \in Nat : a * b \in Nat /\ (a * b = 0 => a = 0 \/ b = 0)
  OBVIOUS
<1>4. QED
  BY <1>1, <1>2, <1>3, Zenon DEF Extents

LEMMA OneMore ==
  ASSUME NEW m \in Extents, NEW f \in Extents, NEW q \in Extents, m = f * q,
         NEW fs, NEW r, NEW P, NEW R, Runs(q, fs, r, P, R)
  PROVE  FactorsOf(m, <<<<f>> \o fs, r>>)
<1> DEFINE N == Len(fs)
           gs == <<f>> \o fs
           A == [j \in 0..N + 1 |-> IF j = 0 THEN 1 ELSE f * P[j - 1]]
           B == [j \in 0..N + 1 |-> IF j = 0 THEN m ELSE R[j - 1]]
<1>1. /\ fs \in Seq(Extents) /\ r \in Extents
      /\ \A j \in 0..N : P[j] \in Extents /\ R[j] \in Extents
      /\ P[0] = 1 /\ R[N] = r
      /\ \A j \in 1..N : P[j] = P[j - 1] * fs[j]
      /\ \A j \in 0..N : P[j] * R[j] = q
  BY Zenon DEF Runs
<1>2. N \in Nat /\ \A j \in 1..N : fs[j] \in Extents
  BY <1>1, ElementOfSeq
<1>3. /\ gs \in Seq(Extents) /\ Len(gs) = N + 1 /\ gs[1] = f
      /\ \A j \in 2..N + 1 : gs[j] = fs[j - 1]
  BY <1>1, <1>2, SMT
<1>4. 1 \in Extents
  BY DEF Extents
<1>5. \A j \in 1..N + 1 : j # 0 /\ j \in 0..N + 1 /\ j - 1 \in 0..N /\ j - 1 \in 0..N + 1
  BY <1>2
<1>6. \A j \in 2..N + 1 : j \in 1..N + 1 /\ j - 1 # 0 /\ j - 1 \in 1..N /\ j - 1 \in 0..N + 1 /\ (j - 1) - 1 \in 0..N
  BY <1>2
<1>7. \A j \in 0..N + 1 : j = 0 \/ j \in 1..N + 1
  BY <1>2
<1>8. \A j \in 1..N + 1 : j = 1 \/ j \in 2..N + 1
  BY <1>2
<1>9. 0 \in 0..N + 1 /\ N + 1 \in 1..N + 1 /\ 1 \in 1..N + 1 /\ (N + 1) - 1 = N /\ 1 - 1 = 0
  BY <1>2
<1> HIDE DEF gs, N
<1>10. A[0] = 1 /\ B[0] = m /\ \A j \in 1..N + 1 : A[j] = f * P[j - 1] /\ B[j] = R[j - 1]
  BY <1>5, <1>9, Zenon
<1>11. A \in [0..N + 1 -> Extents] /\ B \in [0..N + 1 -> Extents]
  <2>1. ASSUME NEW j \in 0..N + 1
        PROVE  /\ (IF j = 0 THEN 1 ELSE f * P[j - 1]) \in Extents
               /\ (IF j = 0 THEN m ELSE R[j - 1]) \in Extents
    BY <1>1, <1>4, <1>5, <1>7, Times, Zenon
  <2>2. QED
    BY <2>1, Zenon
<1> HIDE DEF A, B
<1>12. \A j \in 1..N + 1 : A[j] = A[j - 1] * gs[j]
  <2> TAKE j \in 1..N + 1
  <2>1. CASE j = 1
    <3>1. A[1] = f * 1 /\ A[1 - 1] = 1 /\ gs[1] = f
      BY <1>1, <1>3, <1>9, <1>10, Zenon
    <3>2. f * 1 = 1 * f
      BY Times, Zenon
    <3>3. QED
      BY <2>1, <3>1, <3>2, Zenon
  <2>2. CASE j \in 2..N + 1
    <3> DEFINE k == j - 1
               l == k - 1
    <3>1. k \in 1..N /\ k \in 1..N + 1 /\ k \in 0..N /\ l \in 0..N
      BY <1>2, <2>2
    <3> HIDE DEF k, l
    <3>2. A[j] = f * P[k] /\ gs[j] = fs[k]
      BY <1>3, <1>10, <2>2, Zenon DEF k
    <3>3. A[k] = f * P[l] /\ P[k] = P[l] * fs[k]
      BY <1>1, <1>10, <3>1, Zenon DEF l
    <3>4. (f * P[l]) * fs[k] = f * (P[l] * fs[k])
      <4>1. P[l] \in Extents /\ fs[k] \in Extents
        BY <1>1, <1>2, <3>1, Zenon
      <4>2. \A b, c \in Extents : (f * b) * c = f * (b * c)
        BY Times, Zenon
      <4>3. QED
        BY <4>1, <4>2, Zenon
    <3>5. QED
      BY <3>2, <3>3, <3>4, Zenon DEF k
  <2>3. QED
    BY <1>8, <2>1, <2>2, Zenon
<1>13. \A j \in 0..N + 1 : A[j] * B[j] = m
  <2> TAKE j \in 0..N + 1
  <2>1. CASE j = 0
    BY <1>10, <2>1, Times, Zenon
  <2>2. CASE j \in 1..N + 1
    <3> DEFINE k == j - 1
    <3>1. k \in 0..N /\ A[j] = f * P[k] /\ B[j] = R[k]
      BY <1>5, <1>10, <2>2, Zenon
    <3> HIDE DEF k
    <3>2. (f * P[k]) * R[k] = f * (P[k] * R[k])
      BY <1>1, <3>1, Times, ZenonT(60)
    <3>3. P[k] * R[k] = q
      BY <1>1, <3>1, Zenon
    <3>4. QED
      BY <3>1, <3>2, <3>3, Zenon
  <2>3. QED
    BY <1>7, <2>1, <2>2, Zenon
<1>14. B[N + 1] = r
  BY <1>1, <1>9, <1>10, Zenon
<1>15. Runs(m, gs, r, A, B)
  BY <1>1, <1>3, <1>10, <1>11, <1>12, <1>13, <1>14, Zenon DEF Runs
<1>16. QED
  BY <1>15, Zenon DEF FactorsOf, gs

LEMMA NoFactor ==
  ASSUME NEW m \in Extents
  PROVE  FactorsOf(m, <<<<>>, m>>)
<1> DEFINE P == [j \in 0..0 |-> 1]
           R == [j \in 0..0 |-> m]
           fs == <<>>
<1>1. fs \in Seq(Extents) /\ Len(fs) = 0
  OBVIOUS
<1>2. 1 \in Extents /\ 0 \in 0..0 /\ \A j \in 0..0 : j = 0
  BY DEF Extents
<1>3. 1..0 = {}
  OBVIOUS
<1>4. P \in [0..0 -> Extents] /\ R \in [0..0 -> Extents] /\ P[0] = 1 /\ R[0] = m
  BY <1>2, Zenon
<1> HIDE DEF P, R, fs
<1>5. \A j \in 0..0 : P[j] * R[j] = m
  BY <1>2, <1>4, Times, Zenon
<1>6. Runs(m, fs, m, P, R)
  BY <1>1, <1>3, <1>4, <1>5, Zenon DEF Runs
<1>7. QED
  BY <1>6, Zenon DEF FactorsOf, fs

\* factorize_into splits a number: factors and rest multiply to it.
LEMMA FactorizeIs ==
  ASSUME NEW n \in Extents
  PROVE  FactorsOf(n, Factorize(n))
<1> DEFINE top == MaxWindow
<1>1. n \in Nat \ {0} /\ top \in Nat \ {0}
  BY WindowAssumption, Zenon DEF Extents
<1>2. PICK F : /\ FactorsFrom(n, top) = F[<<n, top>>]
               /\ \A m \in 1..n, f \in 1..top : F[<<m, f>>] = FactorBody(F, m, f)
  BY <1>1, FactorsFromIs, Zenon
<1> DEFINE Bad(m, f) == ~FactorsOf(m, F[<<m, f>>])
           S == {d \in Nat : \E m \in 1..n, f \in 1..top : m + f = d /\ Bad(m, f)}
<1> HIDE DEF top, Bad
<1>3. ASSUME NEW m \in 1..n, NEW f \in 1..top,
             \A a \in 1..n, b \in 1..top : a + b < m + f => ~Bad(a, b)
      PROVE  ~Bad(m, f)
  <2>1. m \in Extents /\ f \in Extents /\ n \in Nat /\ top \in Nat
    BY <1>1 DEF Extents
  <2>2. F[<<m, f>>] = FactorBody(F, m, f)
    BY <1>2, Zenon
  <2>3. CASE f = 1
    <3>1. F[<<m, f>>] = <<<<>>, m>>
      BY <2>2, <2>3, Zenon DEF FactorBody
    <3>2. QED
      BY <2>1, <3>1, NoFactor, Zenon DEF Bad
  <2>4. CASE f # 1 /\ m % f # 0
    <3>1. F[<<m, f>>] = F[<<m, f - 1>>]
      BY <2>2, <2>4, Zenon DEF FactorBody
    <3>2. f - 1 \in 1..top /\ m + (f - 1) < m + f
      BY <2>1, <2>4, FactorDown, Zenon
    <3>3. ~Bad(m, f - 1)
      BY <1>3, <3>2, Zenon
    <3>4. QED
      BY <3>1, <3>3, Zenon DEF Bad
  <2>5. CASE f # 1 /\ m % f = 0
    <3> DEFINE q == m \div f
               u == F[<<q, f>>]
    <3>1. F[<<m, f>>] = <<<<f>> \o u[1], u[2]>>
      BY <2>2, <2>5, Zenon DEF FactorBody
    <3>2. q \in 1..n /\ q + f < m + f /\ m = f * q
      BY <2>1, <2>5, FactorDown
    <3> HIDE DEF q
    <3>3. FactorsOf(q, u)
      BY <1>3, <3>2, Zenon DEF Bad
    <3> HIDE DEF u
    <3>4. PICK fs, r, P, R : u = <<fs, r>> /\ Runs(q, fs, r, P, R)
      BY <3>3, Zenon DEF FactorsOf
    <3>5. u[1] = fs /\ u[2] = r /\ q \in Extents
      BY <2>1, <3>2, <3>4 DEF Extents
    <3>6. FactorsOf(m, <<<<f>> \o fs, r>>)
      BY <2>1, <3>2, <3>4, <3>5, OneMore, Zenon
    <3>7. QED
      BY <3>1, <3>5, <3>6, Zenon DEF Bad
  <2>6. QED
    BY <2>3, <2>4, <2>5, Zenon
<1>4. ASSUME S # {} PROVE FALSE
  <2>1. S \in SUBSET Nat
    BY Zenon
  <2>2. PICK d \in S : \A e \in S : d <= e
    BY <1>4, <2>1, Least, Zenon
  <2>3. PICK m \in 1..n, f \in 1..top : m + f = d /\ Bad(m, f)
    BY <2>2, Zenon
  <2>4. ASSUME NEW a \in 1..n, NEW b \in 1..top, a + b < m + f PROVE ~Bad(a, b)
    <3>1. a + b \in Nat /\ ~(d <= a + b)
      BY <1>1, <2>3, <2>4
    <3>2. a + b \notin S
      BY <2>2, <3>1, Zenon
    <3>3. QED
      BY <3>1, <3>2, Zenon
  <2>5. QED
    BY <1>3, <2>3, <2>4, Zenon
<1>5. n \in 1..n /\ top \in 1..top /\ n + top \in Nat
  BY <1>1
<1>6. ~Bad(n, top)
  BY <1>4, <1>5, Zenon
<1>7. QED
  BY <1>2, <1>6, Zenon DEF Factorize, Bad, top

\* The q-th of the stages: a factor, or 1 where the other axis has more, and at
\* last the rest.
StepOf(fs, r, S, q) == IF q <= S THEN IF q <= Len(fs) THEN fs[q] ELSE 1 ELSE r
Steps(m, fs, r, S, M, Q) ==
  /\ Q \in [0..M -> Extents] /\ Q[0] = 1 /\ Q[M] = m
  /\ \A q \in 1..M : /\ StepOf(fs, r, S, q) \in Extents
                     /\ Q[q] = Q[q - 1] * StepOf(fs, r, S, q) /\ Q[q] <= m

LEMMA Divides ==
  ASSUME NEW a \in Extents, NEW b \in Extents
  PROVE  a <= a * b
<1>1. PICK c \in Nat : b = 1 + c
  <2>1. b - 1 \in Nat /\ b = 1 + (b - 1)
    BY DEF Extents
  <2>2. QED
    BY <2>1, Zenon
<1>2. a \in Nat /\ a * (1 + c) = a + a * c /\ a * c \in Nat
  BY DEF Extents
<1>3. QED
  BY <1>1, <1>2

LEMMA StepsExist ==
  ASSUME NEW m \in Extents, NEW fs, NEW r, NEW P, NEW R, Runs(m, fs, r, P, R),
         NEW S \in Nat, Len(fs) <= S, NEW M \in {S, S + 1}, M = S => r = 1
  PROVE  \E Q : Steps(m, fs, r, S, M, Q)
<1> DEFINE N == Len(fs)
           At(q) == IF q <= N THEN P[q] ELSE IF q <= S THEN P[N] ELSE m
           Q == [q \in 0..M |-> At(q)]
<1>1. /\ fs \in Seq(Extents) /\ r \in Extents
      /\ \A j \in 0..N : P[j] \in Extents /\ R[j] \in Extents
      /\ P[0] = 1 /\ R[N] = r
      /\ \A j \in 1..N : P[j] = P[j - 1] * fs[j]
      /\ \A j \in 0..N : P[j] * R[j] = m
  BY Zenon DEF Runs
<1>2. N \in Nat /\ N <= S /\ \A j \in 1..N : fs[j] \in Extents
  BY <1>1, ElementOfSeq
<1> HIDE DEF N
<1>3. N \in 0..N /\ 0 <= N /\ 0 \in 0..M /\ M \in 0..M /\ M \in Nat /\ 1 \in Extents
  BY <1>2 DEF Extents
<1>4. ASSUME NEW q \in 0..M PROVE Q[q] = At(q) /\ At(q) \in Extents /\ At(q) <= m
  <2>1. q <= N => q \in 0..N
    BY <1>2
  <2>2. \A j \in 0..N : P[j] \in Extents /\ P[j] <= m
    <3> TAKE j \in 0..N
    <3>1. P[j] \in Extents /\ R[j] \in Extents /\ P[j] * R[j] = m
      BY <1>1, Zenon
    <3>2. P[j] <= P[j] * R[j]
      BY <3>1, Divides, Zenon
    <3>3. QED
      BY <3>1, <3>2, Zenon
  <2>3. m <= m
    BY DEF Extents
  <2>4. QED
    BY <1>3, <2>1, <2>2, <2>3, Zenon
<1>5. Q \in [0..M -> Extents]
  BY <1>4, Zenon
<1> HIDE DEF Q
<1>6. P[N] * r = m
  BY <1>1, <1>3, Zenon
<1>7. Q[0] = 1
  BY <1>1, <1>3, <1>4, Zenon
<1>8. ASSUME M = S PROVE P[N] = m
  <2>1. P[N] \in Extents /\ r = 1
    BY <1>1, <1>3, <1>8, Zenon
  <2>2. QED
    BY <1>6, <2>1, Times, Zenon
<1>9. Q[M] = m
  <2>1. Q[M] = At(M)
    BY <1>3, <1>4, Zenon
  <2>2. CASE M = S
    <3>1. M <= N => M = N
      BY <1>2, <2>2
    <3>2. M <= S
      BY <2>2
    <3>3. QED
      BY <1>8, <2>1, <2>2, <3>1, <3>2, Zenon
  <2>3. CASE M # S
    <3>1. ~(M <= N) /\ ~(M <= S)
      BY <1>2, <2>3
    <3>2. QED
      BY <2>1, <3>1, Zenon
  <2>4. QED
    BY <2>2, <2>3, Zenon
<1>10. ASSUME NEW q \in 1..M
       PROVE  /\ StepOf(fs, r, S, q) \in Extents
              /\ Q[q] = Q[q - 1] * StepOf(fs, r, S, q) /\ Q[q] <= m
  <2>1. q \in 0..M /\ q - 1 \in 0..M /\ q \in Nat
    BY <1>3
  <2>2. Q[q] = At(q) /\ Q[q] <= m /\ Q[q - 1] = At(q - 1)
    <3> HIDE DEF At
    <3>1. QED
      BY <1>4, <2>1, Zenon
  <2>3. CASE q <= N
    <3>1. q <= S /\ q \in 1..N /\ q - 1 <= N
      BY <1>2, <2>1, <2>3
    <3>2. StepOf(fs, r, S, q) = fs[q] /\ fs[q] \in Extents
      BY <1>2, <2>3, <3>1, Zenon DEF StepOf, N
    <3>3. Q[q] = P[q] /\ Q[q - 1] = P[q - 1]
      BY <2>2, <2>3, <3>1, Zenon
    <3>4. P[q] = P[q - 1] * fs[q]
      BY <1>1, <3>1, Zenon
    <3>5. QED
      BY <2>2, <3>2, <3>3, <3>4, Zenon
  <2>4. CASE ~(q <= N) /\ q <= S
    <3>1. StepOf(fs, r, S, q) = 1
      BY <2>4, Zenon DEF StepOf, N
    <3>2. q - 1 <= S /\ (q - 1 <= N => q - 1 = N)
      BY <1>2, <2>1, <2>4
    <3>3. Q[q] = P[N] /\ Q[q - 1] = P[N] /\ P[N] \in Extents
      BY <1>1, <1>3, <2>2, <2>4, <3>2, Zenon
    <3>4. QED
      BY <1>3, <2>2, <3>1, <3>3, Times, Zenon
  <2>5. CASE ~(q <= S)
    <3>1. StepOf(fs, r, S, q) = r
      BY <2>5, Zenon DEF StepOf
    <3>2. ~(q <= N) /\ q - 1 <= S /\ (q - 1 <= N => q - 1 = N)
      BY <1>2, <2>1, <2>5
    <3>3. Q[q] = m /\ Q[q - 1] = P[N]
      BY <2>2, <2>5, <3>2, Zenon
    <3>4. QED
      BY <1>1, <1>6, <2>2, <3>1, <3>3, Zenon
  <2>6. QED
    BY <2>3, <2>4, <2>5, Zenon
<1>11. QED
  BY <1>5, <1>7, <1>9, <1>10, Zenon DEF Steps

\* The q-th node of a cascade of M in place of n.
Before(n, q) == IF q = 1 THEN n.ins[1] ELSE Stage(n, q - 1)
After(n, M, q) == IF q = M THEN n.out ELSE Stage(n, q)
IsStage(m, n, M, q, k) ==
  /\ m.op \in {"AveragePool", "MeanConv"} /\ DOMAIN m = {"op", "ins", "out", "k", "s"}
  /\ m.ins = <<Before(n, q)>> /\ m.out = After(n, M, q) /\ m.k = k /\ m.s = k

CascadeParts(new, n, hf, hr, wf, wr, S, M) ==
  /\ S \in Nat /\ Len(hf) <= S /\ Len(wf) <= S /\ M \in {S, S + 1} /\ (M = S => hr = 1 /\ wr = 1)
  /\ (S = Len(hf) \/ S = Len(wf))
  /\ new \in Seq(Range(new)) /\ Len(new) = M
  /\ \A q \in 1..M : IsStage(new[q], n, M, q, <<StepOf(hf, hr, S, q), StepOf(wf, wr, S, q)>>)

LEMMA CascadeIs ==
  ASSUME NEW n, NEW hf, NEW hr, NEW wf, NEW wr, Len(hf) \in Nat, Len(wf) \in Nat
  PROVE  \E S, M : CascadeParts(Cascade(n, <<hf, hr>>, <<wf, wr>>), n, hf, hr, wf, wr, S, M)
<1> DEFINE S == IF Len(hf) > Len(wf) THEN Len(hf) ELSE Len(wf)
           left == <<hr, wr>>
           M == IF left = <<1, 1>> THEN S ELSE S + 1
           Src(j) == IF j = 1 THEN n.ins[1] ELSE Stage(n, j - 1)
           Dst(j) == IF j = S /\ left = <<1, 1>> THEN n.out ELSE Stage(n, j)
           K(j) == <<StepOf(hf, hr, S, j), StepOf(wf, wr, S, j)>>
           Pool(j) == [op |-> "AveragePool", ins |-> <<Src(j)>>, out |-> Dst(j), k |-> K(j), s |-> K(j)]
           a == [j \in 1..S |-> Pool(j)]
           last == [op |-> "MeanConv", ins |-> <<Src(S + 1)>>, out |-> n.out, k |-> left, s |-> left]
           b == IF left = <<1, 1>> THEN <<>> ELSE <<last>>
           new == Cascade(n, <<hf, hr>>, <<wf, wr>>)
<1>1. S \in Nat /\ Len(hf) <= S /\ Len(wf) <= S /\ (S = Len(hf) \/ S = Len(wf))
  OBVIOUS
<1>2. new = a \o b
  <2> DEFINE h == <<hf, hr>>
             w == <<wf, wr>>
             factor(f, j) == IF j <= Len(f) THEN f[j] ELSE 1
             k(j) == <<factor(hf, j), factor(wf, j)>>
             Pool2(j) == [op |-> "AveragePool", ins |-> <<Src(j)>>, out |-> Dst(j), k |-> k(j), s |-> k(j)]
  <2>1. h[1] = hf /\ h[2] = hr /\ w[1] = wf /\ w[2] = wr
    OBVIOUS
  <2>2. new = [j \in 1..S |-> Pool2(j)] \o b
    <3> HIDE DEF h, w
    <3>1. Cascade(n, h, w) = [j \in 1..S |-> Pool2(j)] \o b
      BY <2>1, Zenon DEF Cascade, MeanConv
    <3>2. QED
      BY <3>1, Zenon DEF h, w
  <2>3. \A j \in 1..S : k(j) = K(j)
    <3>1. \A j \in 1..S : j <= S
      BY <1>1
    <3>2. QED
      BY <3>1, Zenon DEF StepOf
  <2> HIDE DEF k, K, S, b, new
  <2>4. [j \in 1..S |-> Pool2(j)] = a
    BY <2>3, Zenon
  <2>5. QED
    BY <2>2, <2>4, Zenon
<1>3. \A j \in 1..S : IsStage(Pool(j), n, M, j, K(j))
  <2> TAKE j \in 1..S
  <2>1. /\ Pool(j).op = "AveragePool" /\ DOMAIN Pool(j) = {"op", "ins", "out", "k", "s"}
        /\ Pool(j).ins = <<Src(j)>> /\ Pool(j).out = Dst(j) /\ Pool(j).k = K(j) /\ Pool(j).s = K(j)
    <3> DEFINE u == Src(j)
               v == Dst(j)
               z == K(j)
    <3> HIDE DEF u, v, z
    <3>1. LET p == [op |-> "AveragePool", ins |-> <<u>>, out |-> v, k |-> z, s |-> z]
          IN /\ p.op = "AveragePool" /\ DOMAIN p = {"op", "ins", "out", "k", "s"}
             /\ p.ins = <<u>> /\ p.out = v /\ p.k = z /\ p.s = z
      OBVIOUS
    <3>2. QED
      BY <3>1, Zenon DEF u, v, z
  <2>2. Dst(j) = After(n, M, j)
    <3>1. j # S + 1
      BY <1>1
    <3> HIDE DEF S
    <3>2. QED
      BY <3>1, Zenon DEF After
  <2> HIDE DEF Pool, M, K
  <2>3. QED
    BY <2>1, <2>2, Zenon DEF IsStage, Before
<1>4. IsStage(last, n, S + 1, S + 1, K(S + 1))
  <2>1. K(S + 1) = left
    <3>1. ~(S + 1 <= S)
      BY <1>1
    <3>2. QED
      BY <3>1, Zenon DEF StepOf
  <2>2. /\ last.op = "MeanConv" /\ DOMAIN last = {"op", "ins", "out", "k", "s"}
        /\ last.ins = <<Src(S + 1)>> /\ last.out = n.out /\ last.k = left /\ last.s = left
    <3> DEFINE u == Src(S + 1)
               v == n.out
    <3> HIDE DEF u, v, left
    <3>1. LET p == [op |-> "MeanConv", ins |-> <<u>>, out |-> v, k |-> left, s |-> left]
          IN /\ p.op = "MeanConv" /\ DOMAIN p = {"op", "ins", "out", "k", "s"}
             /\ p.ins = <<u>> /\ p.out = v /\ p.k = left /\ p.s = left
      OBVIOUS
    <3>2. QED
      BY <3>1, Zenon DEF u, v
  <2> HIDE DEF last, K, S, left
  <2>3. QED
    BY <2>1, <2>2, Zenon DEF IsStage, Before, After
<1>5. (left = <<1, 1>>) <=> (hr = 1 /\ wr = 1)
  OBVIOUS
<1> HIDE DEF S, Pool, last, left, K
<1>6. a \in Seq(Range(a)) /\ Len(a) = S /\ DOMAIN a = 1..S /\ \A j \in 1..S : a[j] = Pool(j)
  <2>1. DOMAIN a = 1..S /\ \A j \in 1..S : a[j] = Pool(j)
    BY Zenon
  <2>2. a \in [1..S -> Range(a)]
    <3>1. \A j \in 1..S : a[j] \in Range(a)
      BY <2>1, Zenon DEF Range
    <3>2. a = [j \in 1..S |-> a[j]]
      BY Zenon
    <3> HIDE DEF a
    <3>3. QED
      BY <3>1, <3>2, Zenon
  <2> HIDE DEF a
  <2>3. a \in Seq(Range(a))
    BY <1>1, <2>2, SeqDef, Zenon
  <2>4. Len(a) = S
    BY <1>1, <2>1, <2>3, ElementOfSeq
  <2>5. QED
    BY <2>1, <2>3, <2>4, Zenon
<1> HIDE DEF a
<1>7. CASE left = <<1, 1>>
  <2>1. M = S /\ b = <<>>
    BY <1>7, Zenon
  <2>2. new = a
    <3>1. a \o <<>> = a
      BY <1>6, SMT
    <3>2. QED
      BY <1>2, <2>1, <3>1, Zenon
  <2> HIDE DEF M, new
  <2>3. CascadeParts(new, n, hf, hr, wf, wr, S, M)
    BY <1>1, <1>3, <1>5, <1>6, <1>7, <2>1, <2>2, Zenon DEF CascadeParts, K
  <2>4. QED
    BY <2>3, Zenon DEF new
<1>8. CASE left # <<1, 1>>
  <2>1. M = S + 1 /\ b = <<last>>
    BY <1>8, Zenon
  <2>2. new = a \o <<last>>
    BY <1>2, <2>1, Zenon
  <2> HIDE DEF M, new
  <2>3. /\ new \in Seq(Range(new)) /\ Len(new) = S + 1 /\ new[S + 1] = last
        /\ \A j \in 1..S : new[j] = Pool(j)
    <3> DEFINE T == Range(a) \cup {last}
    <3>1. a \in Seq(T) /\ <<last>> \in Seq(T)
      <4>1. \A j \in 1..S : a[j] \in T
        BY <1>6, Zenon DEF Range
      <4>2. last \in T
        BY Zenon
      <4>3. a = [j \in 1..S |-> a[j]]
        BY <1>6, ElementOfSeq
      <4> HIDE DEF T
      <4>4. a \in [1..S -> T]
        BY <4>1, <4>3, Zenon
      <4>5. a \in Seq(T)
        BY <1>1, <4>4, SeqDef, Zenon
      <4>6. QED
        BY <4>2, <4>5
    <3> HIDE DEF T
    <3>2. new \in Seq(T) /\ Len(new) = S + 1 /\ new[S + 1] = last /\ \A j \in 1..S : new[j] = a[j]
      BY <1>1, <1>6, <2>2, <3>1, SMT
    <3>3. new \in Seq(Range(new))
      <4>1. DOMAIN new = 1..S + 1 /\ new = [j \in 1..S + 1 |-> new[j]]
        BY <3>2, ElementOfSeq
      <4>2. new \in [1..S + 1 -> Range(new)]
        <5>1. \A j \in 1..S + 1 : new[j] \in Range(new)
          BY <4>1, Zenon DEF Range
        <5>2. QED
          BY <4>1, <5>1, Zenon
      <4>3. S + 1 \in Nat
        BY <1>1
      <4>4. QED
        BY <4>2, <4>3, SeqDef, Zenon
    <3>4. QED
      BY <1>6, <3>2, <3>3, Zenon
  <2>4. ASSUME NEW q \in 1..M PROVE IsStage(new[q], n, M, q, K(q))
    <3>1. q \in 1..S \/ q = S + 1
      BY <1>1, <2>1
    <3>2. QED
      BY <1>3, <1>4, <2>1, <2>3, <3>1, Zenon
  <2>5. M # S
    BY <1>1, <2>1
  <2>6. CascadeParts(new, n, hf, hr, wf, wr, S, M)
    BY <1>1, <2>1, <2>3, <2>4, <2>5, Zenon DEF CascadeParts, K
  <2>7. QED
    BY <2>6, Zenon DEF new
<1>9. QED
  BY <1>7, <1>8, Zenon

-------------------------------------------------------------------------------
(* pool_decompose: the stages of a cascade.                                 *)

\* What is known of pool n, node i of graph g: it makes the window of its
\* input t.
PoolKnown(g, i, n, t, d, k, s) ==
  /\ InOrder(g) /\ i \in DOMAIN g.nodes /\ n = g.nodes[i]
  /\ 1 \in DOMAIN n.ins /\ Range(n.ins) \subseteq Made(g, i - 1) /\ {"op", "ins", "out"} \subseteq DOMAIN n
  /\ t = Env(g)[n.ins[1]] /\ k = Kernel(g, i) /\ s = Stride(g, i)
  /\ Env(g)[n.out] = Window(t, k, s)
  /\ MeansBy(t, d) /\ k \in [1..2 -> Extents] /\ s \in [1..2 -> Extents]
  /\ WindowFits(t, k[1], k[2])

LEMMA PoolMakes ==
  ASSUME NEW g, WellFormed(g), NEW i \in DOMAIN g.nodes, g.nodes[i].op \in PoolOps
  PROVE  LET t == Env(g)[g.nodes[i].ins[1]]
         IN PoolKnown(g, i, g.nodes[i], t, t.at[<<0, 0, 0>>].by, Kernel(g, i), Stride(g, i))
<1> DEFINE n == g.nodes[i]
           E == Env(g)
           t == E[n.ins[1]]
           d == t.at[<<0, 0, 0>>].by
           k == Kernel(g, i)
           s == Stride(g, i)
           whole == <<t.shape[2], t.shape[3]>>
<1>1. InOrder(g) /\ PoolsFit(g)
  BY Zenon DEF WellFormed
<1>2. 1 \in DOMAIN n.ins /\ Range(n.ins) \subseteq Made(g, i - 1) /\ {"op", "ins", "out"} \subseteq DOMAIN n
  <2>1. n.op \notin Layers
    BY SMT DEF PoolOps, Layers
  <2>2. 1 \in 1..1
    OBVIOUS
  <2>3. QED
    BY <1>1, <2>1, <2>2, Zenon DEF InOrder
<1>3. /\ t.shape \in Shape3 /\ d \in Nat /\ \A c \in Indices(t.shape) : t.at[c].by = d
      /\ k \in [1..2 -> Extents] /\ s \in [1..2 -> Extents]
      /\ k[1] <= t.shape[2] /\ k[2] <= t.shape[3]
  BY <1>1, Zenon DEF PoolsFit, Shape3
<1>4. E[n.out] = Value(n, E)
  BY <1>1, Solved, Zenon DEF Solves
<1>5. Value(n, E) = ValueFrom(t, n, E)
  BY Zenon DEF Value, Once
<1>6. t.shape[2] \in Nat \ {0} /\ t.shape[3] \in Nat \ {0}
  <2> HIDE DEF t
  <2>1. QED
    BY <1>3, Shape3Is, Zenon
<1>7. WindowFits(t, k[1], k[2])
  <2>1. k[1] \in Extents /\ k[2] \in Extents
    <3>1. 1 \in 1..2 /\ 2 \in 1..2
      OBVIOUS
    <3> HIDE DEF k
    <3>2. QED
      BY <1>3, <3>1
  <2> HIDE DEF k, t
  <2>2. QED
    BY <1>3, <1>6, <2>1 DEF WindowFits, Extents
<1>8. E[n.out] = Window(t, k, s)
  <2>1. CASE n.op = "AveragePool"
    <3>1. k = n.k /\ s = n.s
      BY <2>1, Zenon DEF Kernel, Stride
    <3>2. ValueFrom(t, n, E) = Window(t, n.k, n.s)
      <4> HIDE DEF t, E, n
      <4>1. QED
        BY <2>1 DEF ValueFrom
    <3> HIDE DEF t, E, n, k, s
    <3>3. QED
      BY <1>4, <1>5, <3>1, <3>2, Zenon
  <2>2. CASE n.op = "GlobalAveragePool"
    <3>1. k = whole /\ s = whole
      <4>1. "GlobalAveragePool" # "AveragePool"
        OBVIOUS
      <4>2. QED
        BY <2>2, <4>1, Zenon DEF Kernel, Stride
    <3>2. ValueFrom(t, n, E) = Window(t, whole, <<1, 1>>)
      <4> HIDE DEF t, E, n
      <4>1. QED
        BY <2>2 DEF ValueFrom
    <3>3. Window(t, whole, whole) = Window(t, whole, <<1, 1>>)
      <4>1. \A a \in 1..3 : t.shape[a] \in Extents
        BY <1>3, Zenon DEF Shape3
      <4>2. t.shape[2] \in Extents /\ t.shape[3] \in Extents
        BY <1>6, Zenon DEF Extents
      <4> HIDE DEF t
      <4>3. QED
        BY <4>1, <4>2, GlobalWindow
    <3> HIDE DEF t, E, n, k, s, whole
    <3>4. QED
      BY <1>4, <1>5, <3>1, <3>2, <3>3, Zenon
  <2>3. QED
    BY <2>1, <2>2, SMT DEF PoolOps
<1>9. MeansBy(t, d)
  BY <1>3, Zenon DEF MeansBy
<1>10. QED
  BY <1>1, <1>2, <1>3, <1>7, <1>8, <1>9, Zenon DEF PoolKnown

\* One node that makes the same of the pool's input takes its place.
LEMMA OneInstead ==
  ASSUME NEW g, InOrder(g), NEW i \in DOMAIN g.nodes, NEW m,
         m.op \in PoolLike, {"op", "ins", "out"} \subseteq DOMAIN m, 1 \in DOMAIN m.ins,
         Range(m.ins) \subseteq Made(g, i - 1), m.out = g.nodes[i].out, m.ins[1] = g.nodes[i].ins[1],
         PoolOf(m, Env(g)[m.ins[1]]) = Env(g)[g.nodes[i].out]
  PROVE  Meaning(Expanded(g, i, <<m>>)) = Meaning(g)
<1> DEFINE new == <<m>>
           v == <<Env(g)[g.nodes[i].out]>>
<1>1. Len(new) = 1 /\ new[1] = m /\ DOMAIN new = 1..1 /\ 1..Len(new) = {1} /\ 1 - 1 = 0
  OBVIOUS
<1>2. new \in Seq(Range(new))
  <2>1. m \in Range(new)
    BY <1>1, Zenon DEF Range
  <2> DEFINE T == Range(new)
  <2> HIDE DEF T
  <2>2. m \in T
    BY <2>1, Zenon DEF T
  <2>3. new \in Seq(T)
    BY <2>2
  <2>4. QED
    BY <2>3, Zenon DEF T
<1>3. Outs(new, 0) = {}
  <2>1. 1..0 = {}
    OBVIOUS
  <2>2. QED
    BY <2>1, Zenon DEF Outs
<1>4. v[1] = Env(g)[g.nodes[i].out]
  OBVIOUS
<1>5. m.op \in Ops \ Layers
  BY SMT DEF PoolLike, Ops, Layers
<1> HIDE DEF new, v
<1>6. Chain(g, i, new)
  <2>1. Len(new) # 0 /\ new[Len(new)].out = g.nodes[i].out
    BY <1>1
  <2>2. ASSUME NEW q \in 1..Len(new)
        PROVE  LET x == new[q] IN
               /\ x.op \in Ops \ Layers /\ {"op", "ins", "out"} \subseteq DOMAIN x /\ 1 \in DOMAIN x.ins
               /\ Range(x.ins) \subseteq Made(g, i - 1) \cup Outs(new, q - 1)
               /\ x.out \notin Outs(new, q - 1)
               /\ x.out \in Made(g, Len(g.nodes)) => x.out = g.nodes[i].out
    <3>1. q = 1 /\ q - 1 = 0
      BY <1>1
    <3>2. QED
      BY <1>1, <1>3, <1>5, <3>1, Zenon
  <2>3. QED
    BY <1>2, <2>1, <2>2, Zenon DEF Chain
<1>7. Linked(g, i, new, v)
  <2>1. ASSUME NEW q \in 1..Len(new)
        PROVE  /\ new[q].op \in PoolLike
               /\ q = 1 => /\ new[q].ins[1] = g.nodes[i].ins[1]
                           /\ v[q] = PoolOf(new[q], Env(g)[g.nodes[i].ins[1]])
               /\ q # 1 => /\ q - 1 \in 1..Len(new) /\ new[q].ins[1] = new[q - 1].out
                           /\ v[q] = PoolOf(new[q], v[q - 1])
    <3>1. q = 1
      BY <1>1
    <3>2. QED
      BY <1>1, <1>4, <3>1, Zenon
  <2>2. v[Len(new)] = Env(g)[g.nodes[i].out]
    BY <1>1, <1>4, Zenon
  <2>3. QED
    BY <2>1, <2>2, Zenon DEF Linked
<1>8. QED
  BY <1>6, <1>7, ChainKeeps, Zenon DEF new

LEMMA NamesApart ==
  ASSUME NEW o, Len(o) \in Nat, o = [a \in 1..Len(o) |-> o[a]]
  PROVE  /\ \A a : Append(o, a) # o
         /\ \A a, b : Append(o, a) = Append(o, b) => a = b
<1> DEFINE T == Range(o)
           L == Len(o)
<1>1. o \in Seq(T)
  <2>1. DOMAIN o = 1..L
    BY Zenon
  <2>2. \A a \in 1..L : o[a] \in T
    BY <2>1, Zenon DEF Range
  <2>3. o \in [1..L -> T]
    <3> HIDE DEF T, L
    <3>1. o = [a \in 1..L |-> o[a]]
      BY Zenon DEF L
    <3>2. QED
      BY <2>2, <3>1, Zenon
  <2>4. QED
    BY <2>3, SeqDef, Zenon
<1>2. ASSUME NEW a PROVE Len(Append(o, a)) = L + 1 /\ Append(o, a)[L + 1] = a
  <2> DEFINE U == T \cup {a}
  <2>1. o \in Seq(U)
    <3>1. T \subseteq U
      OBVIOUS
    <3> HIDE DEF T, U
    <3>2. QED
      BY <1>1, <3>1
  <2>2. a \in U
    OBVIOUS
  <2> HIDE DEF U
  <2>3. QED
    BY <2>1, <2>2
<1>3. L # L + 1
  <2>1. L \in Nat
    OBVIOUS
  <2> HIDE DEF L
  <2>2. QED
    BY <2>1
<1>4. QED
  BY <1>2, <1>3, Zenon

\* Both axes of a cascade: after stage q the windows are Q1[q] by Q2[q].
CascadeOf(new, n, k1, k2, hf, hr, wf, wr, S, M, Q1, Q2) ==
  /\ CascadeParts(new, n, hf, hr, wf, wr, S, M)
  /\ Steps(k1, hf, hr, S, M, Q1) /\ Steps(k2, wf, wr, S, M, Q2)

LEMMA CascadeSteps ==
  ASSUME NEW n, NEW k1 \in Extents, NEW k2 \in Extents
  PROVE  \E hf, hr, wf, wr, S, M, Q1, Q2 :
           CascadeOf(Cascade(n, Factorize(k1), Factorize(k2)), n, k1, k2, hf, hr, wf, wr, S, M, Q1, Q2)
<1>1. PICK hf, hr, hP, hR : Factorize(k1) = <<hf, hr>> /\ Runs(k1, hf, hr, hP, hR)
  BY FactorizeIs, Zenon DEF FactorsOf
<1>2. PICK wf, wr, wP, wR : Factorize(k2) = <<wf, wr>> /\ Runs(k2, wf, wr, wP, wR)
  BY FactorizeIs, Zenon DEF FactorsOf
<1>3. Len(hf) \in Nat /\ Len(wf) \in Nat
  <2>1. hf \in Seq(Extents) /\ wf \in Seq(Extents)
    BY <1>1, <1>2, Zenon DEF Runs
  <2>2. QED
    BY <2>1
<1> DEFINE new == Cascade(n, <<hf, hr>>, <<wf, wr>>)
<1>4. PICK S, M : CascadeParts(new, n, hf, hr, wf, wr, S, M)
  BY <1>3, CascadeIs, Zenon
<1>5. /\ S \in Nat /\ Len(hf) <= S /\ Len(wf) <= S /\ M \in {S, S + 1}
      /\ (M = S => hr = 1) /\ (M = S => wr = 1)
  BY <1>4, Zenon DEF CascadeParts
<1>6. PICK Q1 : Steps(k1, hf, hr, S, M, Q1)
  BY <1>1, <1>5, StepsExist, Zenon
<1>7. PICK Q2 : Steps(k2, wf, wr, S, M, Q2)
  BY <1>2, <1>5, StepsExist, Zenon
<1>8. Cascade(n, Factorize(k1), Factorize(k2)) = new
  BY <1>1, <1>2, Zenon
<1> HIDE DEF new
<1>9. CascadeOf(new, n, k1, k2, hf, hr, wf, wr, S, M, Q1, Q2)
  BY <1>4, <1>6, <1>7, Zenon DEF CascadeOf
<1>10. QED
  BY <1>8, <1>9, Zenon

\* What the stages of a cascade make, from t on.
StageValue(t, Q1, Q2, q) == Window(t, <<Q1[q], Q2[q]>>, <<Q1[q], Q2[q]>>)

LEMMA StageOnStage ==
  ASSUME NEW t, NEW d, MeansBy(t, d), NEW a1 \in Extents, NEW a2 \in Extents,
         NEW l1 \in Extents, NEW l2 \in Extents, NEW b1, NEW b2, b1 = a1 * l1, b2 = a2 * l2,
         WindowFits(t, b1, b2)
  PROVE  Window(Window(t, <<a1, a2>>, <<a1, a2>>), <<l1, l2>>, <<l1, l2>>) = Window(t, <<b1, b2>>, <<b1, b2>>)
<1>1. WindowFits(t, a1 * l1, a2 * l2)
  BY Zenon
<1>2. Window(Window(t, <<a1, a2>>, <<a1, a2>>), <<l1, l2>>, <<l1, l2>>)
        = Window(t, <<a1 * l1, a2 * l2>>, <<a1 * l1, a2 * l2>>)
  BY <1>1, StagesAreOnePool
<1>3. QED
  BY <1>2, Zenon

LEMMA StepFits ==
  ASSUME NEW t, t.shape \in Shape3, NEW k1, NEW k2, WindowFits(t, k1, k2),
         NEW q1 \in Extents, NEW q2 \in Extents, q1 <= k1, q2 <= k2
  PROVE  WindowFits(t, q1, q2)
<1>1. t.shape[2] \in Nat \ {0} /\ t.shape[3] \in Nat \ {0}
  BY Shape3Is, Zenon
<1>2. QED
  BY <1>1 DEF WindowFits, Extents

\* The cascade of pool n as a chain of its own, node by node.
CascadeHere(g, i, new, n, t, d, k1, k2, hf, hr, wf, wr, S, M, Q1, Q2) ==
  /\ PoolKnown(g, i, n, t, d, <<k1, k2>>, <<k1, k2>>)
  /\ CascadeOf(new, n, k1, k2, hf, hr, wf, wr, S, M, Q1, Q2)
  /\ M # 0
  /\ Len(n.out) \in Nat /\ n.out = [a \in 1..Len(n.out) |-> n.out[a]]
  /\ \A q \in DOMAIN new : new[q].out \in Made(g, Len(g.nodes)) => new[q].out = n.out

StageValues(t, Q1, Q2, M) == [q \in 1..M |-> StageValue(t, Q1, Q2, q)]

LEMMA CascadeLinked ==
  ASSUME NEW g, NEW i, NEW new, NEW n, NEW t, NEW d, NEW k1, NEW k2,
         NEW hf, NEW hr, NEW wf, NEW wr, NEW S, NEW M, NEW Q1, NEW Q2,
         CascadeHere(g, i, new, n, t, d, k1, k2, hf, hr, wf, wr, S, M, Q1, Q2)
  PROVE  Linked(g, i, new, StageValues(t, Q1, Q2, M))
<1> DEFINE v == [q \in 1..M |-> StageValue(t, Q1, Q2, q)]
           l1(q) == StepOf(hf, hr, S, q)
           l2(q) == StepOf(wf, wr, S, q)
<1>1. /\ PoolKnown(g, i, n, t, d, <<k1, k2>>, <<k1, k2>>) /\ M # 0
      /\ CascadeParts(new, n, hf, hr, wf, wr, S, M)
      /\ Steps(k1, hf, hr, S, M, Q1) /\ Steps(k2, wf, wr, S, M, Q2)
  BY Zenon DEF CascadeHere, CascadeOf
<1>2. /\ M \in Nat \ {0} /\ Len(new) = M
      /\ \A q \in 1..M : IsStage(new[q], n, M, q, <<l1(q), l2(q)>>)
  <2>1. S \in Nat /\ M \in {S, S + 1}
    BY <1>1, Zenon DEF CascadeParts
  <2>2. M \in Nat \ {0}
    BY <1>1, <2>1
  <2>3. QED
    BY <1>1, <2>2, Zenon DEF CascadeParts
<1>3. /\ MeansBy(t, d) /\ t.shape \in Shape3 /\ n = g.nodes[i] /\ t = Env(g)[n.ins[1]]
      /\ WindowFits(t, k1, k2) /\ Env(g)[n.out] = Window(t, <<k1, k2>>, <<k1, k2>>)
  <2>1. <<k1, k2>>[1] = k1 /\ <<k1, k2>>[2] = k2
    OBVIOUS
  <2>2. QED
    BY <1>1, <2>1, Zenon DEF PoolKnown, MeansBy
<1>4. /\ Q1[0] = 1 /\ Q1[M] = k1 /\ Q2[0] = 1 /\ Q2[M] = k2
      /\ \A q \in 1..M : l1(q) \in Extents /\ Q1[q] = Q1[q - 1] * l1(q) /\ Q1[q] <= k1
      /\ \A q \in 1..M : l2(q) \in Extents /\ Q2[q] = Q2[q - 1] * l2(q) /\ Q2[q] <= k2
      /\ \A q \in 0..M : Q1[q] \in Extents /\ Q2[q] \in Extents
  <2>1. Q1 \in [0..M -> Extents] /\ Q2 \in [0..M -> Extents]
    BY <1>1, Zenon DEF Steps
  <2>2. QED
    BY <1>1, <2>1, Zenon DEF Steps
<1> HIDE DEF l1, l2
<1>5. \A q \in 1..M : v[q] = StageValue(t, Q1, Q2, q)
  BY Zenon
<1> HIDE DEF v
<1>6. ASSUME NEW q \in 1..Len(new)
      PROVE  /\ new[q].op \in PoolLike
             /\ q = 1 => /\ new[q].ins[1] = g.nodes[i].ins[1]
                         /\ v[q] = PoolOf(new[q], Env(g)[g.nodes[i].ins[1]])
             /\ q # 1 => /\ q - 1 \in 1..Len(new) /\ new[q].ins[1] = new[q - 1].out
                         /\ v[q] = PoolOf(new[q], v[q - 1])
  <2> DEFINE m == new[q]
             K == <<l1(q), l2(q)>>
  <2>1. q \in 1..M /\ q \in 0..M
    BY <1>2
  <2>2. /\ m.op \in {"AveragePool", "MeanConv"} /\ m.ins = <<Before(n, q)>> /\ m.k = K /\ m.s = K
    BY <1>2, <2>1, Zenon DEF IsStage
  <2>3. m.op \in PoolLike /\ m.op # "ReduceMean"
    <3> HIDE DEF m
    <3>1. QED
      BY <2>2 DEF PoolLike
  <2>4. m.ins[1] = Before(n, q)
    <3>1. <<Before(n, q)>>[1] = Before(n, q)
      OBVIOUS
    <3>2. QED
      BY <2>2, <3>1, Zenon
  <2>5. \A a : PoolOf(m, a) = Window(a, K, K)
    BY <2>2, <2>3, Zenon DEF PoolOf
  <2>6. /\ l1(q) \in Extents /\ Q1[q] = Q1[q - 1] * l1(q) /\ Q1[q] <= k1 /\ Q1[q] \in Extents
        /\ l2(q) \in Extents /\ Q2[q] = Q2[q - 1] * l2(q) /\ Q2[q] <= k2 /\ Q2[q] \in Extents
    BY <1>4, <2>1, Zenon
  <2>7. v[q] = Window(t, <<Q1[q], Q2[q]>>, <<Q1[q], Q2[q]>>)
    BY <1>5, <2>1, Zenon DEF StageValue
  <2> HIDE DEF m
  <2>8. CASE q = 1
    <3>1. m.ins[1] = n.ins[1]
      BY <2>4, <2>8, Zenon DEF Before
    <3>2. Q1[q] = l1(q) /\ Q2[q] = l2(q)
      <4>1. Q1[q - 1] = 1 /\ Q2[q - 1] = 1
        <5>1. q - 1 = 0
          BY <2>8
        <5>2. QED
          BY <1>4, <5>1, Zenon
      <4>2. QED
        BY <2>6, <4>1, Times, Zenon
    <3>3. v[q] = PoolOf(m, t)
      BY <2>5, <2>7, <3>2, Zenon
    <3>4. QED
      BY <1>3, <2>3, <2>8, <3>1, <3>3, Zenon DEF m
  <2>9. CASE q # 1
    <3>1. q - 1 \in 1..M /\ q - 1 \in 0..M /\ q - 1 # M
      BY <1>2, <2>1, <2>9
    <3>2. new[q - 1].out = Stage(n, q - 1)
      <4> DEFINE p == q - 1
      <4>1. p \in 1..M /\ p # M
        BY <3>1, Zenon
      <4> HIDE DEF p
      <4>2. IsStage(new[p], n, M, p, <<l1(p), l2(p)>>)
        BY <1>2, <4>1, Zenon
      <4>3. new[p].out = Stage(n, p)
        BY <4>1, <4>2, Zenon DEF IsStage, After
      <4>4. QED
        BY <4>3, Zenon DEF p
    <3>3. m.ins[1] = new[q - 1].out
      BY <2>4, <2>9, <3>2, Zenon DEF Before
    <3>4. Q1[q - 1] \in Extents /\ Q2[q - 1] \in Extents
      BY <1>4, <3>1, Zenon
    <3>5. WindowFits(t, Q1[q], Q2[q])
      BY <1>3, <2>6, StepFits, Zenon
    <3> DEFINE a1 == Q1[q - 1]
               a2 == Q2[q - 1]
               b1 == Q1[q]
               b2 == Q2[q]
               c1 == l1(q)
               c2 == l2(q)
    <3>6. /\ a1 \in Extents /\ a2 \in Extents /\ c1 \in Extents /\ c2 \in Extents
          /\ b1 = a1 * c1 /\ b2 = a2 * c2 /\ WindowFits(t, b1, b2)
      BY <2>6, <3>4, <3>5, Zenon
    <3>7. v[q - 1] = Window(t, <<a1, a2>>, <<a1, a2>>)
      BY <1>5, <3>1, Zenon DEF StageValue
    <3>8. v[q] = Window(t, <<b1, b2>>, <<b1, b2>>) /\ \A a : PoolOf(m, a) = Window(a, <<c1, c2>>, <<c1, c2>>)
      BY <2>5, <2>7, Zenon
    <3> HIDE DEF a1, a2, b1, b2, c1, c2
    <3>9. Window(Window(t, <<a1, a2>>, <<a1, a2>>), <<c1, c2>>, <<c1, c2>>) = Window(t, <<b1, b2>>, <<b1, b2>>)
      <4>1. MeansBy(t, d)
        BY <1>3, Zenon
      <4>2. a1 \in Extents /\ a2 \in Extents /\ c1 \in Extents /\ c2 \in Extents
        BY <3>6, Zenon
      <4>3. b1 = a1 * c1 /\ b2 = a2 * c2
        BY <3>6, Zenon
      <4>4. WindowFits(t, b1, b2)
        BY <3>6, Zenon
      <4>5. QED
        BY <4>1, <4>2, <4>3, <4>4, StageOnStage
    <3>10. v[q] = PoolOf(m, v[q - 1])
      BY <3>7, <3>8, <3>9, Zenon
    <3>11. QED
      BY <1>2, <2>3, <2>9, <3>1, <3>3, <3>10, Zenon DEF m
  <2>10. QED
    BY <2>8, <2>9, Zenon
<1>7. v[Len(new)] = Env(g)[g.nodes[i].out]
  <2>1. M \in 1..M
    BY <1>2
  <2>2. v[M] = Window(t, <<Q1[M], Q2[M]>>, <<Q1[M], Q2[M]>>)
    BY <1>5, <2>1, Zenon DEF StageValue
  <2>3. QED
    BY <1>2, <1>3, <1>4, <2>2, Zenon
<1>8. Linked(g, i, new, v)
  BY <1>6, <1>7, Zenon DEF Linked
<1>9. QED
  BY <1>8, Zenon DEF v, StageValues

LEMMA CascadeChain ==
  ASSUME NEW g, NEW i, NEW new, NEW n, NEW t, NEW d, NEW k1, NEW k2,
         NEW hf, NEW hr, NEW wf, NEW wr, NEW S, NEW M, NEW Q1, NEW Q2,
         CascadeHere(g, i, new, n, t, d, k1, k2, hf, hr, wf, wr, S, M, Q1, Q2)
  PROVE  Chain(g, i, new)
<1> DEFINE K(q) == <<StepOf(hf, hr, S, q), StepOf(wf, wr, S, q)>>
<1>1. /\ PoolKnown(g, i, n, t, d, <<k1, k2>>, <<k1, k2>>) /\ M # 0
      /\ CascadeParts(new, n, hf, hr, wf, wr, S, M)
      /\ Len(n.out) \in Nat /\ n.out = [a \in 1..Len(n.out) |-> n.out[a]]
      /\ \A q \in DOMAIN new : new[q].out \in Made(g, Len(g.nodes)) => new[q].out = n.out
  BY Zenon DEF CascadeHere, CascadeOf
<1>2. /\ M \in Nat \ {0} /\ Len(new) = M /\ new \in Seq(Range(new))
      /\ \A q \in 1..M : IsStage(new[q], n, M, q, K(q))
  <2>1. S \in Nat /\ M \in {S, S + 1}
    BY <1>1, Zenon DEF CascadeParts
  <2>2. M \in Nat \ {0}
    BY <1>1, <2>1
  <2>3. QED
    BY <1>1, <2>2, Zenon DEF CascadeParts
<1> HIDE DEF K
<1>3. DOMAIN new = 1..M
  BY <1>2, ElementOfSeq
<1>4. n = g.nodes[i] /\ 1 \in DOMAIN n.ins /\ Range(n.ins) \subseteq Made(g, i - 1)
  BY <1>1, Zenon DEF PoolKnown
<1>5. /\ \A q \in 1..M : new[q].out = After(n, M, q)
      /\ M \in 1..M
  BY <1>2, SMT DEF IsStage
<1>6. new[Len(new)].out = g.nodes[i].out /\ Len(new) # 0
  BY <1>2, <1>4, <1>5, Zenon DEF After
<1>7. \A q, r \in 1..M : After(n, M, q) = After(n, M, r) => q = r
  <2>1. /\ \A a : Append(n.out, a) # n.out
        /\ \A a, b : Append(n.out, a) = Append(n.out, b) => a = b
    BY <1>1, NamesApart, Zenon
  <2>2. QED
    BY <2>1, Zenon DEF After, Stage
<1>8. ASSUME NEW q \in 1..Len(new)
      PROVE  LET m == new[q] IN
             /\ m.op \in Ops \ Layers /\ {"op", "ins", "out"} \subseteq DOMAIN m /\ 1 \in DOMAIN m.ins
             /\ Range(m.ins) \subseteq Made(g, i - 1) \cup Outs(new, q - 1)
             /\ m.out \notin Outs(new, q - 1)
             /\ m.out \in Made(g, Len(g.nodes)) => m.out = g.nodes[i].out
  <2> DEFINE m == new[q]
             b == Before(n, q)
  <2>1. q \in 1..M /\ q \in DOMAIN new
    BY <1>2, <1>3
  <2>2. m.op \in {"AveragePool", "MeanConv"} /\ DOMAIN m = {"op", "ins", "out", "k", "s"} /\ m.ins = <<b>>
    BY <1>2, <2>1, Zenon DEF IsStage
  <2>3. DOMAIN <<b>> = {1} /\ <<b>>[1] = b
    <3> HIDE DEF b
    <3>1. QED
      OBVIOUS
  <2>4. \A y \in Range(m.ins) : y = b
    BY <2>2, <2>3, Zenon DEF Range
  <2>5. \A y : y \in Outs(new, q - 1) <=> \E r \in 1..q - 1 : y = new[r].out
    BY Zenon DEF Outs
  <2>6. b \in Made(g, i - 1) \cup Outs(new, q - 1)
    <3>1. CASE q = 1
      <4>1. b = n.ins[1]
        BY <3>1, Zenon DEF Before
      <4>2. n.ins[1] \in Range(n.ins)
        BY <1>4, Zenon DEF Range
      <4>3. QED
        BY <1>4, <4>1, <4>2, Zenon
    <3>2. CASE q # 1
      <4>1. b = Stage(n, q - 1)
        BY <3>2, Zenon DEF Before
      <4>2. q - 1 \in 1..M /\ q - 1 \in 1..q - 1 /\ q - 1 # M
        BY <1>2, <2>1, <3>2
      <4>3. new[q - 1].out = Stage(n, q - 1)
        BY <1>5, <4>2, Zenon DEF After
      <4>4. QED
        BY <2>5, <4>1, <4>2, <4>3, Zenon
    <3>3. QED
      BY <3>1, <3>2, Zenon
  <2>7. m.op \in Ops \ Layers
    <3> HIDE DEF m
    <3>1. QED
      BY <2>2 DEF Ops, Layers
  <2>8. m.out \notin Outs(new, q - 1)
    <3>1. ASSUME NEW r \in 1..q - 1 PROVE new[q].out # new[r].out
      <4>1. r \in 1..M /\ r # q
        BY <1>2, <2>1
      <4>2. QED
        BY <1>5, <1>7, <2>1, <4>1, Zenon
    <3>2. QED
      BY <2>5, <3>1, Zenon
  <2>9. {"op", "ins", "out"} \subseteq DOMAIN m /\ 1 \in DOMAIN m.ins
    <3>1. {"op", "ins", "out"} \subseteq {"op", "ins", "out", "k", "s"} /\ 1 \in {1}
      OBVIOUS
    <3>2. QED
      BY <2>2, <2>3, <3>1, Zenon
  <2>10. m.out \in Made(g, Len(g.nodes)) => m.out = g.nodes[i].out
    BY <1>1, <1>4, <2>1, Zenon
  <2>11. Range(m.ins) \subseteq Made(g, i - 1) \cup Outs(new, q - 1)
    BY <2>4, <2>6, Zenon
  <2>12. QED
    BY <2>7, <2>8, <2>9, <2>10, <2>11, Zenon
<1>9. QED
  BY <1>2, <1>6, <1>8, Zenon DEF Chain

-------------------------------------------------------------------------------
(* pool_decompose: what takes the place of a pool.                          *)

LEMMA NotUnit ==
  ASSUME NEW g, NEW i \in Oversized(g), Kernel(g, i) = Stride(g, i), NEW a, NEW b, Kernel(g, i) = <<a, b>>
  PROVE  ~(a = 1 /\ b = 1)
<1>1. \E c \in 1..2 : Kernel(g, i)[c] > MaxWindow \/ Kernel(g, i)[c] > MaxStride
  BY Zenon DEF Oversized
<1>2. SUFFICES ASSUME a = 1, b = 1 PROVE FALSE
  OBVIOUS
<1>3. \E c \in 1..2 : <<1, 1>>[c] > MaxWindow \/ <<1, 1>>[c] > MaxStride
  BY <1>1, <1>2, Zenon
<1>4. \A c \in 1..2 : <<1, 1>>[c] = 1
  OBVIOUS
<1>5. 1 > MaxWindow \/ 1 > MaxStride
  BY <1>3, <1>4, Zenon
<1>6. QED
  BY <1>5, WindowAssumption

\* The cascade that takes the place of a pool means what the pool meant.
LEMMA CascadeInstead ==
  ASSUME NEW g, WellFormed(g), NEW i \in Oversized(g), Kernel(g, i) = Stride(g, i)
  PROVE  LET k == Kernel(g, i)
         IN Meaning(Expanded(g, i, Cascade(g.nodes[i], Factorize(k[1]), Factorize(k[2])))) = Meaning(g)
<1> DEFINE n == g.nodes[i]
           k == Kernel(g, i)
           k1 == k[1]
           k2 == k[2]
           t == Env(g)[n.ins[1]]
           d == t.at[<<0, 0, 0>>].by
           new == Cascade(n, Factorize(k1), Factorize(k2))
<1>1. i \in DOMAIN g.nodes /\ n.op \in PoolOps /\ InOrder(g) /\ PoolsFit(g)
  BY Zenon DEF Oversized, WellFormed
<1>2. PoolKnown(g, i, n, t, d, k, k)
  BY <1>1, PoolMakes, Zenon
<1>3. k = <<k1, k2>> /\ k1 \in Extents /\ k2 \in Extents
  <2>1. k \in [1..2 -> Extents]
    BY <1>2, Zenon DEF PoolKnown
  <2> HIDE DEF k
  <2>2. QED
    BY <2>1
<1>4. /\ Len(n.out) \in Nat /\ n.out = [a \in 1..Len(n.out) |-> n.out[a]]
      /\ \A q \in DOMAIN new : new[q].out \in Made(g, Len(g.nodes)) => new[q].out = n.out
  BY <1>1, Zenon DEF PoolsFit
<1>5. ~(k1 = 1 /\ k2 = 1)
  BY <1>3, NotUnit, Zenon
<1> HIDE DEF n, k, k1, k2, t, d
<1>6. PoolKnown(g, i, n, t, d, <<k1, k2>>, <<k1, k2>>)
  BY <1>2, <1>3, Zenon
<1>7. PICK hf, hr, wf, wr, S, M, Q1, Q2 : CascadeOf(new, n, k1, k2, hf, hr, wf, wr, S, M, Q1, Q2)
  BY <1>3, CascadeSteps, Zenon
<1> HIDE DEF new
<1>8. M # 0
  <2>1. Q1[0] = 1 /\ Q1[M] = k1 /\ Q2[0] = 1 /\ Q2[M] = k2
    BY <1>7, Zenon DEF CascadeOf, Steps
  <2>2. QED
    BY <1>5, <2>1, Zenon
<1>9. CascadeHere(g, i, new, n, t, d, k1, k2, hf, hr, wf, wr, S, M, Q1, Q2)
  BY <1>4, <1>6, <1>7, <1>8, Zenon DEF CascadeHere
<1>10. Chain(g, i, new)
  BY <1>9, CascadeChain, Zenon
<1>11. Linked(g, i, new, StageValues(t, Q1, Q2, M))
  BY <1>9, CascadeLinked, Zenon
<1>12. Meaning(Expanded(g, i, new)) = Meaning(g)
  BY <1>1, <1>10, <1>11, ChainKeeps, Zenon
<1>13. QED
  BY <1>12, Zenon DEF new, n, k, k1, k2

\* The convolution with the mean as its kernel.
LEMMA ConvInstead ==
  ASSUME NEW g, WellFormed(g), NEW i \in Oversized(g)
  PROVE  LET n == g.nodes[i]
         IN Meaning(Expanded(g, i, MeanConv(n.ins[1], n.out, Kernel(g, i), Stride(g, i)))) = Meaning(g)
<1> DEFINE n == g.nodes[i]
           k == Kernel(g, i)
           s == Stride(g, i)
           x == n.ins[1]
           o == n.out
           t == Env(g)[x]
           d == t.at[<<0, 0, 0>>].by
           m == [op |-> "MeanConv", ins |-> <<x>>, out |-> o, k |-> k, s |-> s]
<1>1. i \in DOMAIN g.nodes /\ n.op \in PoolOps /\ InOrder(g)
  BY Zenon DEF Oversized, WellFormed
<1>2. PoolKnown(g, i, n, t, d, k, s)
  BY <1>1, PoolMakes, Zenon
<1>3. Env(g)[o] = Window(t, k, s) /\ 1 \in DOMAIN n.ins /\ Range(n.ins) \subseteq Made(g, i - 1)
  BY <1>2, Zenon DEF PoolKnown
<1>4. x \in Made(g, i - 1)
  BY <1>3, Zenon DEF Range
<1> HIDE DEF n, k, s, x, o, t, d
<1>5. /\ m.op = "MeanConv" /\ m.ins = <<x>> /\ m.out = o /\ m.k = k /\ m.s = s
      /\ {"op", "ins", "out"} \subseteq DOMAIN m
  OBVIOUS
<1>6. DOMAIN <<x>> = {1} /\ <<x>>[1] = x
  OBVIOUS
<1>7. m.op \in PoolLike
  BY <1>5 DEF PoolLike
<1>8. "MeanConv" # "ReduceMean"
  OBVIOUS
<1> HIDE DEF m
<1>9. PoolOf(m, t) = Window(t, k, s)
  BY <1>5, <1>8, Zenon DEF PoolOf
<1>10. m.ins[1] = x /\ 1 \in DOMAIN m.ins /\ Range(m.ins) \subseteq Made(g, i - 1)
  <2>1. 1 \in {1} /\ \A a \in {1} : a = 1
    OBVIOUS
  <2>2. QED
    BY <1>4, <1>5, <1>6, <2>1, Zenon DEF Range
<1>11. PoolOf(m, Env(g)[m.ins[1]]) = Env(g)[o]
  BY <1>3, <1>9, <1>10, Zenon DEF t
<1>12. m.out = g.nodes[i].out /\ m.ins[1] = g.nodes[i].ins[1]
  BY <1>5, <1>10, Zenon DEF n, x, o
<1>13. Meaning(Expanded(g, i, <<m>>)) = Meaning(g)
  BY <1>1, <1>5, <1>7, <1>10, <1>11, <1>12, OneInstead, Zenon DEF n, o
<1>14. MeanConv(x, o, k, s) = <<m>>
  BY Zenon DEF MeanConv, m
<1>15. QED
  BY <1>13, <1>14, Zenon DEF n, x, o, k, s

LEMMA ReduceInstead ==
  ASSUME NEW g, WellFormed(g), NEW i \in Oversized(g), CoversImage(g, i)
  PROVE  LET n == g.nodes[i]
         IN Meaning(Expanded(g, i, <<[op |-> "ReduceMean", ins |-> n.ins, out |-> n.out]>>)) = Meaning(g)
<1> DEFINE n == g.nodes[i]
           k == Kernel(g, i)
           s == Stride(g, i)
           ins == n.ins
           o == n.out
           t == Env(g)[ins[1]]
           d == t.at[<<0, 0, 0>>].by
           whole == <<t.shape[2], t.shape[3]>>
           m == [op |-> "ReduceMean", ins |-> ins, out |-> o]
<1>1. i \in DOMAIN g.nodes /\ n.op \in PoolOps /\ InOrder(g)
  BY Zenon DEF Oversized, WellFormed
<1>2. PoolKnown(g, i, n, t, d, k, s)
  BY <1>1, PoolMakes, Zenon
<1>3. /\ Env(g)[o] = Window(t, k, s) /\ 1 \in DOMAIN ins /\ Range(ins) \subseteq Made(g, i - 1)
      /\ t.shape \in Shape3 /\ s \in [1..2 -> Extents]
  BY <1>2, Zenon DEF PoolKnown, MeansBy
<1>4. k = whole
  BY Zenon DEF CoversImage
<1>5. Window(t, k, s) = Window(t, whole, <<1, 1>>)
  <2>1. s = <<s[1], s[2]>> /\ s[1] \in Extents /\ s[2] \in Extents
    <3> HIDE DEF s
    <3>1. QED
      BY <1>3
  <2>2. \A a \in 1..3 : t.shape[a] \in Extents
    <3> HIDE DEF t
    <3>1. QED
      BY <1>3, Zenon DEF Shape3
  <2> HIDE DEF t, s
  <2>3. Window(t, whole, <<s[1], s[2]>>) = Window(t, whole, <<1, 1>>)
    BY <2>1, <2>2, GlobalWindow
  <2>4. QED
    BY <1>4, <2>1, <2>3, Zenon
<1> HIDE DEF n, k, s, ins, o, t, d
<1>6. m.op = "ReduceMean" /\ m.ins = ins /\ m.out = o /\ {"op", "ins", "out"} \subseteq DOMAIN m
  OBVIOUS
<1>7. m.op \in PoolLike
  BY <1>6 DEF PoolLike
<1> HIDE DEF m
<1>8. PoolOf(m, t) = Window(t, whole, <<1, 1>>)
  BY <1>6, Zenon DEF PoolOf
<1>9. PoolOf(m, Env(g)[m.ins[1]]) = Env(g)[o]
  BY <1>3, <1>5, <1>6, <1>8, Zenon DEF t
<1>10. m.out = g.nodes[i].out /\ m.ins[1] = g.nodes[i].ins[1]
  BY <1>6, Zenon DEF n, ins, o
<1>11. 1 \in DOMAIN m.ins /\ Range(m.ins) \subseteq Made(g, i - 1)
  BY <1>3, <1>6, Zenon
<1>12. Meaning(Expanded(g, i, <<m>>)) = Meaning(g)
  BY <1>1, <1>6, <1>7, <1>9, <1>10, <1>11, OneInstead, Zenon DEF n, o
<1>13. QED
  BY <1>12, Zenon DEF m, n, ins, o

LEMMA ReplacementKeeps ==
  ASSUME WellFormed(graph), ReducesWhole, NEW i \in Oversized(graph),
         ~(Chosen(Kernel(graph, i), Stride(graph, i)) = "cascade" /\ Kernel(graph, i) # Stride(graph, i))
  PROVE  Meaning(Expanded(graph, i, Replacement(graph.nodes[i], Kernel(graph, i), Stride(graph, i))))
           = Meaning(graph)
<1> DEFINE n == graph.nodes[i]
           k == Kernel(graph, i)
           s == Stride(graph, i)
<1>1. CASE Chosen(k, s) = "conv"
  <2>1. Replacement(n, k, s) = MeanConv(n.ins[1], n.out, k, s)
    BY <1>1, Zenon DEF Replacement
  <2>2. QED
    BY <2>1, ConvInstead, Zenon
<1>2. CASE Chosen(k, s) = "cascade"
  <2>1. k = s
    BY <1>2, Zenon
  <2>2. "cascade" # "conv"
    OBVIOUS
  <2>3. Replacement(n, k, s) = Cascade(n, Factorize(k[1]), Factorize(k[2]))
    BY <1>2, <2>2, Zenon DEF Replacement
  <2>4. Meaning(Expanded(graph, i, Cascade(n, Factorize(k[1]), Factorize(k[2])))) = Meaning(graph)
    BY <2>1, CascadeInstead, Zenon
  <2>5. QED
    BY <2>3, <2>4, Zenon
<1>3. CASE Chosen(k, s) # "conv" /\ Chosen(k, s) # "cascade"
  <2>1. CoversImage(graph, i)
    BY <1>3, Zenon DEF ReducesWhole
  <2>2. Replacement(n, k, s) = <<[op |-> "ReduceMean", ins |-> n.ins, out |-> n.out]>>
    BY <1>3, Zenon DEF Replacement
  <2>3. QED
    BY <2>1, <2>2, ReduceInstead, Zenon
<1>4. QED
  BY <1>1, <1>2, <1>3, Zenon

LEMMA PoolStep ==
  ASSUME WellFormed(graph), ReducesWhole, DecomposePool
  PROVE  Meaning(graph') = Meaning(graph)
<1>1. CASE graph' = graph
  BY <1>1, Zenon
<1>2. CASE graph' # graph
  <2>1. PICK i \in FirstOf(Oversized(graph)) :
          /\ ~(Chosen(Kernel(graph, i), Stride(graph, i)) = "cascade" /\ Kernel(graph, i) # Stride(graph, i))
          /\ \E new \in {Replacement(graph.nodes[i], Kernel(graph, i), Stride(graph, i))} :
               graph' = [graph EXCEPT !.nodes = SubSeq(@, 1, i - 1) \o new \o SubSeq(@, i + 1, Len(@))]
    BY <1>2, Zenon DEF DecomposePool, Refuse
  <2>2. i \in Oversized(graph)
    BY Zenon DEF FirstOf
  <2>3. graph' = Expanded(graph, i, Replacement(graph.nodes[i], Kernel(graph, i), Stride(graph, i)))
    BY <2>1, Zenon DEF Expanded, Swapped
  <2>4. QED
    BY <2>1, <2>2, <2>3, ReplacementKeeps, Zenon
<1>3. QED
  BY <1>1, <1>2, Zenon

\* A step of decompose_pools changes no output, whatever it puts in place
\* of the pool: the stages of a cascade with or without a residual, a
\* convolution, or a ReduceMean where the pool took its whole image.
THEOREM PoolsKeepMeaning ==
  GraphSpec =>
    [][WellFormed(graph) /\ ReducesWhole /\ DecomposePool => Meaning(graph') = Meaning(graph)]_gvars
<1>1. ASSUME WellFormed(graph), ReducesWhole, DecomposePool PROVE Meaning(graph') = Meaning(graph)
  BY <1>1, PoolStep, Zenon
<1>2. GraphSpec =>
        [][WellFormed(graph) /\ ReducesWhole /\ DecomposePool => Meaning(graph') = Meaning(graph)]_gvars
  BY <1>1, PTL DEF GraphSpec
<1>3. QED
  BY <1>2, Zenon

-------------------------------------------------------------------------------
(* The rewriting as a whole.                                                *)

\* h is g but for convolution i, and every other node finds what it found.
AllButConv(g, i, h) ==
  /\ DOMAIN h.nodes = DOMAIN g.nodes /\ h.nodes[i].op = "Conv"
  /\ g.nodes[i].op = "Conv" /\ h.nodes[i].out = g.nodes[i].out
  /\ \A j \in DOMAIN g.nodes : j # i =>
       /\ h.nodes[j] = g.nodes[j]
       /\ \A y \in Range(g.nodes[j].ins) :
            /\ Env(h)[y] = Env(g)[y]
            /\ IsInit(h, y) <=> IsInit(g, y)
            /\ IsInit(g, y) => h.inits[y] = g.inits[y]

LEMMA DenseElsewhere ==
  ASSUME NEW g, WellFormed(g), NEW i \in DOMAIN g.nodes, NEW n, NEW w, NEW new, NEW d, NEW m,
         NEW mid, NEW Gone, NEW h, DenseStep(g, i, n, w, new, d, m, mid, Gone, h)
  PROVE  AllButConv(g, i, h)
<1> DEFINE L == Len(g.nodes)
<1>1. InOrder(g) /\ ConvsFit(g)
  BY Zenon DEF WellFormed
<1>2. /\ DOMAIN h.nodes = DOMAIN g.nodes /\ h.nodes[i] = m
      /\ \A j \in DOMAIN g.nodes : j # i => h.nodes[j] = g.nodes[j] /\ mid.nodes[j] = g.nodes[j]
      /\ DOMAIN mid.nodes = DOMAIN g.nodes
  BY Zenon DEF DenseStep
<1>3. n = g.nodes[i] /\ n.op = "Conv" /\ m.op = "Conv" /\ m.out = n.out /\ new = Append(n.ins[2], "dense")
  BY Zenon DEF DenseStep
<1>4. \A y \in Made(g, L) \ Gone : Env(h)[y] = Env(g)[y]
  BY OneDense
<1>5. new \notin Made(g, L)
  BY <1>1, <1>3, Zenon DEF ConvsFit
<1>6. DOMAIN h.inits \subseteq DOMAIN g.inits \cup {new}
  BY Zenon DEF DenseStep
<1>7. \A c \in DOMAIN g.inits \ Gone : c # new => c \in DOMAIN h.inits /\ h.inits[c] = g.inits[c]
  BY Zenon DEF DenseStep
<1>8. ASSUME NEW j \in DOMAIN g.nodes, j # i, NEW y \in Range(g.nodes[j].ins)
      PROVE  /\ Env(h)[y] = Env(g)[y]
             /\ IsInit(h, y) <=> IsInit(g, y)
             /\ IsInit(g, y) => h.inits[y] = g.inits[y]
  <2>1. y \in Made(g, L)
    BY <1>1, FirstInput, Zenon
  <2>2. y \notin Gone
    <3>1. CASE Consumers(mid, w) # {}
      BY <3>1, Zenon DEF GoneFrom, DenseStep
    <3>2. CASE Consumers(mid, w) = {}
      <4>1. w \notin Range(g.nodes[j].ins)
        BY <1>2, <1>8, <3>2, Zenon DEF Consumers
      <4>2. Gone = {w}
        BY <3>2, Zenon DEF GoneFrom, DenseStep
      <4>3. QED
        BY <4>1, <4>2, Zenon
    <3>3. QED
      BY <3>1, <3>2, Zenon
  <2>3. y # new
    BY <1>5, <2>1, Zenon
  <2>4. QED
    BY <1>4, <1>6, <1>7, <2>1, <2>2, <2>3, Zenon DEF IsInit
<1>9. QED
  BY <1>2, <1>3, <1>8, Zenon DEF AllButConv

\* So it makes no pool too large for the accelerator and no Transpose foldable.
LEMMA NothingReturns ==
  ASSUME NEW g, InOrder(g), NEW i \in DOMAIN g.nodes, NEW h, AllButConv(g, i, h)
  PROVE  /\ Oversized(g) = {} => Oversized(h) = {}
         /\ Folds(g) = {} => Folds(h) = {}
<1>1. ASSUME NEW j \in DOMAIN h.nodes, h.nodes[j].op # "Conv"
      PROVE  /\ j \in DOMAIN g.nodes /\ h.nodes[j] = g.nodes[j]
             /\ \A y \in Range(g.nodes[j].ins) :
                  /\ Env(h)[y] = Env(g)[y]
                  /\ IsInit(h, y) <=> IsInit(g, y)
                  /\ IsInit(g, y) => h.inits[y] = g.inits[y]
  BY <1>1, Zenon DEF AllButConv
<1>2. PoolsStay(g, h, Env(h))
  <2>1. SUFFICES ASSUME NEW j \in DOMAIN h.nodes, h.nodes[j].op \in PoolOps
        PROVE  \E k \in DOMAIN g.nodes : /\ h.nodes[j] = g.nodes[k]
                                         /\ Env(h)[h.nodes[j].ins[1]] = Env(g)[h.nodes[j].ins[1]]
    BY Zenon DEF PoolsStay
  <2>2. h.nodes[j].op # "Conv"
    BY <2>1, SMT DEF PoolOps
  <2>3. j \in DOMAIN g.nodes /\ h.nodes[j] = g.nodes[j]
        /\ \A y \in Range(g.nodes[j].ins) : Env(h)[y] = Env(g)[y]
    BY <1>1, <2>2, Zenon
  <2>4. g.nodes[j].ins[1] \in Range(g.nodes[j].ins)
    BY <2>3, FirstInput, Zenon
  <2>5. QED
    BY <2>3, <2>4, Zenon
<1>3. \A j \in DOMAIN g.nodes : h.nodes[j].out = g.nodes[j].out
  BY Zenon DEF AllButConv
<1>4. DOMAIN h.nodes = DOMAIN g.nodes
  BY Zenon DEF AllButConv
<1>5. \A y : Producers(h, y) = Producers(g, y)
  BY <1>3, <1>4, Zenon DEF Producers
<1>6. ASSUME NEW k \in Folds(h) PROVE k \in Folds(g)
  <2> DEFINE n == g.nodes[k]
             z == n.ins[2]
  <2>1. k \in FcNodes(h) /\ (Foldable(h, k) \/ WeightFoldable(h, k))
    BY Zenon DEF Folds
  <2>2. k \in DOMAIN h.nodes /\ h.nodes[k].op \in {"MatMul", "Gemm"}
    BY <2>1, Zenon DEF FcNodes
  <2>3. h.nodes[k].op # "Conv"
    BY <2>2, SMT
  <2>4. /\ k \in DOMAIN g.nodes /\ h.nodes[k] = n /\ k \in FcNodes(g)
        /\ \A y \in Range(n.ins) :
             (IsInit(h, y) <=> IsInit(g, y)) /\ (IsInit(g, y) => h.inits[y] = g.inits[y])
    BY <1>1, <2>2, <2>3, Zenon DEF FcNodes
  <2>5. z \in Range(n.ins)
    <3>1. n.op \in Layers
      BY <2>2, <2>4, Zenon DEF Layers
    <3>2. 2 \in 1..2
      OBVIOUS
    <3>3. 2 \in DOMAIN n.ins
      BY <2>4, <3>1, <3>2, Zenon DEF InOrder
    <3>4. QED
      BY <3>3, Zenon DEF Range
  <2>6. /\ IsInit(h, z) <=> IsInit(g, z)
        /\ IsInit(g, z) => h.inits[z] = g.inits[z]
    BY <2>4, <2>5, Zenon
  <2>7. CASE Foldable(h, k)
    <3>1. PICK r \in Producers(h, n.ins[1]) :
            /\ h.nodes[r].op = "Reshape"
            /\ \E t \in Producers(h, h.nodes[r].ins[1]) :
                 /\ h.nodes[t].op = "Transpose"
                 /\ h.inits[z].shape[WeightAxis(n)] = Prod(Env(h)[h.nodes[t].ins[1]].shape)
      BY <2>4, <2>7, Zenon DEF Foldable
    <3>2. PICK t \in Producers(h, h.nodes[r].ins[1]) :
            /\ h.nodes[t].op = "Transpose"
            /\ h.inits[z].shape[WeightAxis(n)] = Prod(Env(h)[h.nodes[t].ins[1]].shape)
      BY <3>1, Zenon
    <3>3. r \in DOMAIN h.nodes /\ t \in DOMAIN h.nodes
      BY Zenon DEF Producers
    <3>4. h.nodes[r].op # "Conv" /\ h.nodes[t].op # "Conv"
      BY <3>1, <3>2, SMT
    <3>5. /\ h.nodes[r] = g.nodes[r] /\ h.nodes[t] = g.nodes[t] /\ t \in DOMAIN g.nodes
          /\ \A y \in Range(g.nodes[t].ins) : Env(h)[y] = Env(g)[y]
      BY <1>1, <3>3, <3>4, Zenon
    <3>6. g.nodes[t].ins[1] \in Range(g.nodes[t].ins)
      BY <3>5, FirstInput, Zenon
    <3>7. Env(h)[g.nodes[t].ins[1]] = Env(g)[g.nodes[t].ins[1]]
      BY <3>5, <3>6, Zenon
    <3>8. IsInit(g, z) /\ h.inits[z] = g.inits[z]
      BY <2>4, <2>6, <2>7, Zenon DEF Foldable
    <3>9. /\ r \in Producers(g, n.ins[1]) /\ g.nodes[r].op = "Reshape"
          /\ t \in Producers(g, g.nodes[r].ins[1]) /\ g.nodes[t].op = "Transpose"
          /\ g.inits[z].shape[WeightAxis(n)] = Prod(Env(g)[g.nodes[t].ins[1]].shape)
      BY <1>5, <3>1, <3>2, <3>5, <3>7, <3>8, Zenon
    <3>10. Foldable(g, k)
      BY <3>8, <3>9, Zenon DEF Foldable
    <3>11. QED
      BY <2>4, <3>10, Zenon DEF Folds
  <2>8. CASE WeightFoldable(h, k)
    <3>1. PICK t \in Producers(h, z) : h.nodes[t].op = "Transpose" /\ IsInit(h, h.nodes[t].ins[1])
      BY <2>4, <2>8, Zenon DEF WeightFoldable
    <3>2. t \in DOMAIN h.nodes /\ h.nodes[t].op # "Conv"
      <4>1. "Transpose" # "Conv"
        OBVIOUS
      <4>2. QED
        BY <3>1, <4>1, Zenon DEF Producers
    <3>3. /\ h.nodes[t] = g.nodes[t] /\ t \in DOMAIN g.nodes
          /\ \A y \in Range(g.nodes[t].ins) : IsInit(h, y) <=> IsInit(g, y)
      BY <1>1, <3>2, Zenon
    <3>4. g.nodes[t].ins[1] \in Range(g.nodes[t].ins)
      BY <3>3, FirstInput, Zenon
    <3>5. IsInit(g, g.nodes[t].ins[1])
      BY <3>1, <3>3, <3>4, Zenon
    <3>6. ~IsInit(g, z)
      BY <2>4, <2>6, <2>8, Zenon DEF WeightFoldable
    <3>7. WeightFoldable(g, k)
      BY <1>5, <3>1, <3>3, <3>5, <3>6, Zenon DEF WeightFoldable
    <3>8. QED
      BY <2>4, <3>7, Zenon DEF Folds
  <2>9. QED
    BY <2>1, <2>7, <2>8, Zenon
<1>7. QED
  BY <1>2, <1>6, NoneOversized, Zenon

\* What the loops have done so far: the graph means what it meant, and what a
\* loop has removed before the next one began stays away.
KeptSoFar ==
  /\ Meaning(graph) = Meaning(original)
  /\ phase \in {"transposes", "grouped", "done"} => Oversized(graph) = {}
  /\ phase \in {"grouped", "done"} => Folds(graph) = {}
  /\ phase = "done" => Grouped(graph) = {}

LEMMA FoldStep ==
  ASSUME WellFormed(graph), FoldTranspose
  PROVE  /\ Meaning(graph') = Meaning(graph)
         /\ Oversized(graph) = {} => Oversized(graph') = {}
<1>1. InOrder(graph) /\ FoldsFit(graph)
  BY Zenon DEF WellFormed
<1>2. CASE graph' = graph
  BY <1>2, Zenon
<1>3. CASE graph' # graph
  <2>1. PICK i \in FirstOf(Folds(graph)) :
          graph' = IF Foldable(graph, i) THEN FoldActivation(graph, i) ELSE FoldWeight(graph, i)
    BY <1>3, Zenon DEF FoldTranspose
  <2>2. i \in FcNodes(graph) /\ (Foldable(graph, i) \/ WeightFoldable(graph, i))
    BY Zenon DEF FirstOf, Folds
  <2>3. \E e : Rewrites(graph, graph', e)
    <3>1. CASE Foldable(graph, i)
      <4>1. \E e : Rewrites(graph, FoldActivation(graph, i), e)
        BY <1>1, <2>2, <3>1, OneActivationFold, Zenon
      <4>2. QED
        BY <2>1, <3>1, <4>1, Zenon
    <3>2. CASE ~Foldable(graph, i)
      <4>1. \E e : Rewrites(graph, FoldWeight(graph, i), e)
        BY <1>1, <2>2, <3>2, OneWeightFold, Zenon
      <4>2. QED
        BY <2>1, <3>2, <4>1, Zenon
    <3>3. QED
      BY <3>1, <3>2, Zenon
  <2>4. QED
    BY <1>1, <2>3, RewritesKeep, Zenon
<1>4. QED
  BY <1>2, <1>3, Zenon

LEMMA DenseKeeps ==
  ASSUME WellFormed(graph), Densify
  PROVE  /\ Meaning(graph') = Meaning(graph)
         /\ Oversized(graph) = {} => Oversized(graph') = {}
         /\ Folds(graph) = {} => Folds(graph') = {}
<1>1. CASE graph' = graph
  BY <1>1, Zenon
<1>2. CASE graph' # graph
  <2>1. PICK i \in DOMAIN graph.nodes : \E n, w, new, d, m, mid, Gone :
          DenseStep(graph, i, n, w, new, d, m, mid, Gone, graph')
    BY <1>2, DensifySteps, Zenon
  <2>2. PICK n, w, new, d, m, mid, Gone : DenseStep(graph, i, n, w, new, d, m, mid, Gone, graph')
    BY <2>1, Zenon
  <2> DEFINE h == graph'
  <2>3. DenseStep(graph, i, n, w, new, d, m, mid, Gone, h)
    BY <2>2, Zenon
  <2> HIDE DEF h
  <2>4. Meaning(h) = Meaning(graph)
    BY <2>3, OneDense
  <2>5. AllButConv(graph, i, h)
    BY <2>3, DenseElsewhere
  <2>6. InOrder(graph)
    BY Zenon DEF WellFormed
  <2>7. /\ Oversized(graph) = {} => Oversized(h) = {}
        /\ Folds(graph) = {} => Folds(h) = {}
    BY <2>5, <2>6, NothingReturns, Zenon
  <2>8. QED
    BY <2>4, <2>7, Zenon DEF h
<1>3. QED
  BY <1>1, <1>2, Zenon

LEMMA KeptAlways ==
  ASSUME KeptSoFar, WellFormed(graph), ReducesWhole, [GraphNext]_gvars
  PROVE  KeptSoFar'
<1>1. CASE DecomposePool
  <2>1. Meaning(graph') = Meaning(graph) /\ original' = original
    BY <1>1, PoolStep, Zenon DEF DecomposePool
  <2>2. \/ phase' = "transposes" /\ Oversized(graph') = {}
        \/ phase' = "refused"
        \/ phase' = "pools"
    BY <1>1, Zenon DEF DecomposePool, Refuse
  <2>3. Meaning(graph') = Meaning(original')
    BY <2>1, Zenon DEF KeptSoFar
  <2> DEFINE O == Oversized(graph') = {}
             F == Folds(graph') = {}
             G == Grouped(graph') = {}
             p == phase'
  <2>4. /\ p \in {"transposes", "grouped", "done"} => O
        /\ p \in {"grouped", "done"} => F
        /\ p = "done" => G
    <3>1. (p = "transposes" /\ O) \/ p = "refused" \/ p = "pools"
      BY <2>2, Zenon
    <3> HIDE DEF O, F, G, p
    <3>2. QED
      BY <3>1
  <2>5. QED
    BY <2>3, <2>4, Zenon DEF KeptSoFar
<1>2. CASE FoldTranspose
  <2>1. /\ Meaning(graph') = Meaning(graph) /\ original' = original
        /\ Oversized(graph) = {} => Oversized(graph') = {}
    BY <1>2, FoldStep, Zenon DEF FoldTranspose
  <2>2. Oversized(graph) = {}
    <3>1. phase = "transposes"
      BY <1>2, Zenon DEF FoldTranspose
    <3>2. QED
      BY <3>1, Zenon DEF KeptSoFar
  <2>3. \/ phase' = "grouped" /\ Folds(graph') = {}
        \/ phase' = "transposes"
    BY <1>2, Zenon DEF FoldTranspose
  <2>4. Meaning(graph') = Meaning(original')
    BY <2>1, Zenon DEF KeptSoFar
  <2> DEFINE O == Oversized(graph') = {}
             F == Folds(graph') = {}
             G == Grouped(graph') = {}
             p == phase'
  <2>5. /\ p \in {"transposes", "grouped", "done"} => O
        /\ p \in {"grouped", "done"} => F
        /\ p = "done" => G
    <3>1. O /\ ((p = "grouped" /\ F) \/ p = "transposes")
      BY <2>1, <2>2, <2>3, Zenon
    <3> HIDE DEF O, F, G, p
    <3>2. QED
      BY <3>1
  <2>6. QED
    BY <2>4, <2>5, Zenon DEF KeptSoFar
<1>3. CASE Densify
  <2>1. /\ Meaning(graph') = Meaning(graph) /\ original' = original
        /\ Oversized(graph) = {} => Oversized(graph') = {}
        /\ Folds(graph) = {} => Folds(graph') = {}
    BY <1>3, DenseKeeps, Zenon DEF Densify
  <2>2. Oversized(graph) = {} /\ Folds(graph) = {}
    <3>1. phase = "grouped"
      BY <1>3, Zenon DEF Densify
    <3>2. QED
      BY <3>1, Zenon DEF KeptSoFar
  <2>3. \/ phase' = "done" /\ Grouped(graph') = {}
        \/ phase' = "refused"
        \/ phase' = "grouped"
    BY <1>3, Zenon DEF Densify, Refuse
  <2>4. Meaning(graph') = Meaning(original')
    BY <2>1, Zenon DEF KeptSoFar
  <2> DEFINE O == Oversized(graph') = {}
             F == Folds(graph') = {}
             G == Grouped(graph') = {}
             p == phase'
  <2>5. /\ p \in {"transposes", "grouped", "done"} => O
        /\ p \in {"grouped", "done"} => F
        /\ p = "done" => G
    <3>1. O /\ F /\ ((p = "done" /\ G) \/ p = "refused" \/ p = "grouped")
      BY <2>1, <2>2, <2>3, Zenon
    <3> HIDE DEF O, F, G, p
    <3>2. QED
      BY <3>1
  <2>6. QED
    BY <2>4, <2>5, Zenon DEF KeptSoFar
<1>4. CASE UNCHANGED gvars
  <2>1. graph' = graph /\ original' = original /\ phase' = phase
    BY <1>4 DEF gvars
  <2>2. QED
    BY <2>1, Zenon DEF KeptSoFar
<1>5. QED
  BY <1>1, <1>2, <1>3, <1>4, Zenon DEF GraphNext

\* What the compiler rejects, a loop would still find.
LEMMA NothingLeft ==
  ASSUME NEW g, Oversized(g) = {}, Folds(g) = {}
  PROVE  /\ PoolIssues(g) = {}
         /\ \A i \in TransposeIssues(g) : ~Foldable(g, i) /\ ~WeightFoldable(g, i)
<1>1. ASSUME NEW i \in PoolIssues(g) PROVE i \in Oversized(g)
  <2>1. CASE /\ g.nodes[i].op = "AveragePool"
             /\ \E a \in 1..2 : g.nodes[i].k[a] > MaxWindow \/ g.nodes[i].s[a] > MaxStride
    <3>1. Kernel(g, i) = g.nodes[i].k /\ Stride(g, i) = g.nodes[i].s
      BY <2>1, Zenon DEF Kernel, Stride
    <3>2. g.nodes[i].op \in PoolOps
      BY <2>1, Zenon DEF PoolOps
    <3>3. QED
      BY <2>1, <3>1, <3>2, Zenon DEF Oversized, PoolIssues
  <2>2. CASE /\ g.nodes[i].op = "GlobalAveragePool"
             /\ \E a \in 1..2 : Env(g)[g.nodes[i].ins[1]].shape[a + 1] > MaxWindow
    <3> DEFINE sh == Env(g)[g.nodes[i].ins[1]].shape
               k == <<sh[2], sh[3]>>
    <3>1. "GlobalAveragePool" # "AveragePool"
      OBVIOUS
    <3>2. Kernel(g, i) = k
      BY <2>2, <3>1, Zenon DEF Kernel
    <3>3. g.nodes[i].op \in PoolOps
      BY <2>2, Zenon DEF PoolOps
    <3>4. \A a \in 1..2 : k[a] = sh[a + 1]
      <4> HIDE DEF sh
      <4>1. QED
        OBVIOUS
    <3> HIDE DEF k
    <3>5. \E a \in 1..2 : k[a] > MaxWindow
      BY <2>2, <3>4, Zenon
    <3>6. QED
      BY <3>2, <3>3, <3>5, Zenon DEF Oversized, PoolIssues
  <2>3. QED
    BY <2>1, <2>2, Zenon DEF PoolIssues
<1>2. ASSUME NEW i \in TransposeIssues(g) PROVE ~Foldable(g, i) /\ ~WeightFoldable(g, i)
  <2>1. i \in FcNodes(g)
    BY Zenon DEF TransposeIssues
  <2>2. QED
    BY <2>1, Zenon DEF Folds
<1>3. QED
  BY <1>1, <1>2, Zenon

\* "The mathematics is unchanged" (pool_decompose.py:10), for every size of the
\* pool unit, every graph and every length of the three loops: at every step the
\* graph means what it meant, and at the end no pool is left that the compiler
\* rejects, no grouped convolution, and no Transpose that a rule would remove.
\* It takes for granted that every graph on the way is as an exporter makes it,
\* and that a pool that becomes a ReduceMean takes its whole image.
THEOREM MathematicsKept ==
  GraphSpec /\ [](WellFormed(graph) /\ ReducesWhole) => []MathematicsUnchanged
<1> DEFINE Fine == WellFormed(graph) /\ ReducesWhole
<1>1. GraphInit => KeptSoFar
  <2>1. SUFFICES ASSUME GraphInit PROVE KeptSoFar
    OBVIOUS
  <2>2. graph = original /\ phase = "pools"
    BY <2>1, Zenon DEF GraphInit
  <2>3. phase \notin {"transposes", "grouped", "done"} /\ phase \notin {"grouped", "done"} /\ phase # "done"
    BY <2>2
  <2>4. QED
    BY <2>2, <2>3, Zenon DEF KeptSoFar
<1>2. KeptSoFar /\ Fine /\ [GraphNext]_gvars => KeptSoFar'
  BY KeptAlways, Zenon
<1>3. KeptSoFar /\ Fine => MathematicsUnchanged
  <2>1. SUFFICES ASSUME KeptSoFar, WellFormed(graph), ReducesWhole PROVE MathematicsUnchanged
    BY Zenon
  <2>2. ASSUME phase = "done"
        PROVE  /\ PoolIssues(graph) = {} /\ Grouped(graph) = {}
               /\ \A i \in TransposeIssues(graph) : ~Foldable(graph, i) /\ ~WeightFoldable(graph, i)
    <3>1. Oversized(graph) = {} /\ Folds(graph) = {} /\ Grouped(graph) = {}
      BY <2>1, <2>2, Zenon DEF KeptSoFar
    <3>2. QED
      BY <3>1, NothingLeft, Zenon
  <2>3. QED
    BY <2>1, <2>2, Zenon DEF MathematicsUnchanged, KeptSoFar
<1> HIDE DEF Fine
<1>4. GraphSpec /\ []Fine => []MathematicsUnchanged
  BY <1>1, <1>2, <1>3, PTL DEF GraphSpec
<1>5. QED
  BY <1>4, PTL DEF Fine
===============================================================================
