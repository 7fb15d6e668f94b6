-------------------------- MODULE DeploymentsProofs --------------------------
(***************************************************************************)
(* Theorems about Deployments, for any shells, static ranges, names,       *)
(* generations of credentials, lifetimes of tokens and numbers of commands *)
(* and failures that the assumptions of the modules allow.                 *)
(*                                                                         *)
(* First the selection of an address, which is a computation.  Then the    *)
(* commands.  Their inductive invariant has three layers: what a command   *)
(* carries in its process whatever the others do (ProcessInv), what is     *)
(* stored and deployed whoever did it (CredsKept, PlacesKept), and what a  *)
(* command can rely on as long as it is alone and undisturbed (AloneInv).  *)
(* The properties that the runs check follow from it.                      *)
(***************************************************************************)
EXTENDS Deployments, FoldLemmas, FiniteSetTheorems

-----------------------------------------------------------------------------
(***************************************************************************)
(* Selecting an address, for addresses of any width and base, any limit,   *)
(* any static range and any addresses in use.                              *)
(*                                                                         *)
(* ValueOf, IncrementIP and the loop of parseIPRange are recursive         *)
(* functions.  Each is first shown to exist (Recursion of FoldLemmas), and *)
(* then to be the one that the definition chooses; what it computes is     *)
(* shown by induction (SetInduction).                                      *)
(***************************************************************************)

\* What ValueOf computes on its way: the values of the prefixes of an address.
IsValue(a, v) ==
  /\ v \in [0 .. Width -> Nat]
  /\ v[0] = 0
  /\ \A k \in 1 .. Width : v[k] = v[k - 1] * Base + a[k]

\* The number that an address stands for is the last of the values that its bytes build.
LEMMA ValueExists ==
  ASSUME NEW a \in Address
  PROVE  \E v : IsValue(a, v) /\ ValueOf(a) = v[Width]
<1> USE WidthAssumption, BaseAssumption
<1> DEFINE step == [n \in Nat |->
                      [x \in Nat |-> IF n < Width THEN x * Base + a[n + 1] ELSE 0]]
           Eq(g) == g = [k \in 0 .. Width |-> IF k = 0 THEN 0 ELSE g[k - 1] * Base + a[k]]
<1>0. \A n \in Nat : n < Width => a[n + 1] \in Nat
  BY DEF Address, Byte
<1>1. step \in [Nat -> [Nat -> Nat]]
  <2>2. \A x \in Nat : x * Base \in Nat
    OBVIOUS
  <2> QED
    BY <1>0, <2>2
<1>2. PICK g \in [Nat -> Nat] : g[0] = 0 /\ \A n \in Nat : g[n + 1] = step[n][g[n]]
  <2> HIDE DEF step
  <2>1. 0 \in Nat
    OBVIOUS
  <2>2. HasRecursion(Nat)
    BY Recursion, Zenon
  <2> QED
    BY <1>1, <2>1, <2>2 DEF HasRecursion
<1>3. \E h : Eq(h)
  <2> DEFINE h == [k \in 0 .. Width |-> g[k]]
  <2>1. ASSUME NEW k \in 0 .. Width, k > 0
        PROVE  g[k] = g[k - 1] * Base + a[k]
    <3>1. k - 1 \in Nat /\ k - 1 < Width /\ (k - 1) + 1 = k
      BY <2>1
    <3>2. g[(k - 1) + 1] = step[k - 1][g[k - 1]]
      BY <1>2, <3>1
    <3>3. step[k - 1][g[k - 1]] = g[k - 1] * Base + a[(k - 1) + 1]
      BY <3>1
    <3> HIDE DEF step
    <3> QED
      BY <3>1, <3>2, <3>3
  <2>2. ASSUME NEW k \in 0 .. Width
        PROVE  h[k] = IF k = 0 THEN 0 ELSE h[k - 1] * Base + a[k]
    <3>1. CASE k > 0
      <4>1. k - 1 \in 0 .. Width
        BY <3>1
      <4> HIDE DEF step
      <4> QED
        BY <2>1, <3>1, <4>1
    <3>2. CASE k = 0
      <4>1. h[0] = g[0]
        OBVIOUS
      <4> HIDE DEF h, step
      <4> QED
        BY <1>2, <3>2, <4>1
    <3> QED
      BY <3>1, <3>2
  <2>3. h = [k \in 0 .. Width |-> h[k]]
    OBVIOUS
  <2> HIDE DEF h
  <2>4. Eq(h)
    BY <2>2, <2>3
  <2> QED
    BY <2>4
<1>4. PICK v : Eq(v) /\ ValueOf(a) = v[Width]
  <2> DEFINE w == CHOOSE g1 : Eq(g1)
  <2>1. ValueOf(a) = w[Width]
    BY DEF ValueOf
  <2>2. Eq(w)
    BY <1>3
  <2> HIDE DEF w
  <2> QED
    BY <2>1, <2>2
<1> HIDE DEF step
<1>5. DOMAIN v = 0 .. Width /\ v = [k \in 0 .. Width |-> v[k]]
  BY <1>4
<1>6. v[0] = 0 /\ \A k \in 1 .. Width : v[k] = v[k - 1] * Base + a[k]
  <2>1. \A k \in 0 .. Width : v[k] = IF k = 0 THEN 0 ELSE v[k - 1] * Base + a[k]
    BY <1>4
  <2>2. 0 \in 0 .. Width /\ \A k \in 1 .. Width : k \in 0 .. Width /\ k # 0
    OBVIOUS
  <2> HIDE DEF Eq
  <2> QED
    BY <2>1, <2>2
<1> DEFINE T == {n \in Nat : n <= Width => v[n] \in Nat}
<1>7. ASSUME NEW n \in Nat, n \in T PROVE n + 1 \in T
  <2>1. ASSUME n + 1 <= Width PROVE v[n + 1] \in Nat
    <3>1. v[n + 1] = v[n] * Base + a[n + 1]
      <4>1. n + 1 \in 1 .. Width /\ (n + 1) - 1 = n
        BY <2>1
      <4> QED
        BY <1>6, <4>1
    <3>2. v[n] \in Nat
      BY <1>7, <2>1
    <3>3. a[n + 1] \in Nat
      BY <1>0, <2>1
    <3> HIDE DEF T
    <3> QED
      BY <3>1, <3>2, <3>3
  <2> QED
    BY <2>1
<1>8. T = Nat
  <2>1. 0 \in T /\ T \in SUBSET Nat
    BY <1>6
  <2> HIDE DEF T
  <2> QED
    BY <1>7, <2>1, SetInduction
<1>9. \A n \in 0 .. Width : v[n] \in Nat
  BY <1>8
<1>10. IsValue(a, v)
  BY <1>5, <1>6, <1>9 DEF IsValue
<1> QED
  BY <1>4, <1>10

-----------------------------------------------------------------------------
\* Multiplication keeps the order.
LEMMA Multiples ==
  ASSUME NEW x \in Nat, NEW y \in Nat, NEW z \in Nat, x <= y
  PROVE  x * z <= y * z
<1> DEFINE d == y - x
<1>1. d \in Nat /\ y = x + d
  OBVIOUS
<1> HIDE DEF d
<1>2. y * z = x * z + d * z
  BY <1>1
<1>3. d * z \in Nat /\ x * z \in Nat
  BY <1>1
<1> QED
  BY <1>2, <1>3

\* A number has one last digit.
LEMMA Digits ==
  ASSUME NEW x \in Nat, NEW y \in Nat, NEW r \in Byte, NEW s \in Byte,
         x * Base + r = y * Base + s
  PROVE  x = y /\ r = s
<1> USE BaseAssumption DEF Byte
<1>1. ASSUME NEW u \in Nat, NEW w \in Nat, u < w, NEW q \in Byte, NEW t \in Byte
      PROVE  u * Base + q # w * Base + t
  <2>1. u + 1 \in Nat /\ u + 1 <= w
    BY <1>1
  <2>2. (u + 1) * Base <= w * Base
    BY <2>1, Multiples
  <2>3. (u + 1) * Base = u * Base + Base
    OBVIOUS
  <2>4. u * Base \in Nat /\ w * Base \in Nat
    OBVIOUS
  <2> QED
    BY <2>2, <2>3, <2>4
<1>2. x = y
  BY <1>1
<1> QED
  BY <1>2

\* An address stands for a natural number.
LEMMA ValueNat ==
  ASSUME NEW a \in Address
  PROVE  ValueOf(a) \in Nat
<1>1. PICK v : IsValue(a, v) /\ ValueOf(a) = v[Width]
  BY ValueExists
<1>2. Width \in 0 .. Width
  BY WidthAssumption
<1> QED
  BY <1>1, <1>2 DEF IsValue

\* Two addresses that stand for the same number are the same.
LEMMA ValueInjective ==
  ASSUME NEW a \in Address, NEW b \in Address, ValueOf(a) = ValueOf(b)
  PROVE  a = b
<1> USE WidthAssumption, BaseAssumption
<1>1. PICK v : IsValue(a, v) /\ ValueOf(a) = v[Width]
  BY ValueExists
<1>2. PICK w : IsValue(b, w) /\ ValueOf(b) = w[Width]
  BY ValueExists
<1>3. ASSUME NEW k \in 1 .. Width, v[k] = w[k]
      PROVE  v[k - 1] = w[k - 1] /\ a[k] = b[k]
  <2>1. v[k] = v[k - 1] * Base + a[k] /\ w[k] = w[k - 1] * Base + b[k]
    BY <1>1, <1>2 DEF IsValue
  <2>2. v[k - 1] \in Nat /\ w[k - 1] \in Nat
    BY <1>1, <1>2 DEF IsValue
  <2>3. a[k] \in Byte /\ b[k] \in Byte
    BY DEF Address
  <2>4. v[k - 1] * Base + a[k] = w[k - 1] * Base + b[k]
    BY <1>3, <2>1
  <2> DEFINE x == v[k - 1]
             y == w[k - 1]
             r == a[k]
             s == b[k]
  <2> HIDE DEF x, y, r, s
  <2>5. x \in Nat /\ y \in Nat /\ r \in Byte /\ s \in Byte /\ x * Base + r = y * Base + s
    BY <2>2, <2>3, <2>4 DEF x, y, r, s
  <2>6. x = y /\ r = s
    BY <2>5, Digits
  <2> QED
    BY <2>6 DEF x, y, r, s
<1> DEFINE T == {n \in Nat : n <= Width => v[Width - n] = w[Width - n]}
<1>4. ASSUME NEW n \in Nat, n \in T PROVE n + 1 \in T
  <2>1. ASSUME n + 1 <= Width PROVE v[Width - (n + 1)] = w[Width - (n + 1)]
    <3>1. Width - n \in 1 .. Width /\ (Width - n) - 1 = Width - (n + 1)
      BY <2>1
    <3>2. v[Width - n] = w[Width - n]
      BY <1>4, <2>1
    <3>3. v[(Width - n) - 1] = w[(Width - n) - 1]
      BY <1>3, <3>1, <3>2
    <3> QED
      BY <3>1, <3>3
  <2> QED
    BY <2>1
<1>5. T = Nat
  <2>1. T \in SUBSET Nat
    OBVIOUS
  <2>2. v[Width] = w[Width]
    BY <1>1, <1>2
  <2>3. 0 \in T
    BY <2>2
  <2> HIDE DEF T
  <2> QED
    BY <1>4, <2>1, <2>3, SetInduction
<1>6. ASSUME NEW k \in 1 .. Width PROVE a[k] = b[k]
  <2>1. Width - k \in Nat /\ Width - k <= Width /\ Width - (Width - k) = k
    OBVIOUS
  <2>2. v[k] = w[k]
    BY <1>5, <2>1
  <2> QED
    BY <1>3, <2>2
<1> QED
  BY <1>6 DEF Address

\* incrementIP returns an address.
LEMMA IncrementType ==
  ASSUME NEW a \in Address
  PROVE  IncrementIP(a) \in Address
<1> USE WidthAssumption, BaseAssumption
<1>1. ASSUME NEW i \in 1 .. Width, i \notin Carried(a), i = Width \/ i + 1 \in Carried(a)
      PROVE  a[i] # Base - 1
  <2>1. CASE i = Width
    BY <1>1, <2>1 DEF Carried
  <2>2. CASE i + 1 \in Carried(a)
    <3>1. \A j \in i + 1 .. Width : a[j] = Base - 1
      BY <2>2 DEF Carried
    <3>2. PICK j \in i .. Width : a[j] # Base - 1
      BY <1>1 DEF Carried
    <3> QED
      BY <3>1, <3>2
  <2> QED
    BY <1>1, <2>1, <2>2
<1>2. ASSUME NEW i \in 1 .. Width PROVE IncrementIP(a)[i] \in Byte
  <2>1. a[i] \in Byte
    BY DEF Address
  <2> QED
    BY <1>1, <2>1 DEF IncrementIP, Byte
<1> QED
  BY <1>2 DEF IncrementIP, Address

\* incrementIP adds one, unless the address is the highest.
LEMMA IncrementAddsOne ==
  ASSUME NEW a \in Address, 1 \notin Carried(a)
  PROVE  ValueOf(IncrementIP(a)) = ValueOf(a) + 1
<1> USE WidthAssumption, BaseAssumption
<1> DEFINE b == IncrementIP(a)
           Inc(k) == k = Width \/ k + 1 \in Carried(a)
<1>1. PICK v : IsValue(a, v) /\ ValueOf(a) = v[Width]
  BY ValueExists
<1>2. PICK w : IsValue(b, w) /\ ValueOf(b) = w[Width]
  BY ValueExists, IncrementType
<1> DEFINE T == {n \in Nat : n <= Width => w[n] = IF Inc(n) THEN v[n] + 1 ELSE v[n]}
<1>3. 0 \in T
  BY <1>1, <1>2 DEF IsValue
<1>4. ASSUME NEW n \in Nat, n \in T PROVE n + 1 \in T
  <2>1. ASSUME n + 1 <= Width PROVE w[n + 1] = IF Inc(n + 1) THEN v[n + 1] + 1 ELSE v[n + 1]
    <3> DEFINE k == n + 1
    <3>1. k \in 1 .. Width /\ k - 1 = n
      BY <2>1
    <3>2. v[k] = v[n] * Base + a[k] /\ w[k] = w[n] * Base + b[k]
      BY <1>1, <1>2, <3>1 DEF IsValue
    <3>3. v[n] \in Nat /\ a[k] \in Nat /\ v[n] * Base \in Nat
      <4>1. v[n] \in Nat
        BY <1>1, <2>1 DEF IsValue
      <4>2. a[k] \in Byte
        BY <3>1 DEF Address
      <4> QED
        BY <4>1, <4>2 DEF Byte
    <3>4. w[n] = IF Inc(n) THEN v[n] + 1 ELSE v[n]
      BY <1>4, <2>1
    <3>5. b[k] = IF k \in Carried(a) THEN 0 ELSE IF Inc(k) THEN a[k] + 1 ELSE a[k]
      BY <3>1 DEF IncrementIP
    <3>6. CASE k \in Carried(a)
      <4>1. a[k] = Base - 1 /\ Inc(k) /\ Inc(n)
        BY <3>1, <3>6 DEF Carried
      <4>2. w[k] = (v[n] + 1) * Base + 0
        BY <3>2, <3>4, <3>5, <3>6, <4>1
      <4>3. (v[n] + 1) * Base = v[n] * Base + Base
        BY <3>3
      <4>4. w[k] = v[k] + 1
        BY <3>2, <3>3, <4>1, <4>2, <4>3
      <4> QED
        BY <4>1, <4>4
    <3>7. CASE k \notin Carried(a)
      <4>1. ~Inc(n)
        BY <2>1, <3>7
      <4>2. w[k] = v[n] * Base + b[k]
        BY <3>2, <3>4, <4>1
      <4> HIDE DEF Inc, b, k
      <4> QED
        BY <3>2, <3>3, <3>5, <3>7, <4>2 DEF k
    <3> QED
      BY <3>6, <3>7
  <2> HIDE DEF Inc
  <2> QED
    BY <2>1
<1>5. T = Nat
  <2>1. T \in SUBSET Nat
    OBVIOUS
  <2> HIDE DEF T
  <2> QED
    BY <1>3, <1>4, <2>1, SetInduction
<1>6. w[Width] = v[Width] + 1
  BY <1>5
<1> QED
  BY <1>1, <1>2, <1>6

\* The address whose every byte carries, 255.255.255.255, is the highest.
LEMMA FullIsHighest ==
  ASSUME NEW a \in Address, NEW b \in Address, 1 \in Carried(a)
  PROVE  ValueOf(b) <= ValueOf(a)
<1> USE WidthAssumption, BaseAssumption
<1>1. PICK v : IsValue(a, v) /\ ValueOf(a) = v[Width]
  BY ValueExists
<1>2. PICK w : IsValue(b, w) /\ ValueOf(b) = w[Width]
  BY ValueExists
<1> DEFINE T == {n \in Nat : n <= Width => w[n] <= v[n]}
<1>3. 0 \in T
  BY <1>1, <1>2 DEF IsValue
<1>4. ASSUME NEW n \in Nat, n \in T PROVE n + 1 \in T
  <2>1. ASSUME n + 1 <= Width PROVE w[n + 1] <= v[n + 1]
    <3> DEFINE k == n + 1
    <3>1. k \in 1 .. Width /\ k - 1 = n
      BY <2>1
    <3>2. v[k] = v[n] * Base + a[k] /\ w[k] = w[n] * Base + b[k]
      BY <1>1, <1>2, <3>1 DEF IsValue
    <3>3. v[n] \in Nat /\ w[n] \in Nat /\ w[n] <= v[n]
      BY <1>1, <1>2, <1>4, <2>1 DEF IsValue
    <3>4. a[k] = Base - 1 /\ b[k] \in Nat /\ b[k] <= Base - 1
      BY <3>1 DEF Carried, Address, Byte
    <3>5. w[n] * Base <= v[n] * Base
      BY <3>3, Multiples
    <3>6. w[n] * Base \in Nat /\ v[n] * Base \in Nat
      BY <3>3
    <3> QED
      BY <3>2, <3>4, <3>5, <3>6
  <2> QED
    BY <2>1
<1>5. T = Nat
  <2>1. T \in SUBSET Nat
    OBVIOUS
  <2> HIDE DEF T
  <2> QED
    BY <1>3, <1>4, <2>1, SetInduction
<1>6. w[Width] <= v[Width]
  BY <1>5
<1> QED
  BY <1>1, <1>2, <1>6

-----------------------------------------------------------------------------
\* The addresses that the loop of parseIPRange comes to.
AreNext(first, s) ==
  s \in [Nat -> Address] /\ s[0] = first /\ \A n \in Nat : s[n + 1] = IncrementIP(s[n])

\* The loop of parseIPRange visits the addresses one after the other.
LEMMA NextExist ==
  ASSUME NEW first \in Address
  PROVE  \E s : AreNext(first, s) /\ \A n \in Nat : Nth(first, n) = s[n]
<1> DEFINE step == [n \in Nat |-> [x \in Address |-> IncrementIP(x)]]
           Eq(g) == g = [k \in Nat |-> IF k = 0 THEN first ELSE IncrementIP(g[k - 1])]
<1>1. PICK g \in [Nat -> Address] :
        g[0] = first /\ \A n \in Nat : g[n + 1] = step[n][g[n]]
  <2>1. step \in [Nat -> [Address -> Address]]
    BY IncrementType
  <2>2. HasRecursion(Address)
    BY Recursion, Zenon
  <2> HIDE DEF step
  <2> QED
    BY <2>1, <2>2 DEF HasRecursion
<1>2. AreNext(first, g)
  <2>1. ASSUME NEW n \in Nat PROVE g[n + 1] = IncrementIP(g[n])
    <3>1. g[n + 1] = step[n][g[n]] /\ g[n] \in Address
      BY <1>1
    <3> QED
      BY <3>1
  <2> QED
    BY <1>1, <2>1 DEF AreNext
<1> HIDE DEF step
<1>3. \E h : Eq(h)
  <2>1. ASSUME NEW k \in Nat
        PROVE  g[k] = IF k = 0 THEN first ELSE IncrementIP(g[k - 1])
    <3>1. CASE k # 0
      <4>1. k - 1 \in Nat /\ (k - 1) + 1 = k
        BY <3>1
      <4>2. g[(k - 1) + 1] = IncrementIP(g[k - 1])
        BY <1>2, <4>1 DEF AreNext
      <4> QED
        BY <3>1, <4>1, <4>2
    <3> QED
      BY <1>1, <3>1
  <2>2. g = [k \in Nat |-> g[k]]
    BY <1>1
  <2>3. Eq(g)
    BY <2>1, <2>2
  <2> QED
    BY <2>3
<1>4. PICK s : Eq(s) /\ \A n \in Nat : Nth(first, n) = s[n]
  <2> DEFINE w == CHOOSE g1 : Eq(g1)
  <2>1. \A n \in Nat : Nth(first, n) = w[n]
    BY DEF Nth
  <2>2. Eq(w)
    BY <1>3
  <2> HIDE DEF w
  <2> QED
    BY <2>1, <2>2
<1>5. s = [k \in Nat |-> s[k]] /\ s[0] = first
  BY <1>4
<1>6. ASSUME NEW n \in Nat PROVE s[n + 1] = IncrementIP(s[n])
  <2>1. \A k \in Nat : s[k] = IF k = 0 THEN first ELSE IncrementIP(s[k - 1])
    BY <1>4
  <2>2. n + 1 \in Nat /\ n + 1 # 0 /\ (n + 1) - 1 = n
    OBVIOUS
  <2> HIDE DEF Eq
  <2> QED
    BY <2>1, <2>2
<1> HIDE DEF Eq
<1>7. \A n \in Nat : s[n] \in Address
  <2> DEFINE T == {n \in Nat : s[n] \in Address}
  <2>1. 0 \in T /\ T \in SUBSET Nat
    BY <1>5
  <2>2. ASSUME NEW n \in Nat, n \in T PROVE n + 1 \in T
    <3>1. s[n + 1] \in Address
      BY <1>6, <2>2, IncrementType
    <3> QED
      BY <3>1
  <2>3. T = Nat
    <3> HIDE DEF T
    <3> QED
      BY <2>1, <2>2, SetInduction
  <2> QED
    BY <2>3
<1>8. AreNext(first, s)
  BY <1>5, <1>6, <1>7 DEF AreNext
<1> QED
  BY <1>4, <1>8

\* Up to the last address, the loop's nth address is n above the first.
LEMMA NthValue ==
  ASSUME NEW first \in Address, NEW last \in Address, NEW n \in Nat,
         ValueOf(first) + n <= ValueOf(last)
  PROVE  Nth(first, n) \in Address /\ ValueOf(Nth(first, n)) = ValueOf(first) + n
<1>1. PICK s : AreNext(first, s) /\ \A k \in Nat : Nth(first, k) = s[k]
  BY NextExist
<1>2. ValueOf(first) \in Nat /\ ValueOf(last) \in Nat
  BY ValueNat
<1> DEFINE T == {k \in Nat : k <= n => ValueOf(s[k]) = ValueOf(first) + k}
<1>3. 0 \in T
  BY <1>1, <1>2 DEF AreNext
<1>4. ASSUME NEW k \in Nat, k \in T PROVE k + 1 \in T
  <2>1. ASSUME k + 1 <= n PROVE ValueOf(s[k + 1]) = ValueOf(first) + (k + 1)
    <3>1. ValueOf(s[k]) = ValueOf(first) + k /\ s[k] \in Address
      BY <1>1, <1>4, <2>1 DEF AreNext
    <3>2. ~(ValueOf(last) <= ValueOf(s[k]))
      BY <1>2, <2>1, <3>1
    <3>3. 1 \notin Carried(s[k])
      BY <3>1, <3>2, FullIsHighest
    <3>4. ValueOf(IncrementIP(s[k])) = ValueOf(s[k]) + 1
      BY <3>1, <3>3, IncrementAddsOne
    <3>5. s[k + 1] = IncrementIP(s[k])
      BY <1>1 DEF AreNext
    <3> QED
      BY <1>2, <3>1, <3>4, <3>5
  <2> QED
    BY <2>1
<1>5. T = Nat
  <2>1. T \in SUBSET Nat
    OBVIOUS
  <2> HIDE DEF T
  <2> QED
    BY <1>3, <1>4, <2>1, SetInduction
<1>6. ValueOf(s[n]) = ValueOf(first) + n
  BY <1>5
<1> QED
  BY <1>1, <1>6 DEF AreNext

\* The loop turns until it comes to the last address or to its limit of 1000.
LEMMA TurnsToEnd ==
  ASSUME NEW first \in Address, NEW last \in Address, ValueOf(first) <= ValueOf(last)
  PROVE  LET d == ValueOf(last) - ValueOf(first)
         IN  Turns(first, last) = IF d <= Limit THEN d ELSE Limit + 1
<1> USE LimitAssumption
<1> DEFINE d == ValueOf(last) - ValueOf(first)
           meets == {n \in 0 .. Limit : Nth(first, n) = last}
<1>1. ValueOf(first) \in Nat /\ ValueOf(last) \in Nat
  BY ValueNat
<1>2. d \in Nat /\ ValueOf(first) + d = ValueOf(last)
  BY <1>1
<1>3. Nth(first, d) = last
  <2> HIDE DEF d
  <2>1. Nth(first, d) \in Address /\ ValueOf(Nth(first, d)) = ValueOf(last)
    BY <1>1, <1>2, NthValue
  <2> QED
    BY <2>1, ValueInjective
<1>4. ASSUME NEW n \in Nat, n < d PROVE Nth(first, n) # last
  <2> HIDE DEF d
  <2>1. ValueOf(first) + n <= ValueOf(last) /\ ValueOf(first) + n # ValueOf(last)
    BY <1>1, <1>2, <1>4
  <2> QED
    BY <2>1, NthValue
<1> HIDE DEF d
<1>5. CASE d <= Limit
  <2> DEFINE t == CHOOSE n \in meets : \A m \in meets : n <= m
  <2>1. d \in meets /\ \A m \in meets : d <= m
    BY <1>2, <1>3, <1>4, <1>5
  <2>2. Turns(first, last) = t
    BY <2>1 DEF Turns
  <2>3. t \in meets /\ \A m \in meets : t <= m
    <3> HIDE DEF meets
    <3> QED
      BY <2>1
  <2> HIDE DEF t
  <2>4. t = d
    BY <1>2, <2>1, <2>3
  <2> QED
    BY <1>5, <2>2, <2>4 DEF d
<1>6. CASE ~(d <= Limit)
  <2>1. meets = {}
    BY <1>2, <1>4, <1>6
  <2> QED
    BY <1>6, <2>1 DEF Turns, d
<1> QED
  BY <1>5, <1>6

-----------------------------------------------------------------------------
\* The static ranges that parseIPRange accepts: one address, or a first and a last.
IsRange(span) == span \in Seq(Address) /\ Len(span) \in {1, 2}

\* The first is not above the last.
InOrder(span) == Len(span) = 2 => ValueOf(span[1]) <= ValueOf(span[2])

\* The ends of a range are addresses.
LEMMA RangeEnds ==
  ASSUME NEW span, IsRange(span), Len(span) = 2
  PROVE  span[1] \in Address /\ span[2] \in Address
<1>1. span \in Seq(Address) /\ 1 \in 1 .. Len(span) /\ 2 \in 1 .. Len(span)
  BY DEF IsRange
<1> QED
  BY <1>1

\* How many addresses of a range with an end parseIPRange lists before the end.
Listed(span) == Turns(span[1], span[2])

\* What parseIPRange appends: every address from the first, then the last.
LEMMA ListedAddresses ==
  ASSUME NEW span, IsRange(span), Len(span) = 2, InOrder(span)
  PROVE  LET ips == ParseIPRange(span)
             d   == ValueOf(span[2]) - ValueOf(span[1])
         IN  /\ Listed(span) \in Nat /\ Listed(span) = IF d <= Limit THEN d ELSE Limit + 1
             /\ Len(ips) = Listed(span) + 1
             /\ \A i \in 1 .. Listed(span) :
                  ips[i] \in Address /\ ValueOf(ips[i]) = ValueOf(span[1]) + (i - 1)
             /\ ips[Listed(span) + 1] = span[2]
<1> DEFINE first == span[1]
           last == span[2]
           d == ValueOf(last) - ValueOf(first)
           n == Listed(span)
           ips == ParseIPRange(span)
<1>1. first \in Address /\ last \in Address /\ ValueOf(first) <= ValueOf(last)
  <2>1. first \in Address /\ last \in Address
    BY RangeEnds
  <2>2. ValueOf(span[1]) <= ValueOf(span[2])
    BY DEF InOrder
  <2> QED
    BY <2>1, <2>2
<1>2. ValueOf(first) \in Nat /\ ValueOf(last) \in Nat /\ d \in Nat
  BY <1>1, ValueNat
<1>3. n = IF d <= Limit THEN d ELSE Limit + 1
  <2> HIDE DEF first, last
  <2> QED
    BY <1>1, TurnsToEnd DEF Listed, first, last
<1>4. n \in Nat /\ n <= d
  BY <1>2, <1>3, LimitAssumption
<1>5. ips = [i \in 1 .. n + 1 |-> IF i <= n THEN Nth(first, i - 1) ELSE last]
  BY DEF ParseIPRange, Listed
<1> HIDE DEF n, ips
<1>6. Len(ips) = n + 1 /\ ips[n + 1] = last
  BY <1>4, <1>5
<1>7. ASSUME NEW i \in 1 .. n
      PROVE  ips[i] \in Address /\ ValueOf(ips[i]) = ValueOf(first) + (i - 1)
  <2>1. ips[i] = Nth(first, i - 1)
    BY <1>4, <1>5
  <2>2. i - 1 \in Nat /\ ValueOf(first) + (i - 1) <= ValueOf(last)
    BY <1>2, <1>4
  <2> HIDE DEF first, last, d
  <2> QED
    BY <1>1, <2>1, <2>2, NthValue
<1> QED
  BY <1>3, <1>4, <1>6, <1>7 DEF n, ips

\* In a range that is in order, what is listed lies in the range.
LEMMA ListedInRange ==
  ASSUME NEW span, IsRange(span), InOrder(span)
  PROVE  LET ips == ParseIPRange(span)
         IN  \A i \in 1 .. Len(ips) : ips[i] \in Address /\ InRange(ips[i], span)
<1> DEFINE ips == ParseIPRange(span)
<1>1. CASE Len(span) = 2
  <2> DEFINE n == Listed(span)
             low == ValueOf(span[1])
             high == ValueOf(span[2])
  <2>1. span[1] \in Address /\ span[2] \in Address
    BY <1>1, RangeEnds
  <2>2. low \in Nat /\ high \in Nat /\ low <= high
    BY <1>1, <2>1, ValueNat DEF InOrder
  <2>3. n \in Nat /\ n <= high - low
    BY <1>1, <2>2, ListedAddresses, LimitAssumption
  <2>4. Len(ips) = n + 1 /\ ips[n + 1] = span[2]
    BY <1>1, ListedAddresses
  <2>5. \A i \in 1 .. n : ips[i] \in Address /\ ValueOf(ips[i]) = low + (i - 1)
    BY <1>1, ListedAddresses
  <2> HIDE DEF ips, n, low, high
  <2>6. ASSUME NEW i \in 1 .. Len(ips)
        PROVE  ips[i] \in Address /\ InRange(ips[i], span)
    <3>1. CASE i = n + 1
      <4>1. ips[i] = span[2]
        BY <2>4, <3>1
      <4> QED
        BY <1>1, <2>1, <2>2, <4>1 DEF InRange, low, high
    <3>2. CASE i # n + 1
      <4>1. i \in 1 .. n
        BY <2>3, <2>4, <3>2
      <4>2. low <= ValueOf(ips[i]) /\ ValueOf(ips[i]) <= high
        BY <2>2, <2>3, <2>5, <4>1
      <4> QED
        BY <1>1, <2>5, <4>1, <4>2 DEF InRange, low, high
    <3> QED
      BY <3>1, <3>2
  <2> QED
    BY <2>6 DEF ips
<1>2. CASE Len(span) = 1
  <2>1. ips = span /\ span[1] \in Address
    BY <1>2 DEF IsRange, ParseIPRange
  <2>2. \A a : InRange(a, span) <=> a = span[1]
    BY <1>2 DEF InRange
  <2> QED
    BY <1>2, <2>1, <2>2
<1> QED
  BY <1>1, <1>2 DEF IsRange

\* A proper range is listed from its lowest address to its highest, all of it.
LEMMA ProperRangeListed ==
  ASSUME NEW span, IsRange(span), ProperRange(span)
  PROVE  LET ips == ParseIPRange(span)
         IN  /\ \A a \in Address : InRange(a, span) => \E i \in 1 .. Len(ips) : ips[i] = a
             /\ \A i, j \in 1 .. Len(ips) : i <= j <=> ValueOf(ips[i]) <= ValueOf(ips[j])
<1> DEFINE ips == ParseIPRange(span)
<1>1. CASE Len(span) = 2
  <2> DEFINE n == Listed(span)
             low == ValueOf(span[1])
             high == ValueOf(span[2])
  <2>1. span[1] \in Address /\ span[2] \in Address /\ InOrder(span)
    BY <1>1, RangeEnds DEF InOrder, ProperRange
  <2>2. low \in Nat /\ high \in Nat /\ low <= high /\ high - low <= Limit + 1
    BY <1>1, <2>1, ValueNat DEF ProperRange
  <2>3. n = high - low
    BY <1>1, <2>1, <2>2, ListedAddresses, LimitAssumption
  <2>4. Len(ips) = n + 1 /\ ips[n + 1] = span[2]
    BY <1>1, <2>1, ListedAddresses
  <2>5. \A i \in 1 .. n : ips[i] \in Address /\ ValueOf(ips[i]) = low + (i - 1)
    BY <1>1, <2>1, ListedAddresses
  <2> HIDE DEF ips, n
  <2>6. ASSUME NEW i \in 1 .. Len(ips)
        PROVE  ips[i] \in Address /\ ValueOf(ips[i]) = low + (i - 1)
    <3>1. CASE i = n + 1
      <4>1. ips[i] = span[2]
        BY <2>4, <3>1
      <4> QED
        BY <2>1, <2>2, <2>3, <3>1, <4>1
    <3>2. CASE i # n + 1
      BY <2>2, <2>3, <2>4, <2>5, <3>2
    <3> QED
      BY <3>1, <3>2
  <2>7. ASSUME NEW a \in Address, InRange(a, span)
        PROVE  \E i \in 1 .. Len(ips) : ips[i] = a
    <3> DEFINE i == (ValueOf(a) - low) + 1
    <3>1. ValueOf(a) \in Nat /\ low <= ValueOf(a) /\ ValueOf(a) <= high
      BY <1>1, <2>7, ValueNat DEF InRange
    <3> HIDE DEF low, high
    <3>2. i \in 1 .. Len(ips) /\ low + (i - 1) = ValueOf(a)
      BY <2>2, <2>3, <2>4, <3>1
    <3> HIDE DEF i
    <3>3. ips[i] \in Address /\ ValueOf(ips[i]) = ValueOf(a)
      BY <2>6, <3>2
    <3> QED
      BY <3>2, <3>3, ValueInjective
  <2>8. ASSUME NEW i \in 1 .. Len(ips), NEW j \in 1 .. Len(ips)
        PROVE  i <= j <=> ValueOf(ips[i]) <= ValueOf(ips[j])
    BY <2>2, <2>3, <2>4, <2>6
  <2> QED
    BY <2>7, <2>8 DEF ips
<1>2. CASE Len(span) = 1
  <2>1. ips = span /\ span[1] \in Address
    BY <1>2 DEF IsRange, ParseIPRange
  <2>2. \A a : InRange(a, span) <=> a = span[1]
    BY <1>2 DEF InRange
  <2>3. ValueOf(span[1]) \in Nat
    BY <2>1, ValueNat
  <2>4. Len(ips) = 1 /\ ips[1] = span[1]
    BY <1>2, <2>1
  <2> HIDE DEF ips
  <2>5. \A i, j \in 1 .. Len(ips) : i = 1 /\ j = 1
    BY <2>4
  <2>6. \A i, j \in 1 .. Len(ips) : i <= j <=> ValueOf(ips[i]) <= ValueOf(ips[j])
    BY <2>3, <2>4, <2>5
  <2>7. 1 \in 1 .. Len(ips)
    BY <2>4
  <2> QED
    BY <2>2, <2>4, <2>6, <2>7 DEF ips
<1> QED
  BY <1>1, <1>2 DEF IsRange

\* Whatever the range: what is selected is an address.
THEOREM SelectsAddress ==
  ASSUME NEW span, IsRange(span), NEW used, NEW a \in SelectAvailableIP(span, used)
  PROVE  a \in Address /\ a \notin used
<1> DEFINE ips == ParseIPRange(span)
<1>1. PICK i \in 1 .. Len(ips) : a = ips[i] /\ a \notin used
  BY DEF SelectAvailableIP
<1>2. ASSUME Len(span) = 1 PROVE a \in Address
  <2>1. ips = span
    BY <1>2 DEF ParseIPRange
  <2>2. span \in Seq(Address) /\ Len(span) = 1
    BY <1>2 DEF IsRange
  <2> HIDE DEF ips
  <2> QED
    BY <1>1, <2>1, <2>2
<1>3. ASSUME Len(span) = 2 PROVE a \in Address
  <2> DEFINE first == span[1]
             last == span[2]
             n == Listed(span)
             meets == {k \in 0 .. Limit : Nth(first, k) = last}
  <2>1. first \in Address /\ last \in Address
    BY <1>3, RangeEnds
  <2>2. n \in Nat
    <3>1. CASE meets = {}
      <4>1. n = Limit + 1
        BY <3>1 DEF Listed, Turns
      <4> HIDE DEF n
      <4> QED
        BY <4>1, LimitAssumption
    <3>2. CASE meets # {}
      <4>1. meets \in SUBSET Nat
        OBVIOUS
      <4>2. n = CHOOSE k \in meets : \A m \in meets : k <= m
        BY <3>2 DEF Listed, Turns
      <4>3. n \in meets
        <5> HIDE DEF meets
        <5> QED
          BY <3>2, <4>1, <4>2, LeastNat
      <4> QED
        BY <4>3
    <3> QED
      BY <3>1, <3>2
  <2>3. ips = [k \in 1 .. n + 1 |-> IF k <= n THEN Nth(first, k - 1) ELSE last]
    BY <1>3 DEF ParseIPRange, Listed
  <2>4. PICK s : AreNext(first, s) /\ \A k \in Nat : Nth(first, k) = s[k]
    BY <2>1, NextExist
  <2> HIDE DEF ips, n, first, last
  <2>5. i \in 1 .. n + 1
    BY <1>1, <2>2, <2>3
  <2>6. CASE i <= n
    <3>1. i - 1 \in Nat /\ a = Nth(first, i - 1)
      BY <1>1, <2>2, <2>3, <2>5, <2>6
    <3> QED
      BY <2>4, <3>1 DEF AreNext
  <2>7. CASE ~(i <= n)
    <3>1. ips[i] = last
      BY <2>3, <2>5, <2>7
    <3> QED
      BY <1>1, <2>1, <3>1
  <2> QED
    BY <2>6, <2>7
<1> QED
  BY <1>1, <1>2, <1>3 DEF IsRange

\* When the range is in order, the address is in it.
THEOREM SelectsFromRange ==
  ASSUME NEW span, IsRange(span), InOrder(span), NEW used,
         NEW a \in SelectAvailableIP(span, used)
  PROVE  a \in Address /\ InRange(a, span) /\ a \notin used
<1>1. PICK i \in 1 .. Len(ParseIPRange(span)) :
        a = ParseIPRange(span)[i] /\ ParseIPRange(span)[i] \notin used
  BY DEF SelectAvailableIP
<1> QED
  BY <1>1, ListedInRange

\* The list has a length.
LEMMA LenIsNat ==
  ASSUME NEW span, IsRange(span), InOrder(span)
  PROVE  Len(ParseIPRange(span)) \in Nat
<1>1. CASE Len(span) = 2
  BY <1>1, ListedAddresses
<1>2. CASE Len(span) = 1
  BY <1>2 DEF ParseIPRange
<1> QED
  BY <1>1, <1>2 DEF IsRange

\* Some address is selected as soon as one that is listed is free.
LEMMA SelectsSome ==
  ASSUME NEW span, IsRange(span), InOrder(span), NEW used,
         NEW i \in 1 .. Len(ParseIPRange(span)), ParseIPRange(span)[i] \notin used
  PROVE  SelectAvailableIP(span, used) # {}
<1> DEFINE ips == ParseIPRange(span)
           free == {j \in 1 .. Len(ips) : ips[j] \notin used}
<1>1. free \in SUBSET Nat /\ free # {}
  BY LenIsNat
<1>2. PICK j \in free : \A k \in free : j <= k
  <2> HIDE DEF free
  <2> QED
    BY <1>1, LeastNat
<1> QED
  BY <1>2 DEF SelectAvailableIP

\* SelectAvailableIP over a range in order and not longer than the limit returns the
\* lowest free address of the range, and fails only when there is none: for every range and
\* every set of addresses in use.
THEOREM SelectionIsLowestFree ==
  ASSUME NEW span, IsRange(span), ProperRange(span), NEW used
  PROVE  SelectAvailableIP(span, used) = LowestFree(span, used)
<1> DEFINE ips == ParseIPRange(span)
           free == {i \in 1 .. Len(ips) : ips[i] \notin used}
           freeIPs == {a \in Address : InRange(a, span) /\ a \notin used}
<1>0. InOrder(span)
  BY DEF InOrder, ProperRange
<1>1. \A i \in 1 .. Len(ips) : ips[i] \in Address /\ InRange(ips[i], span)
  BY <1>0, ListedInRange
<1>2. \A a \in Address : InRange(a, span) => \E i \in 1 .. Len(ips) : ips[i] = a
  BY ProperRangeListed
<1>3. \A i, j \in 1 .. Len(ips) : i <= j <=> ValueOf(ips[i]) <= ValueOf(ips[j])
  BY ProperRangeListed
<1>4. SelectAvailableIP(span, used) = {ips[i] : i \in {k \in free : \A j \in free : k <= j}}
  BY DEF SelectAvailableIP
<1>5. LowestFree(span, used) = {a \in freeIPs : \A b \in freeIPs : ValueOf(a) <= ValueOf(b)}
  BY DEF LowestFree
<1>6. ASSUME NEW a \in SelectAvailableIP(span, used) PROVE a \in LowestFree(span, used)
  <2>1. PICK i \in 1 .. Len(ips) : a = ips[i] /\ i \in free /\ \A j \in free : i <= j
    BY <1>4
  <2>2. a \in freeIPs
    BY <1>1, <2>1
  <2>3. ASSUME NEW b \in freeIPs PROVE ValueOf(a) <= ValueOf(b)
    <3>1. PICK j \in 1 .. Len(ips) : ips[j] = b
      BY <1>2
    <3>2. i <= j
      BY <2>1, <3>1
    <3> QED
      BY <1>3, <2>1, <3>1, <3>2
  <2> QED
    BY <1>5, <2>2, <2>3
<1>7. ASSUME NEW a \in LowestFree(span, used) PROVE a \in SelectAvailableIP(span, used)
  <2>1. a \in Address /\ InRange(a, span) /\ a \notin used
    BY <1>5
  <2>2. PICK i \in 1 .. Len(ips) : ips[i] = a
    BY <1>2, <2>1
  <2>3. ASSUME NEW j \in free PROVE i <= j
    <3>1. ips[j] \in freeIPs
      BY <1>1
    <3>2. ValueOf(a) <= ValueOf(ips[j])
      BY <1>5, <3>1
    <3> QED
      BY <1>3, <2>2, <3>2
  <2> QED
    BY <1>4, <2>1, <2>2, <2>3
<1> QED
  BY <1>6, <1>7

\* A list that is longer than a set that holds all of its items has two alike.
LEMMA TwoAlike ==
  ASSUME NEW n \in Nat, NEW set, IsFiniteSet(set), Cardinality(set) < n,
         NEW list \in [1 .. n -> set]
  PROVE  \E i, j \in 1 .. n : i < j /\ list[i] = list[j]
<1> DEFINE places == 1 .. n
<1>1. IsFiniteSet(places) /\ Cardinality(places) = n
  BY FS_Interval
<1>2. Cardinality(set) < Cardinality(places) /\ list \in [places -> set]
  BY <1>1
<1> HIDE DEF places
<1>3. \E i, j \in places : i # j /\ list[i] = list[j]
  BY <1>1, <1>2, FS_PigeonHole, Zenon
<1> QED
  BY <1>3 DEF places

\* A selection that fails fails because no address of the range is free: whatever is in use
\* if the range is no longer than the limit, and otherwise as long as no more addresses are
\* in use than one more than the limit, since the loop lists one address more than that.
THEOREM SelectionFindsFree ==
  ASSUME NEW span, IsRange(span), NEW used,
         ProperRange(span) \/ (IsFiniteSet(used) /\ Cardinality(used) <= Limit + 1),
         SelectAvailableIP(span, used) = {}
  PROVE  LowestFree(span, used) = {}
<1>1. CASE ProperRange(span)
  <2>1. SelectAvailableIP(span, used) = LowestFree(span, used)
    BY <1>1, SelectionIsLowestFree
  <2> QED
    BY <2>1
<1>2. CASE ~ProperRange(span) /\ ~InOrder(span)
  <2>1. Len(span) = 2 /\ span[1] \in Address /\ span[2] \in Address
    BY <1>2, RangeEnds DEF InOrder
  <2>2. ~(ValueOf(span[1]) <= ValueOf(span[2]))
    BY <1>2 DEF InOrder
  <2>3. \A a \in Address : ~InRange(a, span)
    BY <2>1, <2>2, ValueNat DEF InRange
  <2> QED
    BY <2>3 DEF LowestFree
<1>3. CASE ~ProperRange(span) /\ InOrder(span)
  <2> DEFINE ips == ParseIPRange(span)
  <2>1. Len(span) = 2 /\ span[1] \in Address /\ span[2] \in Address
    BY <1>3, RangeEnds DEF ProperRange
  <2>2. /\ ValueOf(span[1]) \in Nat /\ ValueOf(span[2]) \in Nat
        /\ ~(ValueOf(span[2]) - ValueOf(span[1]) <= Limit + 1)
    BY <1>3, <2>1, ValueNat DEF ProperRange, InOrder
  <2>3. Listed(span) = Limit + 1 /\ Len(ips) = Limit + 2
    BY <1>3, <2>1, <2>2, ListedAddresses, LimitAssumption
  <2>4. \A i \in 1 .. Limit + 1 : ValueOf(ips[i]) = ValueOf(span[1]) + (i - 1)
    BY <1>3, <2>1, <2>3, ListedAddresses
  <2>5. ips[Limit + 2] = span[2]
    BY <1>3, <2>1, <2>3, ListedAddresses, LimitAssumption
  <2> HIDE DEF ips
  <2>6. ASSUME NEW i \in 1 .. Limit + 2, NEW j \in 1 .. Limit + 2, i < j
        PROVE  ips[i] # ips[j]
    <3> DEFINE low == ValueOf(span[1])
               high == ValueOf(span[2])
    <3>1. /\ i \in Nat /\ j \in Nat /\ low \in Nat /\ high \in Nat /\ low + Limit + 1 < high
          /\ i \in 1 .. Limit + 1 /\ (j \in 1 .. Limit + 1 \/ j = Limit + 2)
      BY <2>2, <2>6, LimitAssumption
    <3>2. ValueOf(ips[i]) = low + (i - 1)
      BY <2>4, <3>1
    <3>3. CASE j \in 1 .. Limit + 1
      <4>1. ValueOf(ips[j]) = low + (j - 1)
        BY <2>4, <3>3
      <4> HIDE DEF low
      <4>2. low + (i - 1) # low + (j - 1)
        BY <2>6, <3>1
      <4> QED
        BY <3>2, <4>1, <4>2
    <3>4. CASE j = Limit + 2
      <4>1. ValueOf(ips[j]) = high
        BY <2>5, <3>4
      <4> HIDE DEF low, high
      <4>2. low + (i - 1) # high
        BY <3>1, LimitAssumption
      <4> QED
        BY <3>2, <4>1, <4>2
    <3> QED
      BY <3>1, <3>3, <3>4
  <2>7. PICK i \in 1 .. Limit + 2 : ips[i] \notin used
    <3> SUFFICES ASSUME \A i \in 1 .. Limit + 2 : ips[i] \in used
                 PROVE  FALSE
      OBVIOUS
    <3> DEFINE listed == [i \in 1 .. Limit + 2 |-> ips[i]]
    <3>1. IsFiniteSet(used) /\ Cardinality(used) < Limit + 2 /\ Limit + 2 \in Nat
      BY <1>3, FS_CardinalityType, LimitAssumption
    <3>2. listed \in [1 .. Limit + 2 -> used]
      OBVIOUS
    <3>3. PICK i \in 1 .. Limit + 2, j \in 1 .. Limit + 2 : i < j /\ listed[i] = listed[j]
      <4> HIDE DEF listed
      <4> QED
        BY <3>1, <3>2, TwoAlike
    <3> QED
      BY <2>6, <3>3
  <2> QED
    BY <1>3, <2>3, <2>7, SelectsSome DEF ips
<1> QED
  BY <1>1, <1>2, <1>3

-----------------------------------------------------------------------------
(***************************************************************************)
(* The commands.                                                           *)
(***************************************************************************)

\* The commands that come to each step.
OpsAt(step) ==
  CASE step \in {"resolve", "select", "createCPI", "connect", "filter"} -> Deploys \cup {"cfManifest"}
    [] step = "deleteCreds" -> {"cfDeploy"}
    [] step \in {"checkCPI", "write", "wardenConfig", "apply"} -> {"boshDeploy"}
    [] step = "deploy" -> Deploys
    [] step = "delete" -> {"cfDelete", "boshDelete"}
    [] step \in {"domain", "admin", "altAdmin", "say"} -> {"cfPrint", "cfLogin"}
    [] step \in {"innerIP", "innerCreds"} -> {"boshPrint"}
    [] step = "exec" -> {"printEnv"}
    [] step = "creds" -> {"credsGet", "credsDelete"}

\* The steps of a deploy that knows its address, those on the director's connection.
Prepares == {"deleteCreds", "createCPI", "connect", "filter", "write", "deploy"}
Addressed == Prepares \cup {"wardenConfig", "apply"}
Connected == {"connect", "filter", "write", "deploy", "wardenConfig", "apply"}

\* What a command has in its process, whatever the others do.
FlowOf(p) ==
  /\ cmd[p].op \in OpsAt(pc[p])
  /\ cmd[p].dry => pc[p] \in {"checkCPI", "resolve", "select"} /\ cmd[p].op \in Deploys
  /\ cmd[p].delete => cmd[p].op = "cfDeploy"
  /\ cmd[p].astray => reach = "elsewhere"

\* A deploy has an address from the moment it prepares anything.
AddressOf(p) == pc[p] \in Addressed => cmd[p].ip \in Address

\* --delete-creds works through CFOrder from the front.
TodoOf(p) ==
  /\ cmd[p].delete /\ pc[p] \in {"resolve", "select"} => cmd[p].todo = CFOrder
  /\ pc[p] = "deleteCreds" => cmd[p].todo \in {CFOrder, Tail(CFOrder), <<>>}

\* Only a shell on the outer director gets as far as a connection, and its environment is
\* back before the bosh CLI runs.
ShellOf(p) ==
  /\ pc[p] \in Connected => Outer(p)
  /\ pc[p] = "filter" /\ HasDirectNetworkAccess => cmd[p].proxy = "none"
  /\ pc[p] \in {"write", "deploy"} => cmd[p].env /\ cmd[p].proxy = ShellProxy(p)

\* All of that, of every command that runs.
ProcessInv == \A p \in Procs : Active(p) => FlowOf(p) /\ AddressOf(p) /\ TodoOf(p) /\ ShellOf(p)

\* What is stored and deployed, whoever did it: a running CF has the credentials that are stored, unless they were deleted since.
CredsKept ==
  ~tampered /\ CF.ip # NoIP
    => \A n \in CFNames : stored[n] # Absent /\ stored[n] = CF.creds[n]

\* Deployments are in the static range, and not at the same address.
PlacesKept ==
  /\ CF.ip # NoIP => InRange(CF.ip, range) /\ CF.ip # deployed.bosh
  /\ deployed.bosh # NoIP => InRange(deployed.bosh, range)

\* What a command finds in the world as long as it is alone: a name that --delete-creds has
\* yet to come to, and the names it has been through, of which none is stored.
Unsettled(p, n) == \E i \in 1 .. Len(cmd[p].todo) : cmd[p].todo[i] = n

ForcesCreds(p) ==
  cmd[p].delete /\ cmd[p].timely =>
    /\ pc[p] = "deleteCreds" => \A n \in CFNames : stored[n] = Absent \/ Unsettled(p, n)
    /\ pc[p] \in {"createCPI", "connect", "filter", "deploy"} => \A n \in CFNames : stored[n] = Absent

\* A command that asks for the password of a CF that runs has, when it has found one, the
\* one of the running CF.
FindsPassword(p) ==
  /\ pc[p] \in {"admin", "altAdmin", "say"} => CF.ip # NoIP
  /\ pc[p] = "altAdmin" /\ cmd[p].timely => stored["cf_admin_password"] = Absent
  /\ pc[p] = "say" /\ cmd[p].timely /\ ~tampered
       => cmd[p].said = <<"cf_admin_password", CF.creds["cf_admin_password"]>>

\* A redeploy of CF comes with the address that CF had when the command began.
KeepsRouter(p) ==
  cmd[p].op = "cfDeploy" /\ ~cmd[p].given =>
    /\ pc[p] = "resolve" => cmd[p].had = CF.ip
    /\ pc[p] = "select" /\ Outer(p) => cmd[p].had = NoIP
    /\ pc[p] \in Addressed /\ Outer(p) /\ cmd[p].had # NoIP => cmd[p].ip = cmd[p].had

\* The address of the deployment that is not the one of the command.
OtherPlace(p) == IF cmd[p].op = "cfDeploy" THEN deployed.bosh ELSE CF.ip

\* The director has no reason to refuse an address that the command resolved itself.
Acceptable(p) ==
  pc[p] \in Prepares /\ cmd[p].op \in Deploys /\ ~cmd[p].given /\ Outer(p) =>
    /\ InOrder(range) => InRange(cmd[p].ip, range)
    /\ cmd[p].ip # OtherPlace(p)

\* bosh deploy deploys at the address it resolved, and then finds the director there.
DeploysDirector(p) ==
  /\ pc[p] = "deploy" /\ cmd[p].op = "boshDeploy" => manifest = cmd[p].ip
  /\ pc[p] = "wardenConfig" => stored[BOSHName] # Absent
  /\ pc[p] \in {"wardenConfig", "apply"} => deployed.bosh = cmd[p].ip

\* All of that, of a command that runs alone and has met no failure.
AloneInv ==
  \A p \in Alone :
    /\ \A q \in Procs \ {p} : ~Active(q)
    /\ ForcesCreds(p) /\ FindsPassword(p) /\ KeepsRouter(p) /\ Acceptable(p) /\ DeploysDirector(p)

\* The inductive invariant.
IInv ==
  /\ DTypeOK /\ ProcessInv
  /\ CredsKept /\ PlacesKept
  /\ AloneInv

-----------------------------------------------------------------------------
\* Where a command can be, and how the last one ended.
AllSteps == Steps \cup Ended

\* A step of a command of p, which is the only one it moves.
Moves(p) ==
  /\ Active(p)
  /\ pc' \in [Procs -> AllSteps] /\ cmd' \in [Procs -> Command] /\ target' \in [Procs -> Targets]
  /\ \A q \in Procs \ {p} : pc'[q] = pc[q] /\ cmd'[q] = cmd[q] /\ target'[q] = target[q]
  /\ Active(p)' /\ cmd'[p].alone => cmd[p].alone
  /\ UNCHANGED fixedVars

\* A step that moves p, and may set the environment of its shell, moves no other shell.
LEMMA MoveTargets ==
  ASSUME DTypeOK, NEW p \in Procs, NEW from \in Steps, NEW next \in AllSteps, NEW local \in Command,
         Move(p, from, next, local), UNCHANGED fixedVars,
         target' \in [Procs -> Targets], \A q \in Procs \ {p} : target'[q] = target[q],
         local.alone => cmd[p].alone
  PROVE  /\ Moves(p)
         /\ pc[p] = from /\ pc'[p] = next
         /\ next \in Steps => cmd'[p] = local
<1>1. NoCommand \in Command
  BY DEF NoCommand, Command, Ops, Deploys
<1>2. pc[p] = from /\ from \notin Ended
  BY DEF Move, Steps, Ended
<1>3. pc' = [pc EXCEPT ![p] = next] /\ pc \in [Procs -> AllSteps]
  BY DEF Move, Goto, DTypeOK, AllSteps
<1>4. cmd' = [cmd EXCEPT ![p] = IF next \in Ended THEN NoCommand ELSE local]
      /\ cmd \in [Procs -> Command]
  BY DEF Move, DTypeOK
<1>5. next \in Steps => next \notin Ended
  BY DEF Steps, Ended
<1>6. pc'[p] = next /\ (next \in Steps => cmd'[p] = local)
  BY <1>3, <1>4, <1>5
<1>7. Active(p)' /\ cmd'[p].alone => cmd[p].alone
  BY <1>4, <1>6 DEF Active
<1>8. pc' \in [Procs -> AllSteps] /\ cmd' \in [Procs -> Command]
  BY <1>1, <1>3, <1>4
<1>9. \A q \in Procs \ {p} : pc'[q] = pc[q] /\ cmd'[q] = cmd[q]
  BY <1>3, <1>4
<1> QED
  BY <1>2, <1>6, <1>7, <1>8, <1>9 DEF Moves, Active

\* A step that moves p and leaves the environments alone moves no other shell.
LEMMA MoveMoves ==
  ASSUME DTypeOK, NEW p \in Procs, NEW from \in Steps, NEW next \in AllSteps, NEW local \in Command,
         Move(p, from, next, local), UNCHANGED <<fixedVars, target>>,
         local.alone => cmd[p].alone
  PROVE  /\ Moves(p)
         /\ pc[p] = from /\ pc'[p] = next
         /\ next \in Steps => cmd'[p] = local
<1>1. target' \in [Procs -> Targets] /\ \A q \in Procs \ {p} : target'[q] = target[q]
  BY DEF DTypeOK
<1> QED
  BY <1>1, MoveTargets

\* What is asked of the world and of the command of p.
World ==
  /\ ConfigTypeOK
  /\ kind \in Kinds /\ range \in Ranges /\ reach \in Reaches(kind)
  /\ deployed \in [cf : [ip : Address \cup {NoIP},
                         creds : [CFNames -> Generations \cup {Absent}]],
                   bosh : Address \cup {NoIP}]
  /\ innerConfig \in BOOLEAN /\ tampered \in BOOLEAN
  /\ manifest \in Address \cup {NoIP}
  /\ begun \in 0 .. MaxCommands /\ faults \in 0 .. MaxFaults
  /\ CredsKept /\ PlacesKept

Fine(p) ==
  /\ FlowOf(p) /\ AddressOf(p) /\ TodoOf(p) /\ ShellOf(p)
  /\ cmd[p].alone =>
       /\ ForcesCreds(p) /\ FindsPassword(p) /\ KeepsRouter(p) /\ Acceptable(p)
       /\ DeploysDirector(p)

\* The frame of every action: when p alone moves, the world and the command of p are all
\* that need looking at; the others are no longer alone than they were.
LEMMA FineAgain ==
  ASSUME IInv, NEW p \in Procs, Moves(p), World', Active(p)' => Fine(p)'
  PROVE  IInv'
<1>1. \A q \in Procs \ {p} :
        /\ Active(q)' = Active(q)
        /\ FlowOf(q)' = FlowOf(q) /\ AddressOf(q)' = AddressOf(q) /\ TodoOf(q)' = TodoOf(q)
        /\ ShellOf(q)' = ShellOf(q)
  BY DEF Moves, Active, FlowOf, AddressOf, TodoOf, ShellOf, Outer, ShellProxy,
         HasDirectNetworkAccess, fixedVars
<1>2. ProcessInv'
  BY <1>1 DEF IInv, ProcessInv, Fine
<1>3. \A q \in Procs \ {p} : q \in Alone' => FALSE
  BY <1>1 DEF IInv, AloneInv, Alone, Moves
<1>4. p \in Alone' => \A q \in Procs \ {p} : ~Active(q)'
  BY <1>1 DEF IInv, AloneInv, Alone, Moves
<1>5. AloneInv'
  BY <1>3, <1>4 DEF AloneInv, Alone, Fine
<1>6. \A q \in Procs : pc'[q] \in {"createCPI", "connect", "filter", "write", "deploy",
                                  "wardenConfig", "apply"} => cmd'[q].ip \in Address
  BY <1>2 DEF ProcessInv, AddressOf, Active, Addressed, Prepares, Ended
<1>7. DTypeOK'
  BY <1>6 DEF DTypeOK, Moves, World, AllSteps
<1> QED
  BY <1>2, <1>5, <1>7 DEF IInv, World

\* What the invariant says of the world and of a command that runs.
LEMMA FineNow ==
  ASSUME IInv, NEW p \in Procs, Active(p)
  PROVE  World /\ Fine(p) /\ cmd[p] \in Command /\ target[p] \in Targets /\ pc[p] \in Steps
<1>1. pc[p] \in Steps /\ cmd[p] \in Command /\ target[p] \in Targets
  BY DEF IInv, DTypeOK, Active
<1>2. World
  BY DEF IInv, DTypeOK, World
<1>3. cmd[p].alone => p \in Alone
  BY DEF Alone
<1> QED
  BY <1>1, <1>2, <1>3 DEF IInv, ProcessInv, AloneInv, Fine

\* Steps that leave the world as it is.
LEMMA WorldAgain ==
  ASSUME World, UNCHANGED <<fixedVars, worldVars, configVars, countVars>>
  PROVE  World'
BY DEF World, fixedVars, worldVars, configVars, countVars, CredsKept, PlacesKept,
       ConfigTypeOK, CF

\* A local step: only what the command of p comes to need be looked at.
LEMMA LocalAgain ==
  ASSUME IInv, NEW p \in Procs, NEW from \in Steps, NEW next \in AllSteps, NEW local \in Command,
         Local(p, from, next, local), local.alone => cmd[p].alone,
         next \in Steps => Fine(p)'
  PROVE  IInv'
<1>1. /\ Move(p, from, next, local)
      /\ UNCHANGED <<fixedVars, worldVars, target, configVars, countVars>>
  BY DEF Local, Quiet
<1>2. Moves(p) /\ pc[p] = from /\ pc'[p] = next
  BY <1>1, MoveMoves DEF IInv
<1>3. World'
  BY <1>1, <1>2, FineNow, WorldAgain DEF Moves
<1>4. Active(p)' => next \in Steps
  BY <1>2 DEF Active, AllSteps
<1> QED
  BY <1>2, <1>3, <1>4, FineAgain

-----------------------------------------------------------------------------
\* The address.
SameFlags(p) ==
  /\ cmd'[p].op = cmd[p].op /\ cmd'[p].given = cmd[p].given /\ cmd'[p].dry = cmd[p].dry
  /\ cmd'[p].delete = cmd[p].delete /\ cmd'[p].had = cmd[p].had
  /\ cmd'[p].astray = cmd[p].astray /\ cmd'[p].todo = cmd[p].todo

\* What an address must be for the rest of a deploy that resolves it itself.
Suits(p, a) ==
  ~cmd[p].given /\ Outer(p) /\ cmd[p].op \in Deploys =>
    /\ InOrder(range) => InRange(a, range)
    /\ a # OtherPlace(p)
    /\ cmd[p].op = "cfDeploy" /\ cmd[p].had # NoIP => a = cmd[p].had

\* From the address on: every way through AfterResolve keeps what is asked of the command.
LEMMA AddressFine ==
  ASSUME IInv, NEW p \in Procs, pc[p] \in {"resolve", "select"}, NEW a \in Address,
         pc'[p] = AfterResolve(p), AfterResolve(p) \in Steps,
         cmd'[p].ip = a, SameFlags(p),
         cmd'[p].alone => cmd[p].alone /\ Suits(p, a),
         UNCHANGED <<fixedVars, worldVars, target, configVars>>
  PROVE  Fine(p)'
<1>1. Fine(p)
  BY FineNow DEF Active, Ended
<1>2. \/ pc'[p] = "deleteCreds" /\ cmd[p].op # "cfManifest" /\ cmd[p].delete /\ ~cmd[p].dry
      \/ pc'[p] = "createCPI" /\ ~cmd[p].dry /\ (cmd[p].op = "cfManifest" \/ ~cmd[p].delete)
  BY <1>1 DEF AfterResolve, AfterManifestAddress, AfterDeployAddress, Steps, Fine, FlowOf, Deploys
<1>3. cmd[p].op \in Deploys \cup {"cfManifest"} /\ (cmd[p].delete => cmd[p].op = "cfDeploy")
  BY <1>1 DEF Fine, FlowOf, OpsAt
<1>4. FlowOf(p)'
  BY <1>1, <1>2, <1>3 DEF Fine, FlowOf, OpsAt, SameFlags, Deploys, fixedVars
<1>5. AddressOf(p)' /\ ShellOf(p)'
  BY <1>2 DEF AddressOf, ShellOf, Connected
<1>6. TodoOf(p)'
  BY <1>1, <1>2 DEF Fine, TodoOf, SameFlags
<1>7. ASSUME cmd'[p].alone
      PROVE  ForcesCreds(p)' /\ FindsPassword(p)' /\ KeepsRouter(p)' /\ Acceptable(p)'
             /\ DeploysDirector(p)'
  <2>1. Suits(p, a)
    BY <1>7
  <2>2. ForcesCreds(p)'
    <3>1. cmd[p].delete => cmd'[p].todo = <<"cf_admin_password", "uaa_admin_client_secret">>
      BY <1>1 DEF Fine, TodoOf, SameFlags, CFOrder
    <3>2. ASSUME cmd[p].delete, NEW n \in CFNames PROVE Unsettled(p, n)'
      BY <3>1, <3>2 DEF Unsettled, CFNames
    <3>3. cmd'[p].delete => pc'[p] = "deleteCreds" /\ cmd[p].delete
      BY <1>2, <1>3 DEF SameFlags
    <3> QED
      BY <3>2, <3>3 DEF ForcesCreds
  <2>3. FindsPassword(p)' /\ DeploysDirector(p)'
    BY <1>2 DEF FindsPassword, DeploysDirector
  <2>4. KeepsRouter(p)'
    BY <1>2, <2>1 DEF KeepsRouter, Suits, SameFlags, Addressed, Prepares, Outer, Deploys
  <2>5. Acceptable(p)'
    BY <1>2, <2>1 DEF Acceptable, Suits, SameFlags, OtherPlace, Outer, fixedVars, worldVars, CF
  <2> QED
    BY <2>2, <2>3, <2>4, <2>5
<1> QED
  BY <1>4, <1>5, <1>6, <1>7 DEF Fine

\* AfterResolve is a step, or the end of a dry run or of cf manifest.
LEMMA AfterResolveType ==
  ASSUME NEW p
  PROVE  AfterResolve(p) \in AllSteps
BY DEF AfterResolve, AfterManifestAddress, AfterDeployAddress, AllSteps, Steps, Ended

\* --router-ip and --director-ip.
LEMMA ResolveGivenKeeps ==
  ASSUME IInv, NEW p \in Procs, ResolveGiven(p)
  PROVE  IInv'
<1> DEFINE local == [cmd[p] EXCEPT !.ip = Given]
<1>1. Local(p, "resolve", AfterResolve(p), local) /\ cmd[p].given
  BY DEF ResolveGiven
<1>2. pc[p] = "resolve"
  BY <1>1 DEF Local, Move
<1>3. cmd[p] \in Command
  BY <1>2, FineNow DEF Active, Ended
<1>4. /\ local \in Command /\ local.ip = Given /\ local.alone = cmd[p].alone
      /\ local.op = cmd[p].op /\ local.given = cmd[p].given /\ local.dry = cmd[p].dry
      /\ local.delete = cmd[p].delete /\ local.had = cmd[p].had
      /\ local.astray = cmd[p].astray /\ local.todo = cmd[p].todo
  BY <1>3, GivenAssumption DEF Command
<1> HIDE DEF local
<1>5. ASSUME AfterResolve(p) \in Steps PROVE Fine(p)'
  <2>1. cmd'[p] = local /\ pc'[p] = AfterResolve(p)
    BY <1>1, <1>4, <1>5, AfterResolveType, MoveMoves DEF Local, Quiet, IInv, Steps
  <2>2. UNCHANGED <<fixedVars, worldVars, target, configVars>>
    BY <1>1 DEF Local, Quiet
  <2>3. SameFlags(p)
    BY <1>4, <2>1 DEF SameFlags
  <2>4. Suits(p, Given)
    BY <1>1 DEF Suits
  <2> QED
    BY <1>2, <1>4, <1>5, <2>1, <2>2, <2>3, <2>4, AddressFine, GivenAssumption
<1> QED
  BY <1>1, <1>4, <1>5, AfterResolveType, LocalAgain DEF Steps

\* getExistingRouterIP and getExistingBOSHDirectorIP: a CF that runs is where its own
\* deploy looks for it, and a deploy that is alone takes that address again.
LEMMA GetExistingIPKeeps ==
  ASSUME IInv, NEW p \in Procs, GetExistingIP(p)
  PROVE  IInv'
<1> DEFINE found == ExistingIP(p)
           next == IF found = NoIP THEN "select" ELSE AfterResolve(p)
           local == [cmd[p] EXCEPT !.ip = found]
<1>1. Local(p, "resolve", next, local) /\ ~cmd[p].given
  BY DEF GetExistingIP
<1>2. pc[p] = "resolve"
  BY <1>1 DEF Local, Move
<1>3. World /\ Fine(p) /\ cmd[p] \in Command
  BY <1>2, FineNow DEF Active, Ended
<1>4. found \in Address \cup {NoIP}
  BY <1>3 DEF World, ExistingIP, CF
<1>5. /\ local \in Command /\ local.ip = found /\ local.alone = cmd[p].alone
      /\ local.op = cmd[p].op /\ local.given = cmd[p].given /\ local.dry = cmd[p].dry
      /\ local.delete = cmd[p].delete /\ local.had = cmd[p].had
      /\ local.astray = cmd[p].astray /\ local.todo = cmd[p].todo
  BY <1>3, <1>4 DEF Command
<1>6. next \in AllSteps
  BY AfterResolveType DEF AllSteps, Steps
<1> HIDE DEF local
<1>7. ASSUME next \in Steps PROVE Fine(p)'
  <2>1. cmd'[p] = local /\ pc'[p] = next
    BY <1>1, <1>5, <1>6, <1>7, MoveMoves DEF Local, Quiet, IInv, Steps
  <2>2. UNCHANGED <<fixedVars, worldVars, target, configVars>>
    BY <1>1 DEF Local, Quiet
  <2>3. SameFlags(p)
    BY <1>5, <2>1 DEF SameFlags
  <2>4. CASE found = NoIP
    <3>1. pc'[p] = "select"
      BY <2>1, <2>4
    <3>2. FlowOf(p)' /\ AddressOf(p)' /\ TodoOf(p)' /\ ShellOf(p)'
      BY <1>2, <1>3, <2>2, <2>3, <3>1
         DEF Fine, FlowOf, OpsAt, AddressOf, TodoOf, ShellOf, SameFlags, Addressed, Prepares,
             Connected, fixedVars
    <3>3. cmd[p].alone => KeepsRouter(p)'
      <4>1. cmd[p].alone /\ cmd[p].op = "cfDeploy" /\ Outer(p) => cmd[p].had = NoIP
        BY <1>1, <1>2, <1>3, <2>4 DEF Fine, KeepsRouter, ExistingIP
      <4> QED
        BY <2>2, <2>3, <3>1, <4>1 DEF KeepsRouter, SameFlags, Addressed, Prepares, Outer
    <3>4. ForcesCreds(p)' /\ FindsPassword(p)' /\ Acceptable(p)' /\ DeploysDirector(p)'
      BY <3>1 DEF ForcesCreds, FindsPassword, Acceptable, DeploysDirector, Prepares
    <3> QED
      BY <1>5, <2>1, <3>2, <3>3, <3>4 DEF Fine
  <2>5. CASE found # NoIP
    <3>1. found \in Address /\ pc'[p] = AfterResolve(p) /\ AfterResolve(p) \in Steps
      BY <1>4, <1>7, <2>1, <2>5
    <3>2. ASSUME cmd[p].alone PROVE Suits(p, found)
      <4>1. CASE cmd[p].op = "cfDeploy"
        <5>1. Outer(p) /\ found = CF.ip
          BY <2>5, <4>1 DEF ExistingIP
        <5>2. cmd[p].had = CF.ip
          BY <1>1, <1>2, <1>3, <3>2, <4>1 DEF Fine, KeepsRouter
        <5>3. InRange(CF.ip, range) /\ CF.ip # deployed.bosh
          BY <1>3, <2>5, <5>1 DEF World, PlacesKept
        <5> QED
          BY <4>1, <5>1, <5>2, <5>3 DEF Suits, OtherPlace
      <4>2. CASE cmd[p].op = "boshDeploy"
        <5>1. found = deployed.bosh
          BY <2>5, <4>2 DEF ExistingIP
        <5>2. InRange(deployed.bosh, range) /\ CF.ip # deployed.bosh
          BY <1>3, <2>5, <5>1 DEF World, PlacesKept
        <5> QED
          BY <4>2, <5>1, <5>2 DEF Suits, OtherPlace
      <4> QED
        BY <4>1, <4>2 DEF Suits, Deploys
    <3> QED
      BY <1>2, <1>5, <2>1, <2>2, <2>3, <3>1, <3>2, AddressFine
  <2> QED
    BY <2>4, <2>5
<1> QED
  BY <1>1, <1>5, <1>6, <1>7, LocalAgain DEF Steps

\* What SelectAvailableIP returns is an address, and one that was asked to be free is.
LEMMA SelectedSuits ==
  ASSUME IInv, NEW p \in Procs, pc[p] = "select", NEW used \in {UsedIPs, {}},
         NEW a \in Selected(p, used)
  PROVE  a \in Address /\ (used = UsedIPs /\ cmd[p].alone => Suits(p, a))
<1>1. World /\ Fine(p) /\ IsRange(range)
  BY FineNow, RangesAssumption DEF Active, Ended, World, IsRange
<1>2. a \in SelectAvailableIP(range, used) \cup SelectAvailableIP(range, {})
  BY DEF Selected
<1>3. a \in Address
  BY <1>1, <1>2, SelectsAddress
<1>4. ASSUME used = UsedIPs, cmd[p].alone, ~cmd[p].given, Outer(p), cmd[p].op \in Deploys
      PROVE  /\ InOrder(range) => InRange(a, range)
             /\ a # OtherPlace(p)
             /\ cmd[p].op = "cfDeploy" /\ cmd[p].had # NoIP => a = cmd[p].had
  <2>1. a \in SelectAvailableIP(range, UsedIPs)
    BY <1>4 DEF Selected
  <2>2. InOrder(range) => InRange(a, range)
    BY <1>1, <2>1, SelectsFromRange
  <2>3. a \notin UsedIPs
    BY <1>1, <2>1, SelectsAddress
  <2>4. a # OtherPlace(p)
    BY <1>3, <2>3, GivenAssumption DEF UsedIPs, OtherPlace, CF
  <2>5. cmd[p].op = "cfDeploy" => cmd[p].had = NoIP
    BY <1>1, <1>4 DEF Fine, KeepsRouter
  <2> QED
    BY <2>2, <2>4, <2>5
<1> QED
  BY <1>3, <1>4 DEF Suits

\* Selecting a free address, or failing when there is none.
LEMMA SelectKeeps ==
  ASSUME IInv, NEW p \in Procs, Select(p)
  PROVE  IInv'
<1>1. CASE \E a \in Selected(p, UsedIPs) :
             Local(p, "select", AfterResolve(p), [cmd[p] EXCEPT !.ip = a])
  <2>1. PICK a \in Selected(p, UsedIPs) :
          Local(p, "select", AfterResolve(p), [cmd[p] EXCEPT !.ip = a])
    BY <1>1
  <2> DEFINE local == [cmd[p] EXCEPT !.ip = a]
  <2>2. pc[p] = "select"
    BY <2>1 DEF Local, Move
  <2>3. cmd[p] \in Command
    BY <2>2, FineNow DEF Active, Ended
  <2>4. a \in Address /\ (cmd[p].alone => Suits(p, a))
    BY <2>2, SelectedSuits
  <2>5. /\ local \in Command /\ local.ip = a /\ local.alone = cmd[p].alone
        /\ local.op = cmd[p].op /\ local.given = cmd[p].given /\ local.dry = cmd[p].dry
        /\ local.delete = cmd[p].delete /\ local.had = cmd[p].had
        /\ local.astray = cmd[p].astray /\ local.todo = cmd[p].todo
    BY <2>3, <2>4 DEF Command
  <2>7. Local(p, "select", AfterResolve(p), local)
    BY <2>1
  <2> HIDE DEF local
  <2>6. ASSUME AfterResolve(p) \in Steps PROVE Fine(p)'
    <3>1. cmd'[p] = local /\ pc'[p] = AfterResolve(p)
      BY <2>5, <2>6, <2>7, AfterResolveType, MoveMoves DEF Local, Quiet, IInv, Steps
    <3>2. UNCHANGED <<fixedVars, worldVars, target, configVars>>
      BY <2>1 DEF Local, Quiet
    <3>3. SameFlags(p)
      BY <2>5, <3>1 DEF SameFlags
    <3> QED
      BY <2>2, <2>4, <2>5, <2>6, <3>1, <3>2, <3>3, AddressFine
  <2> QED
    BY <2>5, <2>6, <2>7, AfterResolveType, LocalAgain DEF Steps
<1>2. CASE Local(p, "select", "failed", cmd[p])
  <2>1. pc[p] = "select"
    BY <1>2 DEF Local, Move
  <2>2. cmd[p] \in Command
    BY <2>1, FineNow DEF Active, Ended
  <2> QED
    BY <1>2, <2>2, LocalAgain DEF Steps, AllSteps, Ended
<1> QED
  BY <1>1, <1>2 DEF Select

-----------------------------------------------------------------------------
\* The credentials.
\* A request that comes in time is accepted: the client holds its token for valid by more
\* than the buffer, so the token lives for longer than the request takes.
LEMMA SentInTime ==
  ASSUME ConfigTypeOK, NEW p \in Procs, NEW sent \in Sent(token[p])
  PROVE  /\ sent.timely => sent.accepted
         /\ sent.timely \in BOOLEAN /\ sent.accepted \in BOOLEAN
         /\ sent.left \in [claimed : Nat, real : Nat]
<1> USE LifetimesAssumption, ProcsAssumption
<1> DEFINE sentWith(t, request) ==
             [accepted |-> t.real > request,
              timely   |-> t.claimed + request <= t.real + Buffer,
              left     |-> Aged(t, request)]
<1>0. PICK reply \in 0 .. MaxDelay, request \in 0 .. MaxDelay :
        sent \in {sentWith(t, request) : t \in AccessTokens(token[p], reply)}
  BY DEF Sent
<1>1. PICK t \in AccessTokens(token[p], reply) : sent = sentWith(t, request)
  BY <1>0
<1>2. token[p] \in [claimed : Nat, real : Nat]
  BY DEF ConfigTypeOK
<1>3. t \in [claimed : Nat, real : Nat] /\ t.claimed > Buffer
  <2>1. CASE token[p].claimed > Buffer
    BY <1>2, <2>1 DEF AccessTokens
  <2>2. CASE ~(token[p].claimed > Buffer)
    <3>1. PICK life \in Lifetimes : t = [claimed |-> life, real |-> Later(life, reply)]
      BY <2>2 DEF AccessTokens
    <3>2. life \in Nat /\ life > Buffer /\ Later(life, reply) \in Nat
      BY DEF Later
    <3> QED
      BY <3>1, <3>2
  <2> QED
    BY <2>1, <2>2
<1>4. t.claimed + request <= t.real + Buffer => t.real > request
  BY <1>3 DEF Buffer
<1>5. Aged(t, request) \in [claimed : Nat, real : Nat]
  BY <1>3 DEF Aged, Later
<1>6. /\ sent.accepted = (t.real > request) /\ sent.left = Aged(t, request)
      /\ sent.timely = (t.claimed + request <= t.real + Buffer)
  BY <1>1, Zenon
<1> HIDE DEF sentWith
<1>7. (t.real > request) \in BOOLEAN /\ (t.claimed + request <= t.real + Buffer) \in BOOLEAN
  BY <1>3 DEF Buffer
<1> QED
  BY <1>4, <1>5, <1>6, <1>7, Zenon

\* A client that goes leaves the tokens of the others alone.
LEMMA ForgetKeeps ==
  ASSUME ConfigTypeOK, NEW p \in Procs, Forget(p)
  PROVE  token' \in [Clients -> [claimed : Nat, real : Nat]]
BY DEF Forget, NoToken, ConfigTypeOK

\* On the way through the steps of a deploy.
SameDeploy(p) ==
  /\ cmd'[p].op = cmd[p].op /\ cmd'[p].given = cmd[p].given /\ cmd'[p].had = cmd[p].had
  /\ cmd'[p].ip = cmd[p].ip
  /\ cmd'[p].alone => cmd[p].alone
  /\ cmd'[p].timely => cmd[p].timely

\* A deploy that knows its address keeps it while nothing else is deployed.
LEMMA PlaceKept ==
  ASSUME IInv, NEW p \in Procs, pc[p] \in Prepares, pc'[p] \in Prepares, SameDeploy(p),
         UNCHANGED <<deployed, range, target>>, cmd'[p].alone
  PROVE  KeepsRouter(p)' /\ Acceptable(p)'
<1>1. KeepsRouter(p) /\ Acceptable(p)
  BY FineNow DEF Active, Ended, Prepares, SameDeploy, Fine
<1>2. KeepsRouter(p)'
  BY <1>1 DEF KeepsRouter, SameDeploy, Addressed, Prepares, Outer
<1>3. Acceptable(p)'
  BY <1>1 DEF Acceptable, SameDeploy, OtherPlace, Outer, CF
<1> QED
  BY <1>2, <1>3

\* What deleting a credential does to the world.
LEMMA DeletedWorld ==
  ASSUME World, NEW name \in CFNames, stored' \in {stored, [stored EXCEPT ![name] = Absent]},
         token' \in [Clients -> [claimed : Nat, real : Nat]],
         tampered' = (tampered \/ stored' # stored),
         UNCHANGED <<fixedVars, deployed, innerConfig, manifest, begun>>,
         faults' \in 0 .. MaxFaults
  PROVE  World'
<1>1. stored' \in [Names -> Generations \cup {Absent}]
  BY DEF World, ConfigTypeOK
<1>2. tampered' \in BOOLEAN
  BY DEF World
<1>3. CredsKept'
  BY DEF World, CredsKept, CF
<1>4. PlacesKept'
  BY DEF World, PlacesKept, CF, fixedVars
<1> QED
  BY <1>1, <1>2, <1>3, <1>4 DEF World, ConfigTypeOK, fixedVars

\* The credentials that --delete-creds has yet to delete, one fewer each time.
LEMMA TodoHead ==
  ASSUME NEW todo \in {CFOrder, Tail(CFOrder), <<>>}, todo # <<>>
  PROVE  /\ Head(todo) \in CFNames /\ todo \in Seq(CFNames) /\ Tail(todo) \in Seq(CFNames)
         /\ Tail(todo) \in {Tail(CFOrder), <<>>}
         /\ \A n \in CFNames : (\E i \in 1 .. Len(todo) : todo[i] = n)
                                => n = Head(todo) \/ \E i \in 1 .. Len(Tail(todo)) : Tail(todo)[i] = n
<1>1. CASE todo = CFOrder
  BY <1>1 DEF CFOrder, CFNames
<1>2. CASE todo = Tail(CFOrder)
  BY <1>2 DEF CFOrder, CFNames
<1> QED
  BY <1>1, <1>2

\* A credential is settled when it is no longer in the list: deleted, or passed over
\* because that failed, which is a disturbance, or came too late.
LEMMA DeleteCredFine ==
  ASSUME IInv, NEW p \in Procs, pc[p] = "deleteCreds", pc'[p] = "deleteCreds",
         cmd[p].todo # <<>>, SameDeploy(p), cmd'[p].dry = cmd[p].dry, cmd'[p].delete = cmd[p].delete,
         cmd'[p].astray = cmd[p].astray, cmd'[p].todo = Tail(cmd[p].todo),
         UNCHANGED <<deployed, fixedVars, target>>,
         cmd'[p].alone /\ cmd'[p].timely => stored' = [stored EXCEPT ![Head(cmd[p].todo)] = Absent]
  PROVE  Fine(p)'
<1>1. World /\ Fine(p)
  BY FineNow DEF Active, Ended
<1>2. cmd[p].todo \in {CFOrder, Tail(CFOrder), <<>>}
  BY <1>1 DEF Fine, TodoOf
<1>3. FlowOf(p)' /\ AddressOf(p)' /\ TodoOf(p)' /\ ShellOf(p)'
  BY <1>1, <1>2, TodoHead
     DEF Fine, FlowOf, OpsAt, AddressOf, TodoOf, ShellOf, SameDeploy, Connected, fixedVars
<1>4. ASSUME cmd'[p].alone, cmd'[p].timely, cmd'[p].delete, NEW n \in CFNames
      PROVE  stored'[n] = Absent \/ Unsettled(p, n)'
  <2>1. stored[n] = Absent \/ Unsettled(p, n)
    BY <1>1, <1>4 DEF Fine, ForcesCreds, SameDeploy
  <2>2. stored' = [stored EXCEPT ![Head(cmd[p].todo)] = Absent] /\ n \in Names
        /\ stored \in [Names -> Generations \cup {Absent}]
    BY <1>1, <1>4, NamesAssumption DEF World, ConfigTypeOK
  <2>3. CASE Unsettled(p, n)
    <3> DEFINE todo == cmd[p].todo
    <3>1. n = Head(todo) \/ \E i \in 1 .. Len(Tail(todo)) : Tail(todo)[i] = n
      BY <1>2, <2>3, TodoHead DEF Unsettled
    <3>2. n = Head(todo) => stored'[n] = Absent
      BY <2>2
    <3> QED
      BY <3>1, <3>2 DEF Unsettled
  <2>4. CASE stored[n] = Absent
    BY <2>2, <2>4
  <2> QED
    BY <2>1, <2>3, <2>4
<1>5. cmd'[p].alone => ForcesCreds(p)'
  BY <1>4 DEF ForcesCreds
<1>6. FindsPassword(p)' /\ DeploysDirector(p)'
  BY DEF FindsPassword, DeploysDirector
<1>7. cmd'[p].alone => KeepsRouter(p)' /\ Acceptable(p)'
  BY PlaceKept DEF Prepares, fixedVars
<1> QED
  BY <1>3, <1>5, <1>6, <1>7 DEF Fine

\* deleteDeploymentCredentials, one credential.
LEMMA DeleteCredKeeps ==
  ASSUME IInv, NEW p \in Procs, DeleteCred(p)
  PROVE  IInv'
<1>1. PICK timely \in BOOLEAN :
        /\ Move(p, "deleteCreds", "deleteCreds",
                [cmd[p] EXCEPT !.todo = Tail(@), !.timely = @ /\ timely])
        /\ Delete(p, Head(cmd[p].todo), timely)
  BY DEF DeleteCred
<1> DEFINE intime == cmd[p].timely /\ timely
           local == [cmd[p] EXCEPT !.todo = Tail(@), !.timely = intime]
           name == Head(cmd[p].todo)
<1>2. /\ cmd[p].todo # <<>> /\ Move(p, "deleteCreds", "deleteCreds", local)
      /\ Delete(p, name, timely) /\ tampered' = (tampered \/ stored' # stored)
      /\ UNCHANGED <<fixedVars, deployed, innerConfig, manifest, target, countVars>>
  BY <1>1 DEF DeleteCred
<1>3. pc[p] = "deleteCreds"
  BY <1>2 DEF Move
<1>4. World /\ Fine(p) /\ cmd[p] \in Command
  BY <1>3, FineNow DEF Active, Ended
<1>5. name \in CFNames /\ Tail(cmd[p].todo) \in Seq(CFNames)
  BY <1>2, <1>3, <1>4, TodoHead DEF Fine, TodoOf
<1>6. intime \in BOOLEAN /\ (intime => cmd[p].timely /\ timely)
  BY <1>4 DEF Command
<1> HIDE DEF intime
<1>7. /\ local \in Command /\ local.todo = Tail(cmd[p].todo) /\ local.timely = intime
      /\ local.op = cmd[p].op /\ local.given = cmd[p].given /\ local.had = cmd[p].had
      /\ local.ip = cmd[p].ip /\ local.alone = cmd[p].alone /\ local.dry = cmd[p].dry
      /\ local.delete = cmd[p].delete /\ local.astray = cmd[p].astray
  BY <1>4, <1>5, <1>6 DEF Command
<1>8. PICK sent \in Sent(token[p]) :
        /\ timely = sent.timely /\ token' = [token EXCEPT ![p] = sent.left]
        /\ stored' = IF sent.accepted THEN [stored EXCEPT ![name] = Absent] ELSE stored
  BY <1>2 DEF Delete
<1>9. /\ token' \in [Clients -> [claimed : Nat, real : Nat]]
      /\ timely => stored' = [stored EXCEPT ![name] = Absent]
      /\ stored' \in {stored, [stored EXCEPT ![name] = Absent]}
  BY <1>4, <1>8, SentInTime DEF World, ConfigTypeOK
<1> HIDE DEF local
<1>10. Moves(p) /\ pc'[p] = "deleteCreds" /\ cmd'[p] = local
  BY <1>2, <1>7, MoveMoves DEF IInv, Steps, AllSteps
<1>11. World'
  BY <1>2, <1>4, <1>5, <1>9, DeletedWorld DEF World, countVars
<1>12. Fine(p)'
  BY <1>2, <1>3, <1>6, <1>7, <1>9, <1>10, DeleteCredFine DEF SameDeploy
<1> QED
  BY <1>10, <1>11, <1>12, FineAgain

\* deleteDeploymentCredentials, one credential that cannot be deleted.
LEMMA DeleteCredFailsKeeps ==
  ASSUME IInv, NEW p \in Procs, DeleteCredFails(p)
  PROVE  IInv'
<1> DEFINE local == [Disturbed(p) EXCEPT !.todo = Tail(@)]
           name == Head(cmd[p].todo)
<1>1. /\ cmd[p].todo # <<>> /\ Move(p, "deleteCreds", "deleteCreds", local)
      /\ DeleteFails(p, name) /\ tampered' = (tampered \/ stored' # stored)
      /\ UNCHANGED <<fixedVars, deployed, innerConfig, manifest, target, begun>>
      /\ faults < MaxFaults /\ faults' = faults + 1
  BY DEF DeleteCredFails, Fault
<1>2. pc[p] = "deleteCreds"
  BY <1>1 DEF Move
<1>3. World /\ Fine(p) /\ cmd[p] \in Command
  BY <1>2, FineNow DEF Active, Ended
<1>4. name \in CFNames /\ Tail(cmd[p].todo) \in Seq(CFNames)
  BY <1>1, <1>2, <1>3, TodoHead DEF Fine, TodoOf
<1>5. /\ local \in Command /\ local.todo = Tail(cmd[p].todo)
      /\ local.op = cmd[p].op /\ local.given = cmd[p].given /\ local.had = cmd[p].had
      /\ local.ip = cmd[p].ip /\ local.alone = FALSE /\ local.dry = cmd[p].dry
      /\ local.delete = cmd[p].delete /\ local.astray = cmd[p].astray
      /\ local.timely = cmd[p].timely
  BY <1>3, <1>4 DEF Command, Disturbed
<1>6. /\ token' \in [Clients -> [claimed : Nat, real : Nat]]
      /\ stored' \in {stored, [stored EXCEPT ![name] = Absent]}
  <2>1. PICK sent \in Sent(token[p]) : token' = [token EXCEPT ![p] = sent.left]
    BY <1>1 DEF DeleteFails
  <2>2. sent.left \in [claimed : Nat, real : Nat]
    BY <1>3, SentInTime DEF World
  <2>3. token' \in [Clients -> [claimed : Nat, real : Nat]]
    BY <1>3, <2>1, <2>2 DEF World, ConfigTypeOK
  <2> QED
    BY <1>1, <2>3 DEF DeleteFails
<1> HIDE DEF local
<1>7. Moves(p) /\ pc'[p] = "deleteCreds" /\ cmd'[p] = local
  BY <1>1, <1>5, MoveMoves DEF IInv, Steps, AllSteps
<1>8. faults' \in 0 .. MaxFaults
  BY <1>1, <1>3, BoundsAssumption DEF World
<1>9. World'
  BY <1>1, <1>3, <1>4, <1>6, <1>8, DeletedWorld
<1>10. Fine(p)'
  BY <1>1, <1>2, <1>5, <1>7, DeleteCredFine DEF SameDeploy
<1> QED
  BY <1>7, <1>9, <1>10, FineAgain

\* deleteDeploymentCredentials when it has been through them all: none is stored.
LEMMA CredsDeletedKeeps ==
  ASSUME IInv, NEW p \in Procs, CredsDeleted(p)
  PROVE  IInv'
<1>1. /\ cmd[p].todo = <<>> /\ Move(p, "deleteCreds", "createCPI", cmd[p])
      /\ Forget(p) /\ UNCHANGED <<fixedVars, worldVars, target, stored, countVars>>
  BY DEF CredsDeleted
<1>2. pc[p] = "deleteCreds"
  BY <1>1 DEF Move
<1>3. World /\ Fine(p) /\ cmd[p] \in Command
  BY <1>2, FineNow DEF Active, Ended
<1>4. Moves(p) /\ pc'[p] = "createCPI" /\ cmd'[p] = cmd[p]
  <2>1. DTypeOK /\ UNCHANGED <<fixedVars, target>>
    BY <1>1 DEF IInv
  <2>2. "deleteCreds" \in Steps /\ "createCPI" \in Steps /\ "createCPI" \in AllSteps
    BY DEF Steps, AllSteps
  <2> QED
    BY <1>1, <1>3, <2>1, <2>2, MoveMoves
<1>5. World'
  <2>1. token' \in [Clients -> [claimed : Nat, real : Nat]]
    BY <1>1, <1>3, ForgetKeeps DEF World
  <2> QED
    BY <1>1, <1>3, <2>1
       DEF World, ConfigTypeOK, CredsKept, PlacesKept, CF, fixedVars, worldVars, countVars
<1>6. FlowOf(p)' /\ AddressOf(p)' /\ TodoOf(p)' /\ ShellOf(p)'
  BY <1>1, <1>2, <1>3, <1>4
     DEF Fine, FlowOf, OpsAt, AddressOf, TodoOf, ShellOf, Connected, Addressed, Prepares, Deploys,
         fixedVars
<1>7. cmd'[p].alone => ForcesCreds(p)'
  BY <1>1, <1>2, <1>3, <1>4 DEF Fine, ForcesCreds, Unsettled
<1>8. FindsPassword(p)' /\ DeploysDirector(p)'
  BY <1>4 DEF FindsPassword, DeploysDirector
<1>9. cmd'[p].alone => KeepsRouter(p)' /\ Acceptable(p)'
  BY <1>1, <1>2, <1>4, PlaceKept DEF Prepares, SameDeploy, fixedVars, worldVars
<1> QED
  BY <1>4, <1>5, <1>6, <1>7, <1>8, <1>9, FineAgain DEF Fine

-----------------------------------------------------------------------------
\* The connection to the director and the manifest.
LEMMA CheckCPIKeeps ==
  ASSUME IInv, NEW p \in Procs, CheckCPI(p)
  PROVE  IInv'
<1> DEFINE next == IF Outer(p) /\ kind = "incus" THEN "resolve" ELSE "failed"
<1>1. Local(p, "checkCPI", next, cmd[p]) /\ next \in AllSteps /\ "checkCPI" \in Steps
  BY DEF CheckCPI, AllSteps, Steps, Ended
<1>2. pc[p] = "checkCPI"
  BY <1>1 DEF Local, Move
<1>3. World /\ Fine(p) /\ cmd[p] \in Command
  BY <1>2, FineNow DEF Active, Ended
<1> HIDE DEF next
<1>4. ASSUME next \in Steps PROVE Fine(p)'
  <2>1. cmd'[p] = cmd[p] /\ pc'[p] = next
    BY <1>1, <1>3, <1>4, MoveMoves DEF Local, Quiet, IInv
  <2>2. pc'[p] = "resolve" /\ UNCHANGED reach
    BY <1>1, <1>4, <2>1 DEF next, Steps, Local, Quiet, fixedVars
  <2>3. cmd[p].op = "boshDeploy" /\ ~cmd[p].delete
    BY <1>2, <1>3 DEF Fine, FlowOf, OpsAt
  <2>4. FlowOf(p)' /\ AddressOf(p)' /\ TodoOf(p)' /\ ShellOf(p)'
    BY <1>2, <1>3, <2>1, <2>2, <2>3
       DEF Fine, FlowOf, OpsAt, AddressOf, TodoOf, ShellOf, Connected, Addressed, Prepares,
       Deploys
  <2>5. ForcesCreds(p)' /\ FindsPassword(p)' /\ KeepsRouter(p)' /\ Acceptable(p)'
        /\ DeploysDirector(p)'
    BY <2>1, <2>2, <2>3
       DEF ForcesCreds, FindsPassword, KeepsRouter, Acceptable, DeploysDirector, Prepares
  <2> QED
    BY <2>4, <2>5 DEF Fine
<1> QED
  BY <1>1, <1>3, <1>4, LocalAgain

\* The steps between the address and the deployment keep what is asked of a deploy.
LEMMA PrepareFine ==
  ASSUME IInv, NEW p \in Procs, pc[p] \in {"createCPI", "connect", "filter", "write"},
         pc'[p] \in {"connect", "filter", "write", "deploy"},
         SameDeploy(p), cmd'[p].dry = cmd[p].dry, cmd'[p].delete = cmd[p].delete,
         cmd'[p].astray => reach = "elsewhere", cmd[p].op \in OpsAt(pc'[p]), ShellOf(p)',
         pc'[p] = "deploy" /\ cmd[p].op = "boshDeploy" => manifest' = cmd[p].ip,
         UNCHANGED <<fixedVars, deployed, stored, target>>
  PROVE  Fine(p)'
<1>1. World /\ Fine(p)
  BY FineNow DEF Active, Ended
<1>2. UNCHANGED reach
  BY DEF fixedVars
<1>3. ~cmd[p].dry
  BY <1>1 DEF Fine, FlowOf
<1>4. FlowOf(p)'
  BY <1>1, <1>2, <1>3 DEF Fine, FlowOf, SameDeploy
<1>5. AddressOf(p)' /\ TodoOf(p)'
  BY <1>1 DEF Fine, AddressOf, TodoOf, SameDeploy, Addressed, Prepares
<1>6. cmd'[p].alone => ForcesCreds(p)'
  <2>1. cmd[p].delete => cmd[p].op = "cfDeploy"
    BY <1>1 DEF Fine, FlowOf
  <2>2. cmd[p].op = "cfDeploy" => pc[p] # "write"
    BY <1>1 DEF Fine, FlowOf, OpsAt
  <2> QED
    BY <1>1, <2>1, <2>2 DEF Fine, ForcesCreds, SameDeploy
<1>7. FindsPassword(p)' /\ DeploysDirector(p)'
  BY DEF FindsPassword, DeploysDirector, SameDeploy
<1>8. cmd'[p].alone => KeepsRouter(p)' /\ Acceptable(p)'
  BY PlaceKept DEF Prepares, fixedVars
<1> QED
  BY <1>4, <1>5, <1>6, <1>7, <1>8 DEF Fine

\* createCPIAndDirectorClient.
LEMMA CreateCPIKeeps ==
  ASSUME IInv, NEW p \in Procs, CreateCPI(p)
  PROVE  IInv'
<1> DEFINE next == IF Outer(p) /\ reach # "nowhere" THEN "connect" ELSE GiveUp(p)
<1>1. Local(p, "createCPI", next, cmd[p]) /\ next \in AllSteps /\ "createCPI" \in Steps
  BY DEF CreateCPI, GiveUp, AllSteps, Steps, Ended
<1>2. pc[p] = "createCPI"
  BY <1>1 DEF Local, Move
<1>3. World /\ Fine(p) /\ cmd[p] \in Command
  BY <1>2, FineNow DEF Active, Ended
<1>4. next \in Steps => next = "connect" /\ Outer(p)
  BY DEF GiveUp, Steps
<1> HIDE DEF next
<1>5. ASSUME next \in Steps PROVE Fine(p)'
  <2>1. cmd'[p] = cmd[p] /\ pc'[p] = "connect" /\ Outer(p)
    BY <1>1, <1>3, <1>4, <1>5, MoveMoves DEF Local, Quiet, IInv
  <2>2. UNCHANGED <<fixedVars, worldVars, target, configVars>>
    BY <1>1 DEF Local, Quiet
  <2>3. ShellOf(p)'
    BY <2>1, <2>2 DEF ShellOf, Outer
  <2>4. cmd[p].op \in OpsAt(pc'[p]) /\ (cmd[p].astray => reach = "elsewhere")
    BY <1>2, <1>3, <2>1 DEF Fine, FlowOf, OpsAt
  <2>5. SameDeploy(p) /\ cmd'[p].dry = cmd[p].dry /\ cmd'[p].delete = cmd[p].delete
        /\ (cmd'[p].astray => reach = "elsewhere")
    BY <2>1, <2>4 DEF SameDeploy
  <2>6. UNCHANGED <<fixedVars, deployed, stored, target>>
    BY <2>2 DEF worldVars, configVars
  <2> QED
    BY <1>2, <2>1, <2>3, <2>4, <2>5, <2>6, PrepareFine
<1> QED
  BY <1>1, <1>3, <1>5, LocalAgain

\* createDirectorClient: the variables of the process are ibosh's own from here on; with
\* Incus there is no proxy, so that there is none to take back either.
LEMMA ConnectKeeps ==
  ASSUME IInv, NEW p \in Procs, Connect(p)
  PROVE  IInv'
<1> DEFINE local == [NewDirector(p, IF HasDirectNetworkAccess THEN "none" ELSE "temporary")
                       EXCEPT !.astray = (reach = "elsewhere")]
<1>0. "connect" \in Steps /\ "filter" \in Steps /\ "filter" \in AllSteps
  BY DEF Steps, AllSteps
<1>1. pc[p] = "connect"
  BY DEF Connect, Local, Move
<1>2. World /\ Fine(p) /\ cmd[p] \in Command
  BY <1>1, FineNow DEF Active, Ended
<1>3. /\ local \in Command
      /\ local.op = cmd[p].op /\ local.given = cmd[p].given /\ local.had = cmd[p].had
      /\ local.ip = cmd[p].ip /\ local.alone = cmd[p].alone /\ local.dry = cmd[p].dry
      /\ local.delete = cmd[p].delete /\ (local.astray => reach = "elsewhere")
      /\ HasDirectNetworkAccess => local.proxy = "none"
      /\ local.timely = cmd[p].timely
  <2> DEFINE proxy == IF HasDirectNetworkAccess THEN "none" ELSE "temporary"
             connected == NewDirector(p, proxy)
  <2>1. /\ connected \in Command
        /\ connected.op = cmd[p].op /\ connected.given = cmd[p].given
        /\ connected.had = cmd[p].had /\ connected.ip = cmd[p].ip
        /\ connected.alone = cmd[p].alone /\ connected.dry = cmd[p].dry
        /\ connected.delete = cmd[p].delete /\ connected.timely = cmd[p].timely
        /\ HasDirectNetworkAccess => connected.proxy = "none"
    BY <1>2 DEF Command, NewDirector
  <2>2. local = [connected EXCEPT !.astray = (reach = "elsewhere")]
    OBVIOUS
  <2> HIDE DEF connected
  <2> QED
    BY <2>1, <2>2 DEF Command
<1>4. CASE Local(p, "connect", "filter", local)
  <2> HIDE DEF local
  <2>1. cmd'[p] = local /\ pc'[p] = "filter"
    BY <1>0, <1>3, <1>4, MoveMoves DEF Local, Quiet, IInv
  <2>2. UNCHANGED <<fixedVars, worldVars, target, configVars>>
    BY <1>4 DEF Local, Quiet
  <2>3. ShellOf(p)'
    BY <1>1, <1>2, <1>3, <2>1, <2>2
       DEF Fine, ShellOf, Outer, Connected, HasDirectNetworkAccess, fixedVars
  <2>4. cmd[p].op \in OpsAt(pc'[p])
    BY <1>1, <1>2, <2>1 DEF Fine, FlowOf, OpsAt
  <2>5. Fine(p)'
    BY <1>1, <1>3, <2>1, <2>2, <2>3, <2>4, PrepareFine DEF SameDeploy, worldVars, configVars
  <2> QED
    BY <1>0, <1>3, <1>4, <2>5, LocalAgain
<1>5. CASE Local(p, "connect", GiveUp(p), cmd[p])
  <2>1. GiveUp(p) \in AllSteps /\ GiveUp(p) \notin Steps
    BY DEF GiveUp, AllSteps, Steps, Ended
  <2> QED
    BY <1>0, <1>2, <1>5, <2>1, LocalAgain
<1> QED
  BY <1>4, <1>5 DEF Connect

\* restoreBOSHEnvVars: the environment and the proxy are the shell's again.
LEMMA FilterReleasesKeeps ==
  ASSUME IInv, NEW p \in Procs, FilterReleases(p)
  PROVE  IInv'
<1> DEFINE next == CASE cmd[p].op = "cfManifest" -> "done"
                     [] cmd[p].op = "cfDeploy"   -> "deploy"
                     [] cmd[p].op = "boshDeploy" -> "write"
           local == Restored(p)
<1>0. Local(p, "filter", next, local) /\ "filter" \in Steps
  BY DEF FilterReleases, Steps
<1>1. pc[p] = "filter"
  BY <1>0 DEF Local, Move
<1>2. World /\ Fine(p) /\ cmd[p] \in Command
  BY <1>1, FineNow DEF Active, Ended
<1>3. ShellProxy(p) \in {"none", "outer", "inner"}
  BY DEF ShellProxy
<1>4. Outer(p) /\ (HasDirectNetworkAccess => cmd[p].proxy = "none")
  BY <1>1, <1>2 DEF Fine, ShellOf, Connected
<1>5. /\ local \in Command /\ local.env
      /\ local.op = cmd[p].op /\ local.given = cmd[p].given /\ local.had = cmd[p].had
      /\ local.ip = cmd[p].ip /\ local.alone = cmd[p].alone /\ local.dry = cmd[p].dry
      /\ local.delete = cmd[p].delete /\ local.astray = cmd[p].astray
      /\ local.timely = cmd[p].timely
      /\ local.proxy = IF ShellProxy(p) = "none" THEN cmd[p].proxy ELSE ShellProxy(p)
  BY <1>2, <1>3 DEF Command, Restored
<1>6. local.proxy = ShellProxy(p)
  BY <1>4, <1>5 DEF ShellProxy, Outer
<1>7. cmd[p].op \in {"cfManifest", "cfDeploy", "boshDeploy"}
  BY <1>1, <1>2 DEF Fine, FlowOf, OpsAt, Deploys
<1>8. /\ next \in AllSteps
      /\ next \in Steps => \/ next = "deploy" /\ cmd[p].op = "cfDeploy"
                           \/ next = "write" /\ cmd[p].op = "boshDeploy"
  BY <1>7 DEF AllSteps, Steps, Ended
<1> HIDE DEF next, local
<1>9. ASSUME next \in Steps PROVE Fine(p)'
  <2>1. cmd'[p] = local /\ pc'[p] = next
    BY <1>0, <1>5, <1>8, <1>9, MoveMoves DEF Local, Quiet, IInv
  <2>2. UNCHANGED <<fixedVars, worldVars, target, configVars>>
    BY <1>0 DEF Local, Quiet
  <2>3. ShellProxy(p)' = ShellProxy(p) /\ Outer(p)'
    BY <1>4, <2>2 DEF ShellProxy, Outer, HasDirectNetworkAccess, fixedVars
  <2>4. ShellOf(p)'
    BY <1>5, <1>6, <1>8, <1>9, <2>1, <2>3 DEF ShellOf
  <2>5. cmd[p].op \in OpsAt(pc'[p])
    BY <1>8, <1>9, <2>1 DEF OpsAt, Deploys
  <2>6. cmd'[p].astray => reach = "elsewhere"
    BY <1>2, <1>5, <2>1 DEF Fine, FlowOf
  <2>7. SameDeploy(p) /\ cmd'[p].dry = cmd[p].dry /\ cmd'[p].delete = cmd[p].delete
    BY <1>5, <2>1 DEF SameDeploy
  <2>8. UNCHANGED <<fixedVars, deployed, stored, target>>
    BY <2>2 DEF worldVars, configVars
  <2>9. pc'[p] \in {"write", "deploy"} /\ (pc'[p] = "deploy" => cmd[p].op # "boshDeploy")
    BY <1>8, <1>9, <2>1
  <2> QED
    BY <1>1, <2>4, <2>5, <2>6, <2>7, <2>8, <2>9, PrepareFine
<1> QED
  BY <1>0, <1>5, <1>8, <1>9, LocalAgain

\* The manifest file of bosh deploy: a command that is alone reads what it wrote.
LEMMA WriteManifestKeeps ==
  ASSUME IInv, NEW p \in Procs, WriteManifest(p)
  PROVE  IInv'
<1>0. /\ Move(p, "write", "deploy", cmd[p]) /\ manifest' = cmd[p].ip
      /\ UNCHANGED <<fixedVars, deployed, innerConfig, tampered, target, configVars, countVars>>
      /\ "write" \in Steps /\ "deploy" \in Steps /\ "deploy" \in AllSteps
  BY DEF WriteManifest, Steps, AllSteps
<1>1. pc[p] = "write"
  BY <1>0 DEF Move
<1>2. World /\ Fine(p) /\ cmd[p] \in Command
  BY <1>1, FineNow DEF Active, Ended
<1>3. UNCHANGED <<fixedVars, target>>
  BY <1>0
<1>4. Moves(p) /\ pc'[p] = "deploy" /\ cmd'[p] = cmd[p]
  BY <1>0, <1>2, <1>3, MoveMoves DEF IInv
<1>5. World'
  <2>1. manifest' \in Address \cup {NoIP}
    BY <1>0, <1>1, <1>2 DEF Fine, AddressOf, Addressed, Prepares
  <2> QED
    BY <1>0, <1>2, <2>1
       DEF World, fixedVars, configVars, countVars, CredsKept, PlacesKept,
       ConfigTypeOK,
           CF
<1>6. Fine(p)'
  <2>1. ShellOf(p)'
    BY <1>0, <1>1, <1>2, <1>4
       DEF Fine, ShellOf, Connected, Outer, ShellProxy, HasDirectNetworkAccess, fixedVars
  <2>2. cmd[p].op \in OpsAt(pc'[p]) /\ (cmd[p].astray => reach = "elsewhere")
    BY <1>1, <1>2, <1>4 DEF Fine, FlowOf, OpsAt, Deploys
  <2> QED
    BY <1>0, <1>1, <1>4, <2>1, <2>2, PrepareFine DEF SameDeploy, configVars
<1> QED
  BY <1>4, <1>5, <1>6, FineAgain

-----------------------------------------------------------------------------
\* The bosh CLI.
LEMMA FreshType ==
  ASSUME NEW old \in Generations \cup {Absent}
  PROVE  Fresh(old) \in Generations /\ Fresh(old) # old
BY GenerationsAssumption DEF Fresh

\* The director generates what is not stored and leaves the rest.
LEMMA GeneratedType ==
  ASSUME World, NEW names \in SUBSET Names
  PROVE  /\ Generated(names) \in [Names -> Generations \cup {Absent}]
         /\ \A n \in names : Generated(names)[n] # Absent
         /\ \A n \in Names \ names : Generated(names)[n] = stored[n]
<1>1. stored \in [Names -> Generations \cup {Absent}]
      /\ \A n \in CFNames : CF.creds[n] \in Generations \cup {Absent}
  BY DEF World, ConfigTypeOK, CF
<1>2. ASSUME NEW n \in Names
      PROVE  LET old == IF n \in CFNames THEN CF.creds[n] ELSE Absent
             IN  Fresh(old) \in Generations /\ Fresh(old) # Absent
  <2> DEFINE old == IF n \in CFNames THEN CF.creds[n] ELSE Absent
  <2>1. old \in Generations \cup {Absent}
    BY <1>1
  <2> HIDE DEF old
  <2>2. Fresh(old) \in Generations
    BY <2>1, FreshType
  <2> QED
    BY <2>2, AbsentAssumption DEF old
<1>3. \A n \in Names : Generated(names)[n] \in Generations \cup {Absent}
  BY <1>1, <1>2 DEF Generated
<1>4. Generated(names) \in [Names -> Generations \cup {Absent}]
  BY <1>3 DEF Generated
<1>5. \A n \in names : Generated(names)[n] # Absent
  BY <1>1, <1>2 DEF Generated
<1>6. \A n \in Names \ names : Generated(names)[n] = stored[n]
  BY DEF Generated
<1> QED
  BY <1>4, <1>5, <1>6

\* A CF that is deployed runs with the stored credentials, at an address of its own.
LEMMA CFDeployedWorld ==
  ASSUME World, NEW p \in Procs, cmd[p].ip \in Address, Accepts(cmd[p].ip, {deployed.bosh}),
         CFDeployed(p), UNCHANGED <<fixedVars, innerConfig, manifest, token, begun>>,
         faults' \in 0 .. MaxFaults
  PROVE  World'
<1>1. CFNames \in SUBSET Names
  BY NamesAssumption
<1>2. stored' \in [Names -> Generations \cup {Absent}] /\ \A n \in CFNames : stored'[n] # Absent
  BY <1>1, GeneratedType DEF CFDeployed
<1>3. deployed' = [deployed EXCEPT !.cf = [ip |-> cmd[p].ip,
                                           creds |-> [n \in CFNames |-> stored'[n]]]]
  BY DEF CFDeployed
<1>4. [n \in CFNames |-> stored'[n]] \in [CFNames -> Generations \cup {Absent}]
  BY <1>1, <1>2
<1>5. /\ deployed' \in [cf : [ip : Address \cup {NoIP},
                              creds : [CFNames -> Generations \cup {Absent}]],
                        bosh : Address \cup {NoIP}]
      /\ deployed'.cf.ip = cmd[p].ip /\ deployed'.bosh = deployed.bosh
      /\ \A n \in CFNames : deployed'.cf.creds[n] = stored'[n]
  BY <1>3, <1>4 DEF World
<1>6. CredsKept' /\ tampered' \in BOOLEAN
  BY <1>2, <1>5 DEF CredsKept, CF, CFDeployed
<1>7. PlacesKept'
  BY <1>5 DEF PlacesKept, CF, World, Accepts, fixedVars
<1>8. ConfigTypeOK'
  BY <1>2 DEF World, ConfigTypeOK
<1> QED
  BY <1>5, <1>6, <1>7, <1>8 DEF World, fixedVars

\* An inner director that is deployed is at the address in the manifest file.
LEMMA BOSHDeployedWorld ==
  ASSUME World, NEW p \in Procs, Accepts(manifest, {CF.ip}), BOSHDeployed(p), manifest' = NoIP,
         UNCHANGED <<fixedVars, tampered, token, begun>>, faults' \in 0 .. MaxFaults
  PROVE  World' /\ stored'[BOSHName] # Absent /\ deployed'.bosh = manifest
<1>1. {BOSHName} \in SUBSET Names /\ CFNames \subseteq Names /\ BOSHName \notin CFNames
  BY NamesAssumption DEF BOSHName, CFNames
<1>2. stored' \in [Names -> Generations \cup {Absent}] /\ stored'[BOSHName] # Absent
      /\ \A n \in CFNames : stored'[n] = stored[n]
  BY <1>1, GeneratedType DEF BOSHDeployed
<1>3. /\ deployed' \in [cf : [ip : Address \cup {NoIP},
                              creds : [CFNames -> Generations \cup {Absent}]],
                        bosh : Address \cup {NoIP}]
      /\ deployed'.cf = deployed.cf /\ deployed'.bosh = manifest
  BY DEF World, BOSHDeployed
<1>4. CredsKept'
  BY <1>2, <1>3 DEF World, CredsKept, CF
<1>5. PlacesKept'
  BY <1>3 DEF PlacesKept, CF, World, Accepts, fixedVars
<1>6. ConfigTypeOK' /\ innerConfig' \in BOOLEAN
  BY <1>2 DEF World, ConfigTypeOK, BOSHDeployed
<1> QED
  BY <1>2, <1>3, <1>4, <1>5, <1>6 DEF World, fixedVars

\* bosh deploy in cf deploy, which the director accepts or refuses.
LEMMA BoshDeployCFKeeps ==
  ASSUME IInv, NEW p \in Procs, BoshDeployCF(p)
  PROVE  IInv'
<1>1. PICK accepted \in Verdicts(p, cmd[p].ip, {deployed.bosh}) :
        /\ cmd[p].op = "cfDeploy"
        /\ Move(p, "deploy", IF accepted THEN "done" ELSE "failed", cmd[p])
        /\ IF accepted THEN CFDeployed(p) ELSE UNCHANGED <<stored, deployed, tampered>>
        /\ UNCHANGED <<fixedVars, innerConfig, manifest, target, token, countVars>>
  BY DEF BoshDeployCF
<1> DEFINE next == IF accepted THEN "done" ELSE "failed"
<1>2. pc[p] = "deploy" /\ next \in AllSteps /\ next \notin Steps /\ "deploy" \in Steps
  BY <1>1 DEF Move, Steps, AllSteps, Ended
<1>3. World /\ Fine(p) /\ cmd[p] \in Command
  BY <1>2, FineNow DEF Active, Ended
<1>4. UNCHANGED <<fixedVars, target>> /\ UNCHANGED <<begun, faults>>
  BY <1>1 DEF countVars
<1>5. Moves(p) /\ ~Active(p)'
  <2> HIDE DEF next
  <2>1. Moves(p) /\ pc'[p] = next
    BY <1>1, <1>2, <1>3, <1>4, MoveMoves DEF IInv, next
  <2> QED
    BY <1>2, <2>1 DEF Active, AllSteps
<1>6. World'
  <2>1. CASE accepted
    <3>1. Accepts(cmd[p].ip, {deployed.bosh})
      BY <2>1 DEF Verdicts
    <3>2. cmd[p].ip \in Address
      BY <1>2, <1>3 DEF Fine, AddressOf, Addressed, Prepares
    <3> QED
      BY <1>1, <1>3, <1>4, <2>1, <3>1, <3>2, CFDeployedWorld DEF World
  <2>2. CASE ~accepted
    <3>1. UNCHANGED <<fixedVars, worldVars, configVars, countVars>>
      BY <1>1, <2>2 DEF worldVars, configVars
    <3> QED
      BY <1>3, <3>1, WorldAgain
  <2> QED
    BY <2>1, <2>2
<1> QED
  BY <1>5, <1>6, FineAgain

\* bosh deploy in bosh deploy, which reads the manifest file and removes it.
LEMMA BoshDeployDirectorKeeps ==
  ASSUME IInv, NEW p \in Procs, BoshDeployDirector(p)
  PROVE  IInv'
<1>1. PICK accepted \in Verdicts(p, manifest, {CF.ip}) :
        /\ cmd[p].op = "boshDeploy"
        /\ Move(p, "deploy", IF accepted THEN "wardenConfig" ELSE "failed", cmd[p])
        /\ manifest' = NoIP
        /\ IF accepted THEN BOSHDeployed(p) ELSE UNCHANGED <<stored, deployed, innerConfig>>
        /\ UNCHANGED <<fixedVars, tampered, target, token, countVars>>
  BY DEF BoshDeployDirector
<1> DEFINE next == IF accepted THEN "wardenConfig" ELSE "failed"
<1>2. pc[p] = "deploy" /\ next \in AllSteps /\ (next \in Steps => accepted) /\ "deploy" \in Steps
  BY <1>1 DEF Move, Steps, AllSteps, Ended
<1>3. World /\ Fine(p) /\ cmd[p] \in Command
  BY <1>2, FineNow DEF Active, Ended
<1>4. UNCHANGED <<fixedVars, target>> /\ UNCHANGED <<begun, faults>>
  BY <1>1 DEF countVars
<1>5. Moves(p) /\ pc'[p] = next /\ (next \in Steps => cmd'[p] = cmd[p])
  <2> HIDE DEF next
  <2> QED
    BY <1>1, <1>2, <1>3, <1>4, MoveMoves DEF IInv, next
<1>6. CASE accepted
  <2>1. Accepts(manifest, {CF.ip})
    BY <1>6 DEF Verdicts
  <2>2. World' /\ stored'[BOSHName] # Absent /\ deployed'.bosh = manifest
    BY <1>1, <1>3, <1>4, <1>6, <2>1, BOSHDeployedWorld DEF World
  <2>3. pc'[p] = "wardenConfig" /\ cmd'[p] = cmd[p]
    BY <1>5, <1>6 DEF Steps
  <2>4. FlowOf(p)' /\ AddressOf(p)' /\ TodoOf(p)' /\ ShellOf(p)'
    BY <1>1, <1>2, <1>3, <1>4, <2>3
       DEF Fine, FlowOf, OpsAt, AddressOf, TodoOf, ShellOf, Addressed, Prepares, Connected, Outer,
           fixedVars
  <2>5. ForcesCreds(p)' /\ FindsPassword(p)' /\ KeepsRouter(p)' /\ Acceptable(p)'
    BY <1>1, <2>3 DEF ForcesCreds, FindsPassword, KeepsRouter, Acceptable, Prepares
  <2>6. cmd'[p].alone => DeploysDirector(p)'
    BY <1>1, <1>2, <1>3, <2>2, <2>3 DEF Fine, DeploysDirector
  <2> QED
    BY <1>5, <2>2, <2>4, <2>5, <2>6, FineAgain DEF Fine
<1>7. CASE ~accepted
  <2>1. World'
    BY <1>1, <1>3, <1>4, <1>7
       DEF World, fixedVars, CredsKept, PlacesKept, ConfigTypeOK, CF
  <2>2. ~Active(p)'
    BY <1>5, <1>7 DEF Active, Ended
  <2> QED
    BY <1>5, <2>1, <2>2, FineAgain
<1> QED
  BY <1>6, <1>7

\* bosh deploy that fails, whatever it has done by then.
LEMMA BoshDeployFailsKeeps ==
  ASSUME IInv, NEW p \in Procs, BoshDeployFails(p)
  PROVE  IInv'
<1>1. /\ Move(p, "deploy", "failed", cmd[p]) /\ UNCHANGED <<fixedVars, target>>
      /\ UNCHANGED begun /\ faults < MaxFaults /\ faults' = faults + 1 /\ UNCHANGED token
  BY DEF BoshDeployFails, Fault
<1>2. pc[p] = "deploy" /\ "failed" \in AllSteps /\ "deploy" \in Steps
  BY <1>1 DEF Move, Steps, AllSteps, Ended
<1>3. World /\ Fine(p) /\ cmd[p] \in Command
  BY <1>2, FineNow DEF Active, Ended
<1>4. Moves(p) /\ ~Active(p)'
  BY <1>1, <1>2, <1>3, MoveMoves DEF IInv, Active, Ended
<1>5. faults' \in 0 .. MaxFaults
  BY <1>1, <1>3, BoundsAssumption DEF World
<1>6. cmd[p].ip \in Address
  BY <1>2, <1>3 DEF Fine, AddressOf, Addressed, Prepares
<1>7. CASE cmd[p].op = "cfDeploy"
  <2>1. /\ Accepts(cmd[p].ip, {deployed.bosh}) /\ CFDeployFails(p)
        /\ UNCHANGED <<innerConfig, manifest>>
    BY <1>7 DEF BoshDeployFails
  <2>2. ASSUME CFDeployed(p) PROVE World'
    BY <1>1, <1>3, <1>5, <1>6, <2>1, <2>2, CFDeployedWorld
  <2>3. ASSUME stored' = Generated(CFNames), tampered' = TRUE, UNCHANGED deployed PROVE World'
    <3>1. stored' \in [Names -> Generations \cup {Absent}]
      BY <1>3, <2>3, GeneratedType, NamesAssumption
    <3> QED
      BY <1>1, <1>3, <1>5, <2>1, <2>3, <3>1
         DEF World, fixedVars, CredsKept, PlacesKept, ConfigTypeOK, CF
  <2>4. ASSUME UNCHANGED <<stored, deployed, tampered>> PROVE World'
    BY <1>1, <1>3, <1>5, <2>1, <2>4
       DEF World, fixedVars, CredsKept, PlacesKept, ConfigTypeOK, CF
  <2>5. World'
    BY <2>1, <2>2, <2>3, <2>4 DEF CFDeployFails
  <2> QED
    BY <1>4, <2>5, FineAgain
<1>8. CASE cmd[p].op # "cfDeploy"
  <2>1. /\ manifest' = NoIP /\ UNCHANGED tampered
        /\ \/ Accepts(manifest, {CF.ip}) /\ BOSHDeployed(p)
           \/ UNCHANGED <<deployed, stored, innerConfig>>
    BY <1>8 DEF BoshDeployFails
  <2>2. ASSUME Accepts(manifest, {CF.ip}), BOSHDeployed(p) PROVE World'
    BY <1>1, <1>3, <1>5, <2>1, <2>2, BOSHDeployedWorld
  <2>3. ASSUME UNCHANGED <<deployed, stored, innerConfig>> PROVE World'
    BY <1>1, <1>3, <1>5, <2>1, <2>3
       DEF World, fixedVars, CredsKept, PlacesKept, ConfigTypeOK, CF
  <2>4. World'
    BY <2>1, <2>2, <2>3
  <2> QED
    BY <1>4, <2>4, FineAgain
<1> QED
  BY <1>7, <1>8

\* getWardenDirectorConfig.
LEMMA GetWardenDirectorConfigKeeps ==
  ASSUME IInv, NEW p \in Procs, GetWardenDirectorConfig(p)
  PROVE  IInv'
<1> DEFINE next == IF stored[BOSHName] = Absent THEN "done" ELSE "apply"
           local == NewDirector(p, "inner")
<1>1. Local(p, "wardenConfig", next, local) /\ "wardenConfig" \in Steps /\ next \in AllSteps
  BY DEF GetWardenDirectorConfig, Steps, AllSteps, Ended
<1>2. pc[p] = "wardenConfig"
  BY <1>1 DEF Local, Move
<1>3. World /\ Fine(p) /\ cmd[p] \in Command
  BY <1>2, FineNow DEF Active, Ended
<1>4. /\ local \in Command /\ local.alone = cmd[p].alone
      /\ local.op = cmd[p].op /\ local.ip = cmd[p].ip /\ local.dry = cmd[p].dry
      /\ local.delete = cmd[p].delete /\ local.astray = cmd[p].astray
  BY <1>3 DEF Command, NewDirector
<1>5. next \in Steps => next = "apply"
  BY DEF Steps
<1>6. cmd[p].op = "boshDeploy" /\ ~cmd[p].delete
  BY <1>2, <1>3 DEF Fine, FlowOf, OpsAt
<1> HIDE DEF next, local
<1>7. ASSUME next \in Steps PROVE Fine(p)'
  <2>1. cmd'[p] = local /\ pc'[p] = "apply"
    BY <1>1, <1>4, <1>5, <1>7, MoveMoves DEF Local, Quiet, IInv
  <2>2. UNCHANGED <<fixedVars, worldVars, target, configVars>>
    BY <1>1 DEF Local, Quiet
  <2>3. FlowOf(p)' /\ AddressOf(p)' /\ TodoOf(p)' /\ ShellOf(p)'
    BY <1>2, <1>3, <1>4, <1>6, <2>1, <2>2
       DEF Fine, FlowOf, OpsAt, AddressOf, TodoOf, ShellOf, Addressed, Prepares, Connected, Outer,
           fixedVars
  <2>4. ForcesCreds(p)' /\ FindsPassword(p)' /\ KeepsRouter(p)' /\ Acceptable(p)'
    BY <1>4, <1>6, <2>1 DEF ForcesCreds, FindsPassword, KeepsRouter, Acceptable, Prepares
  <2>5. cmd'[p].alone => DeploysDirector(p)'
    BY <1>2, <1>3, <1>4, <2>1, <2>2 DEF Fine, DeploysDirector, worldVars
  <2> QED
    BY <2>3, <2>4, <2>5 DEF Fine
<1> QED
  BY <1>1, <1>4, <1>7, LocalAgain

\* The cloud-config of the inner director.
LEMMA ApplyCloudConfigKeeps ==
  ASSUME IInv, NEW p \in Procs, ApplyCloudConfig(p)
  PROVE  IInv'
<1>1. /\ Move(p, "apply", "done", cmd[p])
      /\ innerConfig' = (innerConfig \/ deployed.bosh = cmd[p].ip)
      /\ UNCHANGED <<fixedVars, deployed, tampered, manifest, target, configVars, countVars>>
      /\ "apply" \in Steps /\ "done" \in AllSteps
  BY DEF ApplyCloudConfig, Steps, AllSteps, Ended
<1>2. pc[p] = "apply"
  BY <1>1 DEF Move
<1>3. World /\ cmd[p] \in Command
  BY <1>2, FineNow DEF Active, Ended
<1>4. Moves(p) /\ ~Active(p)'
  BY <1>1, <1>2, <1>3, MoveMoves DEF IInv, Active, Ended
<1>5. World'
  BY <1>1, <1>3
     DEF World, fixedVars, CredsKept, PlacesKept, ConfigTypeOK, CF, countVars,
     configVars
<1> QED
  BY <1>4, <1>5, FineAgain

-----------------------------------------------------------------------------
\* The commands that ask.
LEMMA Ending ==
  ASSUME IInv, NEW p \in Procs, NEW from \in Steps, NEW next \in Ended,
         Move(p, from, next, cmd[p]), UNCHANGED fixedVars,
         target' \in [Procs -> Targets], \A q \in Procs \ {p} : target'[q] = target[q],
         World'
  PROVE  IInv'
<1>1. cmd[p] \in Command /\ DTypeOK /\ next \in AllSteps
  BY DEF IInv, DTypeOK, AllSteps
<1>2. Moves(p) /\ pc'[p] = next
  BY <1>1, MoveTargets
<1> QED
  BY <1>2, FineAgain DEF Active

\* Giving the token back leaves the world as it was.
LEMMA ForgetWorld ==
  ASSUME World, NEW p \in Procs, Forget(p), UNCHANGED <<fixedVars, worldVars, stored, begun>>,
         faults' \in 0 .. MaxFaults
  PROVE  World'
<1>1. token' \in [Clients -> [claimed : Nat, real : Nat]]
  BY ForgetKeeps DEF World
<1> QED
  BY <1>1 DEF World, ConfigTypeOK, CredsKept, PlacesKept, CF, fixedVars, worldVars

\* The invariant's part about the world.
LEMMA WorldNow ==
  ASSUME IInv
  PROVE  World
BY DEF IInv, DTypeOK, World

\* A deployment that is deleted leaves the places of the others.
LEMMA WithoutWorld ==
  ASSUME World, NEW p \in Procs, deployed' \in {deployed, WithoutDeployment(p)},
         innerConfig' = (innerConfig /\ deployed'.bosh # NoIP),
         UNCHANGED <<fixedVars, tampered, manifest, configVars, begun>>, faults' \in 0 .. MaxFaults
  PROVE  World'
<1>1. deployed \in [cf : [ip : Address \cup {NoIP},
                          creds : [CFNames -> Generations \cup {Absent}]],
                    bosh : Address \cup {NoIP}]
  BY DEF World
<1>2. NoCF \in [ip : Address \cup {NoIP}, creds : [CFNames -> Generations \cup {Absent}]]
      /\ NoCF.ip = NoIP
  BY DEF NoCF
<1>3. \/ deployed' = deployed
      \/ deployed' = [deployed EXCEPT !.cf = NoCF]
      \/ deployed' = [deployed EXCEPT !.bosh = NoIP]
  BY DEF WithoutDeployment
<1>4. /\ deployed' \in [cf : [ip : Address \cup {NoIP},
                              creds : [CFNames -> Generations \cup {Absent}]],
                        bosh : Address \cup {NoIP}]
      /\ deployed'.cf = deployed.cf \/ deployed'.cf.ip = NoIP
      /\ deployed'.bosh \in {deployed.bosh, NoIP}
  BY <1>1, <1>2, <1>3
<1>5. CredsKept' /\ PlacesKept'
  BY <1>4 DEF World, CredsKept, PlacesKept, CF, configVars, fixedVars
<1>6. ConfigTypeOK' /\ innerConfig' \in BOOLEAN
  BY DEF World, ConfigTypeOK, configVars
<1> QED
  BY <1>4, <1>5, <1>6 DEF World, fixedVars, configVars

\* cf delete and bosh delete.
LEMMA BoshDeleteKeeps ==
  ASSUME IInv, NEW p \in Procs, BoshDelete(p)
  PROVE  IInv'
<1>1. PICK next \in Ended :
        /\ Move(p, "delete", next, cmd[p])
        /\ deployed' = IF next = "done" THEN WithoutDeployment(p) ELSE deployed
        /\ innerConfig' = (innerConfig /\ deployed'.bosh # NoIP)
        /\ UNCHANGED <<fixedVars, tampered, manifest, target, configVars, countVars>>
  BY DEF BoshDelete
<1>2. World
  BY WorldNow
<1>3. UNCHANGED <<begun, faults>> /\ faults \in 0 .. MaxFaults
  BY <1>1, <1>2 DEF countVars, World
<1>4. World'
  BY <1>1, <1>2, <1>3, WithoutWorld
<1>5. target' \in [Procs -> Targets] /\ \A q \in Procs \ {p} : target'[q] = target[q]
  BY <1>1 DEF IInv, DTypeOK
<1> QED
  BY <1>1, <1>4, <1>5, Ending DEF Steps

\* cf delete and bosh delete that fail.
LEMMA BoshDeleteFailsKeeps ==
  ASSUME IInv, NEW p \in Procs, BoshDeleteFails(p)
  PROVE  IInv'
<1>1. /\ Move(p, "delete", "failed", cmd[p]) /\ "failed" \in Ended /\ "delete" \in Steps
      /\ deployed' \in {deployed, WithoutDeployment(p)}
      /\ innerConfig' = (innerConfig /\ deployed'.bosh # NoIP)
      /\ UNCHANGED <<tampered, manifest, target, configVars>> /\ UNCHANGED <<fixedVars, begun>>
      /\ faults < MaxFaults /\ faults' = faults + 1
  BY DEF BoshDeleteFails, Fault, Ended, Steps
<1>2. World
  BY WorldNow
<1>3. faults' \in 0 .. MaxFaults
  BY <1>1, <1>2, BoundsAssumption DEF World
<1>4. World'
  BY <1>1, <1>2, <1>3, WithoutWorld
<1>5. target' \in [Procs -> Targets] /\ \A q \in Procs \ {p} : target'[q] = target[q]
  BY <1>1 DEF IInv, DTypeOK
<1> QED
  BY <1>1, <1>4, <1>5, Ending

\* The steps that leave everything but their command alone, and have no address.
LEMMA AskFine ==
  ASSUME IInv, NEW p \in Procs, Active(p), cmd[p].op \notin Deploys \cup {"cfManifest"},
         pc'[p] \notin Prepares \cup {"resolve", "select", "wardenConfig", "apply"},
         cmd[p].op \in OpsAt(pc'[p]),
         cmd'[p].op = cmd[p].op, cmd'[p].dry = cmd[p].dry, cmd'[p].delete = cmd[p].delete,
         cmd'[p].astray = cmd[p].astray, UNCHANGED fixedVars,
         cmd'[p].alone => FindsPassword(p)'
  PROVE  Fine(p)'
<1>1. Fine(p)
  BY FineNow
<1>2. UNCHANGED reach /\ ~cmd[p].delete /\ ~cmd[p].dry
  BY <1>1 DEF fixedVars, Fine, FlowOf, Deploys
<1>3. FlowOf(p)'
  BY <1>1, <1>2 DEF Fine, FlowOf
<1>4. AddressOf(p)' /\ TodoOf(p)' /\ ShellOf(p)'
  BY <1>2 DEF AddressOf, TodoOf, ShellOf, Addressed, Prepares, Connected
<1>5. ForcesCreds(p)' /\ KeepsRouter(p)' /\ Acceptable(p)' /\ DeploysDirector(p)'
  BY <1>2 DEF ForcesCreds, KeepsRouter, Acceptable, DeploysDirector, Prepares, Deploys
<1> QED
  BY <1>3, <1>4, <1>5 DEF Fine

\* GetSystemDomain: only a CF that runs has a domain.
LEMMA GetSystemDomainKeeps ==
  ASSUME IInv, NEW p \in Procs, GetSystemDomain(p)
  PROVE  IInv'
<1> DEFINE next == IF Outer(p) /\ CF.ip # NoIP THEN "admin" ELSE "failed"
<1>1. Local(p, "domain", next, cmd[p]) /\ next \in AllSteps /\ "domain" \in Steps
  BY DEF GetSystemDomain, AllSteps, Steps, Ended
<1>2. pc[p] = "domain" /\ Active(p)
  BY <1>1 DEF Local, Move, Active, Ended
<1>3. Fine(p) /\ cmd[p] \in Command
  BY <1>2, FineNow
<1>4. next \in Steps => next = "admin" /\ CF.ip # NoIP
  BY DEF Steps
<1> HIDE DEF next
<1>5. ASSUME next \in Steps PROVE Fine(p)'
  <2>1. cmd'[p] = cmd[p] /\ pc'[p] = "admin" /\ CF.ip # NoIP
    BY <1>1, <1>3, <1>4, <1>5, MoveMoves DEF Local, Quiet, IInv
  <2>2. UNCHANGED <<fixedVars, worldVars, target, configVars>>
    BY <1>1 DEF Local, Quiet
  <2>3. cmd[p].op \in {"cfPrint", "cfLogin"}
    BY <1>2, <1>3 DEF Fine, FlowOf, OpsAt
  <2>4. cmd[p].op \in OpsAt(pc'[p]) /\ cmd[p].op \notin Deploys \cup {"cfManifest"}
    BY <2>1, <2>3 DEF OpsAt, Deploys
  <2>5. FindsPassword(p)'
    BY <2>1, <2>2 DEF FindsPassword, CF, worldVars
  <2> QED
    BY <1>2, <2>1, <2>2, <2>4, <2>5, AskFine DEF Prepares
<1> QED
  BY <1>1, <1>3, <1>5, LocalAgain

\* The two names of the admin password: the second is asked for when the first is not
\* stored, and then a CF deployed with the stored credentials has no first one either.
LEMMA AskPasswordKeeps ==
  ASSUME IInv, NEW p \in Procs, NEW from \in {"admin", "altAdmin"}, NEW name \in CFNames,
         NEW otherwise \in {"altAdmin", "failed"},
         AskPassword(p, from, name, otherwise),
         from = "admin" => name = "cf_admin_password",
         from = "altAdmin" => otherwise = "failed"
  PROVE  IInv'
<1>1. PICK answer \in Generations \cup {Absent}, timely \in BOOLEAN :
        /\ Get(p, name, answer, timely)
        /\ Move(p, from, IF answer = Absent THEN otherwise ELSE "say",
                [cmd[p] EXCEPT !.said = IF answer = Absent THEN Absent ELSE <<name, answer>>,
                               !.timely = @ /\ timely])
        /\ UNCHANGED <<fixedVars, worldVars, target, countVars>>
  BY DEF AskPassword
<1> DEFINE next == IF answer = Absent THEN otherwise ELSE "say"
           said == IF answer = Absent THEN Absent ELSE <<name, answer>>
           intime == cmd[p].timely /\ timely
           local == [cmd[p] EXCEPT !.said = said, !.timely = intime]
<1>2. pc[p] = from /\ Active(p) /\ from \in Steps /\ next \in AllSteps
  BY <1>1 DEF AskPassword, Active, Ended, Steps, AllSteps
<1>3. World /\ Fine(p) /\ cmd[p] \in Command
  BY <1>2, FineNow
<1>4. PICK sent \in Sent(token[p]) :
        /\ timely = sent.timely
        /\ answer = (IF sent.accepted THEN stored[name] ELSE Absent)
        /\ token' = [token EXCEPT ![p] = IF answer = Absent THEN sent.left ELSE NoToken]
        /\ UNCHANGED stored
  BY <1>1 DEF Get
<1>5. token' \in [Clients -> [claimed : Nat, real : Nat]]
  BY <1>3, <1>4, SentInTime DEF World, ConfigTypeOK, NoToken
<1>6. /\ timely => answer = stored[name]
      /\ intime \in BOOLEAN /\ (intime => cmd[p].timely /\ timely)
  BY <1>3, <1>4, SentInTime DEF World, Command
<1>7. /\ local \in Command /\ local.said = said /\ local.alone = cmd[p].alone
      /\ local.op = cmd[p].op /\ local.dry = cmd[p].dry /\ local.delete = cmd[p].delete
      /\ local.astray = cmd[p].astray /\ local.timely = intime
  <2>1. said \in (CFNames \X Generations) \cup {Absent}
    OBVIOUS
  <2> HIDE DEF said, intime
  <2> DEFINE told == [cmd[p] EXCEPT !.said = said]
  <2>2. /\ told \in Command /\ told.said = said /\ told.alone = cmd[p].alone
        /\ told.op = cmd[p].op /\ told.dry = cmd[p].dry /\ told.delete = cmd[p].delete
        /\ told.astray = cmd[p].astray
    BY <1>3, <2>1 DEF Command
  <2>3. local = [told EXCEPT !.timely = intime]
    OBVIOUS
  <2> HIDE DEF told
  <2> QED
    BY <1>6, <2>2, <2>3 DEF Command
<1>8. World'
  BY <1>1, <1>3, <1>4, <1>5
     DEF World, ConfigTypeOK, CredsKept, PlacesKept, CF, fixedVars, worldVars, countVars
<1>9. Move(p, from, next, local) /\ UNCHANGED <<fixedVars, target>>
  BY <1>1
<1> HIDE DEF next, said, intime, local
<1>10. Moves(p) /\ pc'[p] = next /\ (next \in Steps => cmd'[p] = local)
  BY <1>2, <1>7, <1>9, MoveMoves DEF IInv
<1>11. ASSUME next \in Steps PROVE Fine(p)'
  <2>1. cmd[p].op \in {"cfPrint", "cfLogin"}
    BY <1>2, <1>3 DEF Fine, FlowOf, OpsAt
  <2>2. \/ next = "altAdmin" /\ answer = Absent /\ from = "admin"
        \/ next = "say" /\ said = <<name, answer>>
    BY <1>2, <1>11 DEF next, said, Steps
  <2>3. cmd[p].op \in OpsAt(pc'[p]) /\ cmd[p].op \notin Deploys \cup {"cfManifest"}
    BY <1>10, <2>1, <2>2 DEF OpsAt, Deploys
  <2>4. ASSUME cmd[p].alone PROVE FindsPassword(p)'
    <3>1. FindsPassword(p) /\ CF.ip # NoIP
      BY <1>2, <1>3, <2>4 DEF Fine, FindsPassword
    <3>2. CF' = CF /\ stored' = stored /\ tampered' = tampered
      BY <1>1, <1>4 DEF CF, worldVars
    <3>3. ~tampered => \A n \in CFNames : stored[n] # Absent /\ stored[n] = CF.creds[n]
      BY <1>3, <3>1 DEF World, CredsKept
    <3>4. next = "altAdmin" /\ intime => stored["cf_admin_password"] = Absent
      BY <1>6, <2>2
    <3>5. ~tampered /\ intime /\ next = "say" =>
            said = <<"cf_admin_password", CF.creds["cf_admin_password"]>>
      <4>1. ~tampered /\ intime => from = "admin"
        BY <1>6, <1>2, <3>1, <3>3 DEF FindsPassword, CFNames
      <4> QED
        BY <1>6, <2>2, <3>3, <4>1 DEF CFNames
    <3>6. pc'[p] = next /\ cmd'[p].said = said /\ cmd'[p].timely = intime /\ next \in {"altAdmin", "say"}
      BY <1>7, <1>10, <1>11, <2>2
    <3> QED
      BY <3>1, <3>2, <3>4, <3>5, <3>6 DEF FindsPassword
  <2> QED
    BY <1>1, <1>2, <1>7, <1>10, <1>11, <2>1, <2>2, <2>3, <2>4, AskFine DEF Prepares
<1>12. Active(p)' => next \in Steps
  BY <1>2, <1>10 DEF Active, AllSteps
<1> QED
  BY <1>8, <1>10, <1>11, <1>12, FineAgain

\* print-env, cats-config and login when they have a password.
LEMMA AskEnds ==
  ASSUME IInv, NEW p \in Procs, PrintPassword(p) \/ Authenticate(p)
  PROVE  IInv'
<1>1. PICK next \in Ended :
        /\ Move(p, "say", next, cmd[p]) /\ Forget(p)
        /\ UNCHANGED <<fixedVars, worldVars, target, stored, countVars>>
  BY DEF PrintPassword, Authenticate, Ended
<1>2. World
  BY WorldNow
<1>3. UNCHANGED <<begun, faults>> /\ faults \in 0 .. MaxFaults
  BY <1>1, <1>2 DEF countVars, World
<1>4. World'
  BY <1>1, <1>2, <1>3, ForgetWorld
<1>5. target' \in [Procs -> Targets] /\ \A q \in Procs \ {p} : target'[q] = target[q]
  BY <1>1 DEF IInv, DTypeOK
<1> QED
  BY <1>1, <1>4, <1>5, Ending DEF Steps

\* What a shell evaluates.
LEMMA PrintEnvKeeps ==
  ASSUME IInv, NEW p \in Procs, PrintEnv(p) \/ PrintBOSHEnv(p)
  PROVE  IInv'
<1>1. PICK next \in Ended, from \in {"exec", "innerCreds"} :
        /\ Move(p, from, next, cmd[p])
        /\ target' \in {target, [target EXCEPT ![p] = "outer"], [target EXCEPT ![p] = "inner"]}
        /\ UNCHANGED <<fixedVars, worldVars, configVars, countVars>>
  BY DEF PrintEnv, PrintBOSHEnv, Ended
<1>2. World'
  BY <1>1, WorldNow, WorldAgain
<1>3. target' \in [Procs -> Targets] /\ \A q \in Procs \ {p} : target'[q] = target[q]
  BY <1>1 DEF IInv, DTypeOK, Targets
<1> QED
  BY <1>1, <1>2, <1>3, Ending DEF Steps

\* bosh print-env, which asks for the address first.
LEMMA GetDirectorIPKeeps ==
  ASSUME IInv, NEW p \in Procs, GetDirectorIP(p)
  PROVE  IInv'
<1> DEFINE next == IF Outer(p) /\ deployed.bosh # NoIP THEN "innerCreds" ELSE "failed"
<1>1. Local(p, "innerIP", next, cmd[p]) /\ next \in AllSteps /\ "innerIP" \in Steps
  BY DEF GetDirectorIP, AllSteps, Steps, Ended
<1>2. pc[p] = "innerIP" /\ Active(p)
  BY <1>1 DEF Local, Move, Active, Ended
<1>3. Fine(p) /\ cmd[p] \in Command
  BY <1>2, FineNow
<1>4. next \in Steps => next = "innerCreds"
  BY DEF Steps
<1> HIDE DEF next
<1>5. ASSUME next \in Steps PROVE Fine(p)'
  <2>1. cmd'[p] = cmd[p] /\ pc'[p] = "innerCreds"
    BY <1>1, <1>3, <1>4, <1>5, MoveMoves DEF Local, Quiet, IInv
  <2>2. UNCHANGED fixedVars
    BY <1>1 DEF Local, Quiet
  <2>3. cmd[p].op \in OpsAt(pc'[p]) /\ cmd[p].op \notin Deploys \cup {"cfManifest"}
    BY <1>2, <1>3, <2>1 DEF Fine, FlowOf, OpsAt, Deploys
  <2>4. FindsPassword(p)'
    BY <2>1 DEF FindsPassword
  <2> QED
    BY <1>2, <2>1, <2>2, <2>3, <2>4, AskFine DEF Prepares
<1> QED
  BY <1>1, <1>3, <1>5, LocalAgain

\* creds get and creds delete.
LEMMA CredsKeeps ==
  ASSUME IInv, NEW p \in Procs, CredsGet(p) \/ CredsDelete(p)
  PROVE  IInv'
<1>1. World
  BY WorldNow
<1>2. ASSUME CredsGet(p) PROVE IInv'
  <2>1. PICK next \in Ended : Local(p, "creds", next, cmd[p])
    BY <1>2 DEF CredsGet, Ended
  <2>2. /\ Move(p, "creds", next, cmd[p])
        /\ UNCHANGED <<fixedVars, worldVars, target, configVars, countVars>>
    BY <2>1 DEF Local, Quiet
  <2>3. World'
    BY <1>1, <2>2, WorldAgain
  <2>4. target' \in [Procs -> Targets] /\ \A q \in Procs \ {p} : target'[q] = target[q]
    BY <2>2 DEF IInv, DTypeOK
  <2> QED
    BY <2>2, <2>3, <2>4, Ending DEF Steps
<1>3. ASSUME CredsDelete(p) PROVE IInv'
  <2>1. PICK name \in Names, next \in Ended :
          /\ Move(p, "creds", next, cmd[p])
          /\ stored' = [stored EXCEPT ![name] = Absent]
          /\ tampered' = (tampered \/ (name \in CFNames /\ stored[name] # Absent))
          /\ UNCHANGED <<fixedVars, deployed, innerConfig, manifest, target, token, countVars>>
    BY <1>3 DEF CredsDelete, Ended
  <2>2. stored' \in [Names -> Generations \cup {Absent}] /\ tampered' \in BOOLEAN
    BY <1>1, <2>1 DEF World, ConfigTypeOK
  <2>3. ~tampered' => ~tampered /\ \A n \in CFNames : stored'[n] = stored[n]
    BY <1>1, <2>1, NamesAssumption DEF World, ConfigTypeOK
  <2>4. CredsKept'
    BY <1>1, <2>1, <2>3 DEF World, CredsKept, CF
  <2>5. World'
    BY <1>1, <2>1, <2>2, <2>4
       DEF World, ConfigTypeOK, PlacesKept, CF, fixedVars, countVars
  <2>6. target' \in [Procs -> Targets] /\ \A q \in Procs \ {p} : target'[q] = target[q]
    BY <2>1 DEF IInv, DTypeOK
  <2> QED
    BY <2>1, <2>5, <2>6, Ending DEF Steps
<1> QED
  BY <1>2, <1>3

-----------------------------------------------------------------------------
\* Trouble.
LEMMA DisturbedType ==
  ASSUME NEW p \in Procs, cmd[p] \in Command
  PROVE  /\ Disturbed(p) \in Command /\ Disturbed(p).alone = FALSE
         /\ Disturbed(p).op = cmd[p].op /\ Disturbed(p).given = cmd[p].given
         /\ Disturbed(p).dry = cmd[p].dry /\ Disturbed(p).delete = cmd[p].delete
         /\ Disturbed(p).had = cmd[p].had /\ Disturbed(p).astray = cmd[p].astray
         /\ Disturbed(p).todo = cmd[p].todo
BY DEF Disturbed, Command

\* A call that fails and changes nothing.
LEMMA AskFailsKeeps ==
  ASSUME IInv, NEW p \in Procs, AskFails(p)
  PROVE  IInv'
<1> DEFINE from == pc[p]
           next == OnError(p)
           local == Disturbed(p)
<1>1. /\ Move(p, from, next, local) /\ UNCHANGED <<fixedVars, target>>
      /\ UNCHANGED <<worldVars, begun>> /\ faults < MaxFaults /\ faults' = faults + 1
      /\ IF next \in Ended THEN Forget(p) /\ UNCHANGED stored ELSE UNCHANGED configVars
  BY DEF AskFails, Fault
<1>2. from \in Steps /\ from \notin Prepares \ {"createCPI", "connect", "filter", "write"}
      /\ Active(p)
  BY DEF AskFails, Steps, Active, Ended, Prepares
<1>3. World /\ Fine(p) /\ cmd[p] \in Command
  BY <1>2, FineNow
<1>4. /\ next \in AllSteps
      /\ next \in Steps => \/ next = "select" /\ from = "resolve"
                           \/ next = "altAdmin" /\ from = "admin"
  BY DEF OnError, GiveUp, AllSteps, Steps, Ended
<1>5. local \in Command /\ local.alone = FALSE
      /\ local.op = cmd[p].op /\ local.dry = cmd[p].dry /\ local.delete = cmd[p].delete
      /\ local.astray = cmd[p].astray /\ local.todo = cmd[p].todo
  BY <1>3, DisturbedType
<1> HIDE DEF from, next, local
<1>6. Moves(p) /\ pc'[p] = next /\ (next \in Steps => cmd'[p] = local)
  BY <1>1, <1>2, <1>4, <1>5, MoveMoves DEF IInv
<1>7. faults' \in 0 .. MaxFaults
  BY <1>1, <1>3, BoundsAssumption DEF World
<1>8. World'
  <2>1. CASE next \in Ended
    BY <1>1, <1>3, <1>7, <2>1, ForgetWorld
  <2>2. CASE next \notin Ended
    BY <1>1, <1>3, <1>7, <2>2
       DEF World, ConfigTypeOK, CredsKept, PlacesKept, CF, fixedVars, worldVars,
           configVars
  <2> QED
    BY <2>1, <2>2
<1>9. ASSUME next \in Steps PROVE Fine(p)'
  <2>1. cmd'[p] = local /\ pc'[p] = next /\ UNCHANGED reach
    BY <1>1, <1>6, <1>9 DEF fixedVars
  <2>2. FlowOf(p)' /\ AddressOf(p)' /\ TodoOf(p)' /\ ShellOf(p)'
    <3>1. CASE next = "select" /\ from = "resolve"
      BY <1>3, <1>5, <2>1, <3>1
         DEF Fine, FlowOf, OpsAt, AddressOf, TodoOf, ShellOf, Addressed, Prepares, Connected, from
    <3>2. CASE next = "altAdmin" /\ from = "admin"
      BY <1>3, <1>5, <2>1, <3>2
         DEF Fine, FlowOf, OpsAt, AddressOf, TodoOf, ShellOf, Addressed, Prepares, Connected, from
    <3> QED
      BY <1>4, <1>9, <3>1, <3>2
  <2> QED
    BY <1>5, <2>1, <2>2 DEF Fine
<1>10. Active(p)' => next \in Steps
  BY <1>4, <1>6 DEF Active, AllSteps
<1> QED
  BY <1>6, <1>8, <1>9, <1>10, FineAgain

\* An address selected although those in use could not be learnt.
LEMMA SelectBlindKeeps ==
  ASSUME IInv, NEW p \in Procs, SelectBlind(p)
  PROVE  IInv'
<1>1. PICK a \in Selected(p, {}) :
        /\ Move(p, "select", AfterResolve(p), [Disturbed(p) EXCEPT !.ip = a])
        /\ UNCHANGED <<worldVars, target, configVars>> /\ UNCHANGED <<fixedVars, target>>
        /\ UNCHANGED begun /\ faults < MaxFaults /\ faults' = faults + 1
  BY DEF SelectBlind, Fault
<1> DEFINE local == [Disturbed(p) EXCEPT !.ip = a]
<1>2. pc[p] = "select" /\ Active(p)
  BY <1>1 DEF Move, Active, Ended
<1>3. World /\ Fine(p) /\ cmd[p] \in Command
  BY <1>2, FineNow
<1>4. a \in Address
  BY <1>2, SelectedSuits
<1>5. local \in Command /\ local.alone = FALSE /\ local.ip = a
      /\ local.op = cmd[p].op /\ local.given = cmd[p].given /\ local.dry = cmd[p].dry
      /\ local.delete = cmd[p].delete /\ local.had = cmd[p].had
      /\ local.astray = cmd[p].astray /\ local.todo = cmd[p].todo
  <2>1. Disturbed(p) \in Command
    BY <1>3, DisturbedType
  <2>2. local \in Command /\ local.ip = a /\ local.alone = Disturbed(p).alone
        /\ local.op = Disturbed(p).op /\ local.given = Disturbed(p).given
        /\ local.dry = Disturbed(p).dry /\ local.delete = Disturbed(p).delete
        /\ local.had = Disturbed(p).had /\ local.astray = Disturbed(p).astray
        /\ local.todo = Disturbed(p).todo
    BY <1>4, <2>1 DEF Command
  <2> QED
    BY <1>3, <2>2, DisturbedType
<1>6. Move(p, "select", AfterResolve(p), local) /\ AfterResolve(p) \in AllSteps
  BY <1>1, AfterResolveType
<1> HIDE DEF local
<1>7. Moves(p) /\ pc'[p] = AfterResolve(p) /\ (AfterResolve(p) \in Steps => cmd'[p] = local)
  BY <1>1, <1>5, <1>6, MoveMoves DEF IInv, Steps
<1>8. World'
  BY <1>1, <1>3, BoundsAssumption
     DEF World, ConfigTypeOK, CredsKept, PlacesKept, CF, fixedVars, worldVars,
         configVars
<1>9. ASSUME AfterResolve(p) \in Steps PROVE Fine(p)'
  <2>1. SameFlags(p) /\ cmd'[p].ip = a /\ ~cmd'[p].alone
    BY <1>5, <1>7, <1>9 DEF SameFlags
  <2>2. UNCHANGED <<fixedVars, worldVars, target, configVars>>
    BY <1>1
  <2> QED
    BY <1>2, <1>4, <1>7, <1>9, <2>1, <2>2, AddressFine
<1>10. Active(p)' => AfterResolve(p) \in Steps
  BY <1>6, <1>7 DEF Active, AllSteps
<1> QED
  BY <1>7, <1>8, <1>9, <1>10, FineAgain

-----------------------------------------------------------------------------
\* A command begins: it is alone if no other runs, and those that run no longer are.
LEMMA BeginKeeps ==
  ASSUME IInv, NEW p \in Procs, Begin(p)
  PROVE  IInv'
<1>1. ~Active(p) /\ begun < MaxCommands /\ begun' = begun + 1
      /\ UNCHANGED <<fixedVars, worldVars, target, configVars, faults>>
  BY DEF Begin
<1> DEFINE others == {q \in Procs \ {p} : Active(q)}
           hadBy(op) == IF op = "cfDeploy" THEN CF.ip ELSE NoIP
           todoOf(delete) == IF delete THEN CFOrder ELSE <<>>
           commandOf(op, given, dry, delete) ==
             [NoCommand EXCEPT !.op = op, !.given = given, !.dry = dry, !.delete = delete,
                               !.todo = todoOf(delete), !.had = hadBy(op),
                               !.proxy = ShellProxy(p), !.alone = (others = {})]
           starts(command) ==
             [q \in Procs |-> IF q = p THEN command
                              ELSE IF q \in others THEN [cmd[q] EXCEPT !.alone = FALSE]
                              ELSE cmd[q]]
<1>2. PICK op \in Ops, given \in BOOLEAN, dry \in BOOLEAN, delete \in BOOLEAN :
        /\ Flags(op, given, dry, delete)
        /\ Goto(p, Entry[op])
        /\ cmd' = starts(commandOf(op, given, dry, delete))
  <2>1. \E op \in Ops : \E given, dry, delete \in BOOLEAN :
          /\ Flags(op, given, dry, delete)
          /\ Configured(p, op, given)
          /\ Goto(p, Entry[op])
          /\ cmd' = starts(commandOf(op, given, dry, delete))
    BY Zenon DEF Begin
  <2> HIDE DEF starts, commandOf
  <2> QED
    BY <2>1
<1> DEFINE had == hadBy(op)
           todo == todoOf(delete)
           command == commandOf(op, given, dry, delete)
<1>3. World /\ DTypeOK
  BY WorldNow DEF IInv
<1>4. had \in Address \cup {NoIP} /\ todo \in Seq(CFNames) /\ (delete => todo = CFOrder)
      /\ ShellProxy(p) \in {"none", "outer", "inner", "temporary"}
      /\ (others = {}) \in BOOLEAN
  <2>1. had \in Address \cup {NoIP}
    BY <1>3 DEF World, CF
  <2>2. CFOrder \in Seq(CFNames) /\ <<>> \in Seq(CFNames)
    BY DEF CFOrder, CFNames
  <2>3. ShellProxy(p) \in {"none", "outer", "inner", "temporary"}
    BY DEF ShellProxy
  <2> QED
    BY <2>1, <2>2, <2>3
<1>5. /\ command \in Command /\ command.op = op /\ command.given = given /\ command.dry = dry
      /\ command.delete = delete /\ command.todo = todo /\ command.had = had
      /\ command.alone = (others = {}) /\ command.astray = FALSE
  <2> DEFINE alone == others = {}
             shell == ShellProxy(p)
  <2>1. NoCommand \in Command /\ NoCommand.astray = FALSE
    BY DEF NoCommand, Command, Ops, Deploys
  <2>2. had \in Address \cup {NoIP} /\ todo \in Seq(CFNames) /\ alone \in BOOLEAN
        /\ shell \in {"none", "outer", "inner", "temporary"}
    BY <1>4
  <2>3. command = [NoCommand EXCEPT !.op = op, !.given = given, !.dry = dry, !.delete = delete,
                                    !.todo = todo, !.had = had, !.proxy = shell, !.alone = alone]
    OBVIOUS
  <2> HIDE DEF had, todo, command, alone, shell
  <2> DEFINE flagged == [NoCommand EXCEPT !.op = op, !.given = given, !.dry = dry, !.delete = delete]
  <2>4. /\ flagged \in Command /\ flagged.op = op /\ flagged.given = given /\ flagged.dry = dry
        /\ flagged.delete = delete /\ flagged.astray = FALSE
    BY <2>1 DEF Command
  <2>5. command = [flagged EXCEPT !.todo = todo, !.had = had, !.proxy = shell, !.alone = alone]
    BY <2>3
  <2> HIDE DEF flagged
  <2>6. /\ command \in Command /\ command.op = op /\ command.given = given /\ command.dry = dry
        /\ command.delete = delete /\ command.todo = todo /\ command.had = had
        /\ command.alone = alone /\ command.astray = FALSE
    BY <2>2, <2>4, <2>5 DEF Command
  <2> QED
    BY <2>6 DEF alone
<1>6. Flags(op, given, dry, delete) /\ pc' = [pc EXCEPT ![p] = Entry[op]]
      /\ cmd' = starts(command)
  BY <1>2 DEF Goto
<1> HIDE DEF command
<1>7. /\ Entry[op] \in {"resolve", "checkCPI", "delete", "domain", "innerIP", "exec", "creds"}
      /\ op \in OpsAt(Entry[op])
      /\ op \in Deploys => Entry[op] \in {"resolve", "checkCPI"}
  BY DEF Entry, OpsAt, Ops, Deploys
<1>8. ASSUME NEW q \in Procs \ {p}
      PROVE  /\ cmd'[q] \in Command
             /\ cmd'[q].op = cmd[q].op /\ cmd'[q].ip = cmd[q].ip
             /\ cmd'[q].dry = cmd[q].dry /\ cmd'[q].delete = cmd[q].delete
             /\ cmd'[q].todo = cmd[q].todo /\ cmd'[q].env = cmd[q].env
             /\ cmd'[q].proxy = cmd[q].proxy /\ cmd'[q].astray = cmd[q].astray
             /\ Active(q) => ~cmd'[q].alone
             /\ pc'[q] = pc[q]
  <2>1. cmd[q] \in Command
    BY <1>3 DEF DTypeOK
  <2>2. cmd'[q] = IF Active(q) THEN [cmd[q] EXCEPT !.alone = FALSE] ELSE cmd[q]
    BY <1>6
  <2>3. pc'[q] = pc[q]
    BY <1>3, <1>6 DEF DTypeOK
  <2>4. CASE Active(q)
    BY <2>1, <2>2, <2>3, <2>4 DEF Command
  <2>5. CASE ~Active(q)
    BY <2>1, <2>2, <2>3, <2>5
  <2> QED
    BY <2>4, <2>5
<1>9. pc'[p] = Entry[op] /\ cmd'[p] = command /\ UNCHANGED reach
  BY <1>1, <1>3, <1>6 DEF DTypeOK, fixedVars
<1> HIDE DEF had, todo, hadBy, todoOf
<1>10. FlowOf(p)' /\ AddressOf(p)' /\ TodoOf(p)' /\ ShellOf(p)'
  <2>1. FlowOf(p)'
    BY <1>5, <1>6, <1>7, <1>9 DEF FlowOf, Flags, Deploys
  <2>2. AddressOf(p)' /\ ShellOf(p)'
    BY <1>7, <1>9 DEF AddressOf, ShellOf, Addressed, Prepares, Connected
  <2>3. TodoOf(p)'
    BY <1>4, <1>5, <1>7, <1>9 DEF TodoOf
  <2> QED
    BY <2>1, <2>2, <2>3
<1>11. ProcessInv'
  <2>1. ASSUME NEW q \in Procs \ {p}, Active(q)'
        PROVE  FlowOf(q)' /\ AddressOf(q)' /\ TodoOf(q)' /\ ShellOf(q)'
    <3>1. Active(q) /\ FlowOf(q) /\ AddressOf(q) /\ TodoOf(q) /\ ShellOf(q)
      BY <1>8, <2>1 DEF Active, IInv, ProcessInv
    <3>2. UNCHANGED <<kind, reach, target>>
      BY <1>1 DEF fixedVars
    <3> QED
      BY <1>8, <3>1, <3>2
         DEF FlowOf, AddressOf, TodoOf, ShellOf, Outer, ShellProxy, HasDirectNetworkAccess
  <2> QED
    BY <1>10, <2>1 DEF ProcessInv
<1>12. AloneInv'
  <2>1. \A q \in Procs \ {p} : q \notin Alone'
    BY <1>8 DEF Alone, Active
  <2>2. p \in Alone' => \A q \in Procs \ {p} : ~Active(q)'
    BY <1>5, <1>8, <1>9 DEF Alone, Active
  <2>3. ForcesCreds(p)' /\ FindsPassword(p)' /\ Acceptable(p)' /\ DeploysDirector(p)'
    BY <1>7, <1>9 DEF ForcesCreds, FindsPassword, Acceptable, DeploysDirector, Prepares
  <2>4. KeepsRouter(p)'
    <3>1. CF' = CF
      BY <1>1 DEF CF, worldVars
    <3> QED
      BY <1>5, <1>7, <1>9, <3>1 DEF KeepsRouter, Addressed, Prepares, had, hadBy
  <2> QED
    BY <2>1, <2>2, <2>3, <2>4 DEF AloneInv, Alone
<1>13. World'
  BY <1>1, <1>3, BoundsAssumption
     DEF World, fixedVars, worldVars, configVars, CredsKept, PlacesKept,
     ConfigTypeOK, CF
<1>14. DTypeOK'
  <2>1. pc' \in [Procs -> Steps \cup Ended]
    BY <1>3, <1>6, <1>7 DEF DTypeOK, Steps
  <2>2. cmd' \in [Procs -> Command]
    <3>1. \A q \in Procs : cmd'[q] \in Command
      BY <1>5, <1>8, <1>9
    <3> QED
      BY <1>6, <3>1
  <2>3. target' \in [Procs -> Targets]
    BY <1>1, <1>3 DEF DTypeOK
  <2>4. \A q \in Procs : pc'[q] \in {"createCPI", "connect", "filter", "write", "deploy",
                                     "wardenConfig", "apply"} => cmd'[q].ip \in Address
    BY <1>11 DEF ProcessInv, AddressOf, Active, Addressed, Prepares, Ended
  <2> QED
    BY <1>13, <2>1, <2>2, <2>3, <2>4 DEF World, DTypeOK
<1> QED
  BY <1>11, <1>12, <1>13, <1>14 DEF IInv, World

-----------------------------------------------------------------------------
\* Nothing is deployed and nothing runs.
LEMMA InitIInv ==
  ASSUME Init
  PROVE  IInv
<1>1. NoCommand \in Command
  BY DEF NoCommand, Command, Ops, Deploys
<1>2. \A p \in Procs : ~Active(p)
  BY DEF Init, Active, Ended
<1>3. ProcessInv /\ AloneInv
  BY <1>2 DEF ProcessInv, AloneInv, Alone
<1>4. DTypeOK
  <2>1. NoCF \in [ip : Address \cup {NoIP}, creds : [CFNames -> Generations \cup {Absent}]]
    BY DEF NoCF
  <2>2. deployed \in [cf : [ip : Address \cup {NoIP},
                            creds : [CFNames -> Generations \cup {Absent}]],
                      bosh : Address \cup {NoIP}]
    BY <2>1 DEF Init
  <2>3. ConfigTypeOK
    BY ProcsAssumption DEF Init, ConfigTypeOK, NoToken
  <2>4. cmd \in [Procs -> Command] /\ pc \in [Procs -> Steps \cup Ended]
        /\ target \in [Procs -> Targets]
    BY <1>1 DEF Init, Ended, Targets
  <2>5. begun \in 0 .. MaxCommands /\ faults \in 0 .. MaxFaults
    BY BoundsAssumption DEF Init
  <2>6. \A p \in Procs : pc[p] = "done"
    BY DEF Init
  <2>7. /\ kind \in Kinds /\ range \in Ranges /\ reach \in Reaches(kind)
        /\ innerConfig \in BOOLEAN /\ tampered \in BOOLEAN /\ manifest \in Address \cup {NoIP}
    BY DEF Init
  <2> QED
    BY <2>2, <2>3, <2>4, <2>5, <2>6, <2>7 DEF DTypeOK
<1>6. CredsKept /\ PlacesKept
  BY DEF Init, CredsKept, PlacesKept, CF, NoCF
<1> QED
  BY <1>3, <1>4, <1>6 DEF IInv

\* A step that changes nothing.
LEMMA StutterKeeps ==
  ASSUME IInv, UNCHANGED vars
  PROVE  IInv'
BY DEF IInv, vars, fixedVars, worldVars, configVars, countVars, DTypeOK, ConfigTypeOK, ProcessInv,
       CredsKept, PlacesKept, AloneInv, Alone, Active, FlowOf, AddressOf, TodoOf,
       ShellOf,
       Outer, ShellProxy, HasDirectNetworkAccess, CF, ForcesCreds, Unsettled, FindsPassword,
       KeepsRouter, Acceptable, OtherPlace, DeploysDirector

\* Every step of every shell.
LEMMA NextKeeps ==
  ASSUME IInv, [Next]_vars
  PROVE  IInv'
<1>1. ASSUME NEW p \in Procs, Begin(p) \/ Deploy(p) \/ Ask(p) \/ Trouble(p) PROVE IInv'
  <2>1. CASE Begin(p)
    BY <2>1, BeginKeeps
  <2>2. CASE Deploy(p)
    BY <2>2, ResolveGivenKeeps, GetExistingIPKeeps, SelectKeeps, DeleteCredKeeps,
       CredsDeletedKeeps, CheckCPIKeeps, CreateCPIKeeps, ConnectKeeps, FilterReleasesKeeps,
       WriteManifestKeeps, BoshDeployCFKeeps, BoshDeployDirectorKeeps,
       GetWardenDirectorConfigKeeps, ApplyCloudConfigKeeps DEF Deploy
  <2>3. CASE Ask(p)
    <3>1. GetAdmin(p) => IInv'
      BY AskPasswordKeeps DEF GetAdmin, CFNames
    <3>2. GetAltAdmin(p) => IInv'
      BY AskPasswordKeeps DEF GetAltAdmin, CFNames
    <3> QED
      BY <2>3, <3>1, <3>2, BoshDeleteKeeps, GetSystemDomainKeeps, AskEnds, PrintEnvKeeps,
         GetDirectorIPKeeps, CredsKeeps DEF Ask
  <2>4. CASE Trouble(p)
    BY <2>4, AskFailsKeeps, SelectBlindKeeps, DeleteCredFailsKeeps, BoshDeployFailsKeeps,
       BoshDeleteFailsKeeps DEF Trouble
  <2> QED
    BY <1>1, <2>1, <2>2, <2>3, <2>4
<1> QED
  BY <1>1, StutterKeeps DEF Next

\* The invariant holds at all times, for any number of shells, commands and failures.
THEOREM Invariance == Spec => []IInv
<1>1. Init => IInv
  BY InitIInv
<1>2. IInv /\ [Next]_vars => IInv'
  BY NextKeeps
<1> QED
  BY <1>1, <1>2, PTL DEF Spec

-----------------------------------------------------------------------------
\* Every variable has its type: among others, a command that deploys has an address,
\* whatever calls failed before it (cf.go and bosh.go check the error of the selection).
THEOREM TypesHold == Spec => []DTypeOK
<1>1. IInv => DTypeOK
  BY DEF IInv
<1> QED
  BY <1>1, Invariance, PTL

\* The bosh CLI runs with the environment that the shell set up (restoreBOSHEnvVars).
THEOREM DeploysWithShell == Spec => []DeploysAsShell
<1>1. IInv => DeploysAsShell
  BY DEF IInv, ProcessInv, ShellOf, DeploysAsShell, Active, Ended
<1> QED
  BY <1>1, Invariance, PTL

\* --delete-creds leaves no old credential to a deploy that runs alone, unless a deletion
\* failed or came with a token too late (deleteDeploymentCredentials, getAccessToken).
THEOREM OldCredsGone == Spec => []CredsForced
<1>1. IInv => CredsForced
  BY DEF IInv, AloneInv, ForcesCreds, CredsForced
<1> QED
  BY <1>1, Invariance, PTL

\* cf print-env, cats-config and login find the password that the running CF accepts
\* (getCFAdminPassword and its two names).
THEOREM RunningPassword == Spec => []LoginPassword
<1>1. IInv => LoginPassword
  BY DEF IInv, AloneInv, FindsPassword, LoginPassword
<1> QED
  BY <1>1, Invariance, PTL

-----------------------------------------------------------------------------
\* Who moves.
LEMMA MoveAlone ==
  ASSUME IInv, NEW p \in Procs, NEW from, NEW next, NEW local, Move(p, from, next, local)
  PROVE  /\ Active(p) <=> from \notin Ended
         /\ pc[p] = from /\ pc'[p] = next
         /\ \A q \in Procs \ {p} : pc'[q] = pc[q] /\ cmd'[q] = cmd[q]
BY DEF Move, Goto, Active, IInv, DTypeOK

\* A step of a command that runs.
Acts(p) == Deploy(p) \/ Ask(p) \/ Trouble(p)

\* It is a step of no other command.
LEMMA OneActs ==
  ASSUME IInv, NEW p \in Procs, Acts(p), NEW q \in Procs \ {p}
  PROVE  pc'[q] = pc[q] /\ cmd'[q] = cmd[q]
<1>1. CASE Deploy(p)
  <2>1. CASE ResolveGiven(p) \/ GetExistingIP(p) \/ Select(p) \/ CheckCPI(p) \/ CreateCPI(p)
             \/ Connect(p) \/ FilterReleases(p) \/ GetWardenDirectorConfig(p)
    BY <2>1, MoveAlone DEF ResolveGiven, GetExistingIP, Select, CheckCPI, CreateCPI, Connect,
                           FilterReleases, GetWardenDirectorConfig, Local
  <2>2. CASE DeleteCred(p) \/ CredsDeleted(p) \/ WriteManifest(p) \/ ApplyCloudConfig(p)
             \/ BoshDeployCF(p) \/ BoshDeployDirector(p)
    BY <2>2, MoveAlone DEF DeleteCred, CredsDeleted, WriteManifest, ApplyCloudConfig,
       BoshDeployCF,
                           BoshDeployDirector
  <2> QED
    BY <1>1, <2>1, <2>2 DEF Deploy
<1>2. CASE Ask(p)
  BY <1>2, MoveAlone DEF Ask, BoshDelete, GetSystemDomain, GetAdmin, GetAltAdmin, AskPassword,
     PrintPassword, Authenticate, PrintEnv, GetDirectorIP, PrintBOSHEnv, CredsGet, CredsDelete,
     Local
<1>3. CASE Trouble(p)
  BY <1>3, MoveAlone DEF Trouble, AskFails, SelectBlind, DeleteCredFails, BoshDeployFails,
                         BoshDeleteFails
<1> QED
  BY <1>1, <1>2, <1>3 DEF Acts

\* What moves a command that runs is a step of its own.
LEMMA Mover ==
  ASSUME IInv, [Next]_vars, NEW p \in Procs, Active(p), pc'[p] # pc[p]
  PROVE  Acts(p)
<1>1. PICK q \in Procs : Begin(q) \/ Acts(q)
  BY DEF Next, Acts, vars
<1>2. q # p => pc'[p] = pc[p]
  <2>1. ASSUME q # p, Begin(q) PROVE pc'[p] = pc[p]
    BY <2>1 DEF Begin, Goto, IInv, DTypeOK
  <2> QED
    BY <1>1, <2>1, OneActs
<1>3. ~Begin(p)
  BY DEF Begin
<1> QED
  BY <1>1, <1>2, <1>3

\* A call that fails is counted.
LEMMA TroubleCounts ==
  ASSUME IInv, NEW p \in Procs, Trouble(p)
  PROVE  faults' # faults
<1>1. faults \in Nat
  BY BoundsAssumption DEF IInv, DTypeOK
<1>2. AskFails(p) => faults' = faults + 1
  BY DEF AskFails, Fault
<1>3. SelectBlind(p) => faults' = faults + 1
  BY DEF SelectBlind, Fault
<1>4. DeleteCredFails(p) => faults' = faults + 1
  BY DEF DeleteCredFails, Fault
<1>5. BoshDeployFails(p) => faults' = faults + 1
  BY DEF BoshDeployFails, Fault
<1>6. BoshDeleteFails(p) => faults' = faults + 1
  BY DEF BoshDeleteFails, Fault
<1>7. faults' = faults + 1
  BY <1>2, <1>3, <1>4, <1>5, <1>6 DEF Trouble
<1> QED
  BY <1>1, <1>7

\* A dry run comes to no step that changes anything.
LEMMA DryActs ==
  ASSUME IInv, NEW p \in Procs, Active(p), cmd[p].dry, Acts(p)
  PROVE  UNCHANGED <<deployed, stored, innerConfig, manifest>>
<1>1. pc[p] \in {"checkCPI", "resolve", "select"}
  BY FineNow DEF Fine, FlowOf
<1>2. CASE Deploy(p)
  <2>1. \/ ResolveGiven(p) \/ GetExistingIP(p) \/ Select(p) \/ CheckCPI(p)
    BY <1>1, <1>2 DEF Deploy, DeleteCred, CredsDeleted, CreateCPI, Connect, FilterReleases,
       WriteManifest, BoshDeployCF, BoshDeployDirector, GetWardenDirectorConfig, ApplyCloudConfig,
       Local, Move
  <2> QED
    BY <2>1 DEF ResolveGiven, GetExistingIP, Select, CheckCPI, Local, Quiet, worldVars, configVars
<1>3. CASE Ask(p)
  BY <1>1, <1>3 DEF Ask, BoshDelete, GetSystemDomain, GetAdmin, GetAltAdmin, AskPassword,
     PrintPassword, Authenticate, PrintEnv, GetDirectorIP, PrintBOSHEnv, CredsGet, CredsDelete,
     Local, Move
<1>4. CASE Trouble(p)
  <2>1. AskFails(p) \/ SelectBlind(p)
    BY <1>1, <1>4 DEF Trouble, DeleteCredFails, BoshDeployFails, BoshDeleteFails, Move
  <2> QED
    BY <2>1 DEF AskFails, SelectBlind, worldVars, configVars
<1> QED
  BY <1>2, <1>3, <1>4 DEF Acts

\* --dry-run changes nothing that is deployed, stored or written (cf.go and bosh.go return
\* before the credentials and the deployment).
THEOREM DryRunsHarmless == Spec => DryRunHarmless
<1>1. ASSUME IInv, [Next]_vars, NEW p \in Procs, Active(p), cmd[p].dry, cmd'[p] # cmd[p]
      PROVE  UNCHANGED <<deployed, stored, innerConfig, manifest>>
  <2>1. PICK q \in Procs : Begin(q) \/ Acts(q)
    BY <1>1 DEF Next, Acts, vars
  <2>2. CASE Begin(q)
    BY <2>2 DEF Begin, worldVars, configVars
  <2>3. CASE Acts(q)
    <3>1. q = p
      BY <1>1, <2>3, OneActs
    <3> QED
      BY <1>1, <2>3, <3>1, DryActs
  <2> QED
    BY <2>1, <2>2, <2>3
<1>2. IInv /\ [Next]_vars =>
        [\A p \in Procs :
           Active(p) /\ cmd[p].dry /\ cmd'[p] # cmd[p] =>
             UNCHANGED <<deployed, stored, innerConfig, manifest>>]_vars
  BY <1>1
<1> QED
  BY <1>2, Invariance, PTL DEF Spec, DryRunHarmless

-----------------------------------------------------------------------------
\* How a deploy can end without trouble.
LEMMA DeployEnds ==
  ASSUME IInv, [Next]_vars, NEW p \in Procs, Active(p), cmd[p].op \in Deploys,
         pc'[p] \in Ended, faults' = faults
  PROVE  \/ cmd[p].dry /\ pc'[p] = "done"
         \/ /\ pc'[p] = "failed" /\ pc[p] = "select" /\ Selected(p, UsedIPs) = {}
         \/ /\ pc'[p] = "failed" /\ cmd[p].op = "boshDeploy" /\ ~(Outer(p) /\ kind = "incus")
         \/ /\ pc'[p] = "failed" /\ ~(Outer(p) /\ reach # "nowhere")
         \/ /\ pc'[p] = "failed" /\ reach = "elsewhere"
         \/ BoshDeployCF(p)
         \/ BoshDeployDirector(p)
         \/ GetWardenDirectorConfig(p) /\ stored[BOSHName] = Absent
         \/ ApplyCloudConfig(p)
<1>1. Fine(p) /\ pc[p] \in Steps
  BY FineNow
<1>2. pc'[p] # pc[p]
  BY DEF Active
<1>3. Acts(p) /\ ~Trouble(p)
  BY <1>2, Mover, TroubleCounts
<1>4. pc[p] \in {"resolve", "select", "createCPI", "connect", "filter", "deleteCreds", "checkCPI",
                 "write", "wardenConfig", "apply", "deploy"}
  BY <1>1 DEF Fine, FlowOf, OpsAt, Steps, Deploys
<1>5. ~Ask(p)
  BY <1>4 DEF Ask, BoshDelete, GetSystemDomain, GetAdmin, GetAltAdmin, AskPassword,
     PrintPassword, Authenticate, PrintEnv, GetDirectorIP, PrintBOSHEnv, CredsGet, CredsDelete,
     Local, Move
<1>6. Deploy(p)
  BY <1>3, <1>5 DEF Acts
<1>7. AfterResolve(p) \in Ended => cmd[p].dry /\ AfterResolve(p) = "done"
  BY DEF AfterResolve, AfterDeployAddress, Ended, Deploys
<1>8. GiveUp(p) = "failed"
  BY DEF GiveUp, Deploys
<1>9. CASE ResolveGiven(p) \/ GetExistingIP(p)
  BY <1>7, <1>9, MoveAlone DEF ResolveGiven, GetExistingIP, Local, Ended
<1>10. CASE Select(p)
  BY <1>7, <1>10, MoveAlone DEF Select, Local, Ended
<1>11. CASE DeleteCred(p) \/ CredsDeleted(p) \/ WriteManifest(p)
  <2>1. DeleteCred(p) => \E local : Move(p, "deleteCreds", "deleteCreds", local)
    BY DEF DeleteCred
  <2> QED
    BY <1>11, <2>1, MoveAlone DEF CredsDeleted, WriteManifest, Ended
<1>12. CASE CheckCPI(p)
  <2>1. cmd[p].op = "boshDeploy"
    BY <1>1, <1>12, MoveAlone DEF CheckCPI, Local, Fine, FlowOf, OpsAt
  <2> QED
    BY <1>12, <2>1, MoveAlone DEF CheckCPI, Local, Ended
<1>13. CASE CreateCPI(p) \/ Connect(p)
  BY <1>8, <1>13, MoveAlone DEF CreateCPI, Connect, Local, Ended
<1>14. CASE FilterReleases(p)
  BY <1>14, MoveAlone DEF FilterReleases, Local, Ended, Deploys
<1>15. CASE GetWardenDirectorConfig(p)
  BY <1>15, MoveAlone DEF GetWardenDirectorConfig, Local, Ended
<1> QED
  BY <1>6, <1>9, <1>10, <1>11, <1>12, <1>13, <1>14, <1>15 DEF Deploy

\* An undisturbed redeploy of CF keeps the address of the router (getExistingRouterIP),
\* whatever the commands before it did or failed to do.
THEOREM RouterKept == Spec => RouterStays
<1>1. ASSUME IInv, [Next]_vars, NEW p \in Alone, cmd[p].op = "cfDeploy", ~cmd[p].given,
             ~cmd[p].dry, Ends(p, "done"), cmd[p].had # NoIP
      PROVE  deployed'.cf.ip = cmd[p].had
  <2>1. p \in Procs /\ Active(p) /\ cmd[p].alone /\ pc'[p] = "done" /\ faults' = faults
    BY <1>1 DEF Alone, Ends
  <2>2. Fine(p) /\ World
    BY <1>1, <2>1, FineNow
  <2>3. pc[p] \notin {"wardenConfig", "apply"}
    BY <1>1, <2>2 DEF Fine, FlowOf, OpsAt
  <2>4. BoshDeployCF(p)
    BY <1>1, <2>1, <2>3, DeployEnds
       DEF Deploys, Ended, BoshDeployDirector, GetWardenDirectorConfig, ApplyCloudConfig, Local,
       Move
  <2>5. PICK accepted \in Verdicts(p, cmd[p].ip, {deployed.bosh}) :
          /\ Move(p, "deploy", IF accepted THEN "done" ELSE "failed", cmd[p])
          /\ IF accepted THEN CFDeployed(p) ELSE UNCHANGED <<stored, deployed, tampered>>
    BY <2>4 DEF BoshDeployCF
  <2>6. pc[p] = "deploy" /\ accepted
    BY <1>1, <2>1, <2>5, MoveAlone
  <2>7. deployed'.cf.ip = cmd[p].ip
    BY <2>2, <2>5, <2>6 DEF CFDeployed, World
  <2>8. cmd[p].ip = cmd[p].had
    BY <1>1, <2>1, <2>2, <2>6
       DEF Fine, KeepsRouter, ShellOf, Addressed, Prepares, Connected
  <2> QED
    BY <2>7, <2>8
<1>2. IInv /\ [Next]_vars =>
        [\A p \in Alone :
           /\ cmd[p].op = "cfDeploy" /\ ~cmd[p].given /\ ~cmd[p].dry
           /\ Ends(p, "done") /\ cmd[p].had # NoIP
           => deployed'.cf.ip = cmd[p].had]_vars
  BY <1>1
<1> QED
  BY <1>2, Invariance, PTL DEF Spec, RouterStays

\* A selection that knows the addresses in use takes the lowest one that is free
\* (SelectAvailableIP called by cf deploy and bosh deploy).
THEOREM LowestSelected == Spec => SelectsLowestFree
<1>1. ASSUME IInv, [Next]_vars, NEW p \in Procs,
             pc[p] = "select", pc'[p] \in {"createCPI", "deleteCreds"}, Outer(p),
             faults' = faults, ProperRange(range)
      PROVE  {cmd'[p].ip} = LowestFree(range, UsedIPs)
  <2>1. Active(p) /\ World /\ cmd[p] \in Command
    BY <1>1, FineNow DEF Active, Ended
  <2>2. Acts(p) /\ ~Trouble(p)
    BY <1>1, <2>1, Mover, TroubleCounts
  <2>3. Select(p)
    BY <1>1, <2>2 DEF Acts, Deploy, ResolveGiven, GetExistingIP, DeleteCred, CredsDeleted,
       CheckCPI,
       CreateCPI, Connect, FilterReleases, WriteManifest, BoshDeployCF, BoshDeployDirector,
       GetWardenDirectorConfig, ApplyCloudConfig, Ask, BoshDelete, GetSystemDomain, GetAdmin,
       GetAltAdmin, AskPassword, PrintPassword, Authenticate, PrintEnv, GetDirectorIP,
       PrintBOSHEnv,
       CredsGet, CredsDelete, Local, Move
  <2>4. ~Local(p, "select", "failed", cmd[p])
    BY <1>1, MoveAlone DEF Local
  <2>5. PICK a \in Selected(p, UsedIPs) :
          Local(p, "select", AfterResolve(p), [cmd[p] EXCEPT !.ip = a])
    BY <2>3, <2>4, Zenon DEF Select
  <2>6. a \in SelectAvailableIP(range, UsedIPs) /\ IsRange(range)
    BY <1>1, <2>1, <2>5, RangesAssumption DEF Selected, World, IsRange
  <2>7. a \in LowestFree(range, UsedIPs)
    BY <1>1, <2>6, SelectionIsLowestFree
  <2>8. \A b \in LowestFree(range, UsedIPs) : b = a
    BY <2>7, ValueInjective, ValueNat DEF LowestFree
  <2>9. cmd'[p].ip = a
    <3>1. pc'[p] = AfterResolve(p) /\ AfterResolve(p) \notin Ended
      BY <1>1, <2>5, MoveAlone DEF Local, Ended
    <3>2. cmd'[p] = [cmd[p] EXCEPT !.ip = a]
      BY <1>1, <2>5, <3>1 DEF Local, Move, IInv, DTypeOK
    <3> QED
      BY <2>1, <3>2 DEF Command
  <2> QED
    BY <2>7, <2>8, <2>9
<1>2. IInv /\ [Next]_vars =>
        [\A p \in Procs :
           /\ pc[p] = "select" /\ pc'[p] \in {"createCPI", "deleteCreds"} /\ Outer(p)
           /\ faults' = faults /\ ProperRange(range)
           => {cmd'[p].ip} = LowestFree(range, UsedIPs)]_vars
  BY <1>1
<1> QED
  BY <1>2, Invariance, PTL DEF Spec, SelectsLowestFree

-----------------------------------------------------------------------------
\* The director refuses no address of a deploy that is alone and has chosen it.
LEMMA AloneAccepted ==
  ASSUME IInv, NEW p \in Procs, Active(p), cmd[p].alone, cmd[p].op \in Deploys, ~cmd[p].given,
         pc[p] = "deploy", reach = "home",
         NEW a \in Address, a = cmd[p].ip, NEW others, others = {OtherPlace(p)},
         FALSE \in Verdicts(p, a, others)
  PROVE  LowestFree(range, UsedIPs) = {}
<1>1. World /\ Fine(p) /\ IsRange(range)
  BY FineNow, RangesAssumption DEF World, IsRange
<1>2. ~cmd[p].astray
  BY <1>1 DEF Fine, FlowOf
<1>3. ~Accepts(a, others)
  BY <1>2 DEF Verdicts
<1>4. Outer(p)
  BY <1>1 DEF Fine, ShellOf, Connected
<1>5. (InOrder(range) => InRange(a, range)) /\ a # OtherPlace(p)
  BY <1>1, <1>4 DEF Fine, Acceptable, Prepares
<1>6. ~InOrder(range)
  BY <1>3, <1>5, GivenAssumption DEF Accepts
<1>7. Len(range) = 2 /\ range[1] \in Address /\ range[2] \in Address
  BY <1>1, <1>6 DEF InOrder, IsRange
<1>8. ~(ValueOf(range[1]) <= ValueOf(range[2]))
  BY <1>6 DEF InOrder
<1>9. \A b \in Address : ~InRange(b, range)
  BY <1>7, <1>8, ValueNat DEF InRange
<1> QED
  BY <1>9 DEF LowestFree

\* A deploy that runs alone and meets no failure fails for want of an address only, or of
\* the director; the inner director it deploys has its cloud-config.
THEOREM DeploysUndisturbed == Spec => UndisturbedDeploys
<1>1. ASSUME IInv, [Next]_vars, NEW p \in Alone, cmd[p].op \in Deploys, ~cmd[p].given, Outer(p),
             Ends(p, "failed"), cmd[p].op = "boshDeploy" => kind = "incus", reach = "home"
      PROVE  LowestFree(range, UsedIPs) = {}
  <2>1. p \in Procs /\ Active(p) /\ cmd[p].alone /\ pc'[p] = "failed" /\ faults' = faults
    BY <1>1 DEF Alone, Ends
  <2>2. World /\ Fine(p) /\ IsRange(range)
    BY <1>1, <2>1, FineNow, RangesAssumption DEF World, IsRange
  <2>3. \/ pc[p] = "select" /\ Selected(p, UsedIPs) = {}
        \/ BoshDeployCF(p) \/ BoshDeployDirector(p)
        \/ GetWardenDirectorConfig(p) \/ ApplyCloudConfig(p)
    BY <1>1, <2>1, DeployEnds DEF Ended
  <2>4. CASE pc[p] = "select" /\ Selected(p, UsedIPs) = {}
    <3>1. SelectAvailableIP(range, UsedIPs) = {}
      BY <1>1, <2>4 DEF Selected
    <3>2. IsFiniteSet(UsedIPs) /\ Cardinality(UsedIPs) <= Limit + 1
      <4> DEFINE one == {deployed.cf.ip}
                 both == one \cup {deployed.bosh}
      <4>1. IsFiniteSet(both) /\ Cardinality(both) <= 2
        <5>1. IsFiniteSet(one) /\ Cardinality(one) = 1
          BY FS_Singleton
        <5> HIDE DEF one
        <5>2. IsFiniteSet(both)
              /\ Cardinality(both) = IF deployed.bosh \in one THEN Cardinality(one)
                                     ELSE Cardinality(one) + 1
          BY <5>1, FS_AddElement, Zenon
        <5> QED
          BY <5>1, <5>2
      <4>2. UsedIPs \in SUBSET both
        BY DEF UsedIPs
      <4>3. IsFiniteSet(UsedIPs) /\ Cardinality(UsedIPs) \in Nat
            /\ Cardinality(UsedIPs) <= Cardinality(both) /\ Cardinality(both) \in Nat
        <5> HIDE DEF both
        <5> QED
          BY <4>1, <4>2, FS_Subset, FS_CardinalityType
      <4> QED
        BY <4>1, <4>3, LimitAssumption
    <3> QED
      BY <2>2, <3>1, <3>2, SelectionFindsFree
  <2>5. CASE BoshDeployCF(p)
    <3>1. PICK accepted \in Verdicts(p, cmd[p].ip, {deployed.bosh}) :
            cmd[p].op = "cfDeploy" /\ Move(p, "deploy", IF accepted THEN "done" ELSE "failed", cmd[p])
      BY <2>5 DEF BoshDeployCF
    <3>2. pc[p] = "deploy" /\ accepted = FALSE
      BY <1>1, <2>1, <3>1, MoveAlone DEF Verdicts, Accepts
    <3>3. cmd[p].ip \in Address /\ {deployed.bosh} = {OtherPlace(p)}
      BY <2>2, <3>1, <3>2 DEF Fine, AddressOf, Addressed, Prepares, OtherPlace
    <3> QED
      BY <1>1, <2>1, <3>1, <3>2, <3>3, AloneAccepted
  <2>6. CASE BoshDeployDirector(p)
    <3>1. PICK accepted \in Verdicts(p, manifest, {CF.ip}) :
            /\ cmd[p].op = "boshDeploy"
            /\ Move(p, "deploy", IF accepted THEN "wardenConfig" ELSE "failed", cmd[p])
      BY <2>6 DEF BoshDeployDirector
    <3>2. pc[p] = "deploy" /\ accepted = FALSE
      BY <1>1, <2>1, <3>1, MoveAlone DEF Verdicts, Accepts
    <3>3. cmd[p].ip \in Address /\ {CF.ip} = {OtherPlace(p)} /\ manifest = cmd[p].ip
      BY <2>1, <2>2, <3>1, <3>2
         DEF Fine, AddressOf, Addressed, Prepares, OtherPlace, DeploysDirector
    <3> QED
      BY <1>1, <2>1, <3>1, <3>2, <3>3, AloneAccepted
  <2>7. ~GetWardenDirectorConfig(p) /\ ~ApplyCloudConfig(p)
    BY <1>1, <2>1, MoveAlone DEF GetWardenDirectorConfig, ApplyCloudConfig, Local
  <2> QED
    BY <2>3, <2>4, <2>5, <2>6, <2>7
<1>2. ASSUME IInv, [Next]_vars, NEW p \in Alone, Ends(p, "done"), cmd[p].op = "boshDeploy",
             ~cmd[p].dry
      PROVE  innerConfig'
  <2>1. p \in Procs /\ Active(p) /\ cmd[p].alone /\ pc'[p] = "done" /\ faults' = faults
    BY <1>2 DEF Alone, Ends
  <2>2. World /\ Fine(p)
    BY <1>2, <2>1, FineNow
  <2>3. \/ BoshDeployCF(p) \/ BoshDeployDirector(p)
        \/ GetWardenDirectorConfig(p) /\ stored[BOSHName] = Absent
        \/ ApplyCloudConfig(p)
    BY <1>2, <2>1, DeployEnds DEF Ended, Deploys
  <2>4. ~BoshDeployCF(p)
    BY <1>2 DEF BoshDeployCF
  <2>5. ~BoshDeployDirector(p)
    BY <1>2, <2>1, MoveAlone DEF BoshDeployDirector
  <2>6. ~(GetWardenDirectorConfig(p) /\ stored[BOSHName] = Absent)
    BY <1>2, <2>1, <2>2, MoveAlone DEF GetWardenDirectorConfig, Local, Fine, DeploysDirector
  <2>7. ApplyCloudConfig(p) /\ pc[p] = "apply"
    BY <2>3, <2>4, <2>5, <2>6 DEF ApplyCloudConfig, Move
  <2> QED
    BY <2>1, <2>2, <2>7 DEF ApplyCloudConfig, Fine, DeploysDirector
<1>3. IInv /\ [Next]_vars =>
        [\A p \in Alone :
           cmd[p].op \in Deploys /\ ~cmd[p].given /\ Outer(p) =>
             /\ Ends(p, "failed") /\ (cmd[p].op = "boshDeploy" => kind = "incus") /\ reach = "home"
                  => LowestFree(range, UsedIPs) = {}
             /\ Ends(p, "done") /\ cmd[p].op = "boshDeploy" /\ ~cmd[p].dry => innerConfig']_vars
  BY <1>1, <1>2
<1> QED
  BY <1>3, Invariance, PTL DEF Spec, UndisturbedDeploys
=============================================================================
