-------------------------- MODULE ClientSkipProofs --------------------------
(***************************************************************************)
(* compare_versions orders versions as the PMS does, for every two         *)
(* versions that are not ordered apart, and a run skips its package only   *)
(* when the installed version satisfies the atom.                          *)
(***************************************************************************)
EXTENDS ClientRunProofs, WellFoundedInduction

(* Least numbers.                                                          *)

\* A set of numbers has a least element, which is Min.
LEMMA MinLeast ==
  ASSUME NEW T, T \subseteq Nat, T # {}
  PROVE  Min(T) \in T /\ \A y \in T : Min(T) <= y
<1> DEFINE R == OpToRel(<, Nat)
<1>1. \E x \in T : \A y \in T : ~(<<y, x>> \in R)
  <2>1. IsWellFoundedOn(R, Nat)
    BY NatLessThanWellFounded, Zenon
  <2> HIDE DEF R
  <2> QED
    BY <2>1, WFMin, Zenon
<1>2. \A x, y \in T : (<<y, x>> \in R) <=> y < x
  BY DEF OpToRel
<1> HIDE DEF R
<1>3. PICK x \in T : \A y \in T : ~(<<y, x>> \in R)
  BY <1>1, Zenon
<1>4. \A y \in T : ~(y < x)
  BY <1>2, <1>3, Zenon
<1>5. \A y \in T : x <= y
  BY <1>4
<1> QED
  BY <1>5, Zenon DEF Min

\* An element that is no greater than the others is the Min.
LEMMA MinIs ==
  ASSUME NEW T, T \subseteq Nat, NEW k \in T, \A j \in T : k <= j
  PROVE  Min(T) = k
<1>1. Min(T) \in T /\ \A y \in T : Min(T) <= y
  BY MinLeast, Zenon
<1>2. Min(T) \in Nat /\ k \in Nat /\ Min(T) <= k /\ k <= Min(T)
  BY <1>1, Zenon
<1>3. \A x, y \in Nat : x <= y /\ y <= x => x = y
  OBVIOUS
<1> QED
  BY <1>2, <1>3, Zenon

-----------------------------------------------------------------------------
(* Two versions part by part.                                              *)

Nth(q, i, blank) == IF i <= Len(q) THEN q[i] ELSE blank
Longer(q, r) == Max({Len(q), Len(r)})

\* Sequences that agree at every place have no first difference.
LEMMA NoDifference ==
  ASSUME NEW s, NEW t, NEW blank,
         \A i \in 1 .. Longer(s, t) : Nth(s, i, blank) = Nth(t, i, blank)
  PROVE  FirstDifference(s, t, blank) = <<blank, blank>>
<1>1. {i \in 1 .. Longer(s, t) : Nth(s, i, blank) # Nth(t, i, blank)} = {}
  OBVIOUS
<1> QED
  BY <1>1, Zenon DEF FirstDifference, Nth, Longer

\* The first difference is the pair at the first place where they disagree.
LEMMA DifferenceAt ==
  ASSUME NEW s, NEW t, NEW blank, Longer(s, t) \in Nat,
         NEW k \in 1 .. Longer(s, t), Nth(s, k, blank) # Nth(t, k, blank),
         \A j \in 1 .. k - 1 : Nth(s, j, blank) = Nth(t, j, blank)
  PROVE  FirstDifference(s, t, blank) = <<Nth(s, k, blank), Nth(t, k, blank)>>
<1> DEFINE T == {i \in 1 .. Longer(s, t) : Nth(s, i, blank) # Nth(t, i, blank)}
<1>1. T \subseteq Nat /\ k \in T /\ \A j \in T : k <= j
  OBVIOUS
<1>2. T # {} /\ Min(T) = k
  <2> HIDE DEF T
  <2> QED
    BY <1>1, MinIs, Zenon
<1> QED
  BY <1>2, Zenon DEF FirstDifference, Nth, Longer

Differ(a, b, i) == ComparePart(PartAt(Parts(a), i), PartAt(Parts(b), i))
Span(a, b) == Max({Len(Parts(a)), Len(Parts(b))})

\* Versions without a part that differs are ordered by their revisions.
LEMMA SameParts ==
  ASSUME NEW a, NEW b, \A i \in 1 .. Span(a, b) : Differ(a, b, i) = 0
  PROVE  compare_versions(a, b) = Order(a.rev.value, b.rev.value)
<1>1. {i \in 1 .. Span(a, b) : Differ(a, b, i) # 0} = {}
  OBVIOUS
<1> QED
  BY <1>1, Zenon DEF compare_versions, Differ, Span

\* The first part that differs decides.
LEMMA PartDecides ==
  ASSUME NEW a, NEW b, Span(a, b) \in Nat,
         NEW k \in 1 .. Span(a, b), Differ(a, b, k) # 0,
         \A j \in 1 .. k - 1 : Differ(a, b, j) = 0
  PROVE  compare_versions(a, b) = Differ(a, b, k)
<1> DEFINE T == {i \in 1 .. Span(a, b) : Differ(a, b, i) # 0}
<1>1. T \subseteq Nat /\ k \in T /\ \A j \in T : k <= j
  OBVIOUS
<1>2. T # {} /\ Min(T) = k
  <2> HIDE DEF T
  <2> QED
    BY <1>1, MinIs, Zenon
<1> QED
  BY <1>2, Zenon DEF compare_versions, Differ, Span

\* The types of the parts of a version.
LEMMA VersionTypes ==
  ASSUME NEW a, IsVersion(a)
  PROVE  /\ Len(a.dots) \in Nat /\ Len(a.dots) >= 1
         /\ \A i \in 1 .. Len(a.dots) : a.dots[i].value \in Nat
         /\ a.letter \in Nat
         /\ Len(a.suffixes) \in Nat
         /\ \A i \in 1 .. Len(a.suffixes) :
               /\ a.suffixes[i] \in [kind : {alpha, beta, pre, rc, p}, num : Numbers \cup {Unwritten}]
               /\ a.suffixes[i].kind \in Int /\ a.suffixes[i].kind # 0
               /\ a.suffixes[i].num.value \in Nat
<1> DEFINE Suffixes == [kind : {alpha, beta, pre, rc, p}, num : Numbers \cup {Unwritten}]
<1>1. a.dots \in Seq(Numbers) /\ a.dots # <<>> /\ a.letter \in 0 .. 26 /\ a.suffixes \in Seq(Suffixes)
  BY Zenon DEF IsVersion
<1>2. \A x \in Suffixes : /\ x.kind \in Int /\ x.kind # 0
                          /\ x.num.value \in Nat
  <2>1. \A x \in Numbers \cup {Unwritten} : x.value \in Nat
    BY NumberAssumption DEF Numbers, Unwritten
  <2>2. \A x \in {alpha, beta, pre, rc, p} : x \in Int /\ x # 0
    BY DEF alpha, beta, pre, rc, p
  <2> QED
    BY <2>1, <2>2, Zenon
<1> HIDE DEF Suffixes
<1>3. Len(a.dots) \in Nat /\ Len(a.dots) >= 1 /\ \A i \in 1 .. Len(a.dots) : a.dots[i].value \in Nat
  <2>1. \A x \in Numbers : x.value \in Nat
    BY NumberAssumption DEF Numbers
  <2>2. Len(a.dots) \in Nat /\ Len(a.dots) >= 1 /\ \A i \in 1 .. Len(a.dots) : a.dots[i] \in Numbers
    BY <1>1
  <2> QED
    BY <2>1, <2>2, Zenon
<1>4. Len(a.suffixes) \in Nat /\ \A i \in 1 .. Len(a.suffixes) : a.suffixes[i] \in Suffixes
  BY <1>1
<1>5. a.letter \in Nat
  <2>1. \A x \in 0 .. 26 : x \in Nat
    OBVIOUS
  <2> QED
    BY <1>1, <2>1, Zenon
<1> QED
  BY <1>2, <1>3, <1>4, <1>5, Zenon DEF Suffixes

\* A function on the first n numbers is a sequence of length n.
LEMMA FunctionIsSeq ==
  ASSUME NEW R, NEW n \in Nat, NEW q \in [1 .. n -> R]
  PROVE  q \in Seq(R) /\ Len(q) = n
  OBVIOUS

\* The elements of a concatenation.
LEMMA Concatenated ==
  ASSUME NEW R, NEW q \in Seq(R), NEW r \in Seq(R)
  PROVE  /\ Len(q \o r) = Len(q) + Len(r)
         /\ \A i \in 1 .. Len(q) : (q \o r)[i] = q[i]
         /\ \A i \in 1 .. Len(r) : (q \o r)[Len(q) + i] = r[i]
  OBVIOUS

\* The parts of a version: its dotted numbers, the last with the letter, and its
\* suffixes.
LEMMA PartsOf ==
  ASSUME NEW a, IsVersion(a)
  PROVE  /\ Len(Parts(a)) = Len(a.dots) + Len(a.suffixes)
         /\ \A i \in 1 .. Len(a.dots) :
               PartAt(Parts(a), i) = [suffix |-> 0, num |-> a.dots[i].value,
                                      letter |-> IF i = Len(a.dots) THEN a.letter ELSE 0]
         /\ \A i \in 1 .. Len(a.suffixes) :
               PartAt(Parts(a), Len(a.dots) + i) =
                   [suffix |-> a.suffixes[i].kind, num |-> a.suffixes[i].num.value, letter |-> 0]
         /\ \A i \in Nat : i > Len(a.dots) + Len(a.suffixes) => PartAt(Parts(a), i) = NoPart
<1> DEFINE D == [i \in 1 .. Len(a.dots) |->
                    [suffix |-> 0, num |-> a.dots[i].value, letter |-> IF i = Len(a.dots) THEN a.letter ELSE 0]]
           S == [i \in 1 .. Len(a.suffixes) |->
                    [suffix |-> a.suffixes[i].kind, num |-> a.suffixes[i].num.value, letter |-> 0]]
           R == [suffix : Int, num : Int, letter : Int]
<1>1. Len(a.dots) \in Nat /\ Len(a.suffixes) \in Nat
  BY VersionTypes, Zenon
<1>2. /\ \A i \in 1 .. Len(a.dots) :
            D[i] = [suffix |-> 0, num |-> a.dots[i].value, letter |-> IF i = Len(a.dots) THEN a.letter ELSE 0]
      /\ \A i \in 1 .. Len(a.suffixes) :
            S[i] = [suffix |-> a.suffixes[i].kind, num |-> a.suffixes[i].num.value, letter |-> 0]
  BY Zenon
<1>3. ASSUME NEW i \in 1 .. Len(a.dots)
      PROVE  D[i] \in R
  <2>1. 0 \in Int /\ \A x \in Nat : x \in Int
    OBVIOUS
  <2>2. a.dots[i].value \in Int /\ a.letter \in Int
    BY <2>1, VersionTypes, Zenon
  <2> QED
    BY <1>2, <2>1, <2>2, Zenon
<1>4. ASSUME NEW i \in 1 .. Len(a.suffixes)
      PROVE  S[i] \in R
  <2>1. 0 \in Int /\ \A x \in Nat : x \in Int
    OBVIOUS
  <2>2. a.suffixes[i].kind \in Int /\ a.suffixes[i].num.value \in Int
    BY <2>1, VersionTypes, Zenon
  <2> QED
    BY <1>2, <2>1, <2>2, Zenon
<1>5. D \in [1 .. Len(a.dots) -> R] /\ S \in [1 .. Len(a.suffixes) -> R]
  BY <1>3, <1>4, Zenon
<1>6. Parts(a) = D \o S
  BY Zenon DEF Parts
<1> HIDE DEF D, S, R
<1>7. D \in Seq(R) /\ Len(D) = Len(a.dots) /\ S \in Seq(R) /\ Len(S) = Len(a.suffixes)
  BY <1>1, <1>5, FunctionIsSeq, Zenon
<1>70. D \in Seq(R) /\ S \in Seq(R)
  BY <1>7, Zenon
<1>71. /\ Len(D \o S) = Len(D) + Len(S)
       /\ \A i \in 1 .. Len(D) : (D \o S)[i] = D[i]
       /\ \A i \in 1 .. Len(S) : (D \o S)[Len(D) + i] = S[i]
  BY <1>70, Concatenated
<1>8. Len(Parts(a)) = Len(a.dots) + Len(a.suffixes)
  BY <1>6, <1>7, <1>71, Zenon
<1>9. \A i \in 1 .. Len(a.dots) : Parts(a)[i] = D[i]
  BY <1>6, <1>7, <1>71, Zenon
<1>10. \A i \in 1 .. Len(a.suffixes) : Parts(a)[Len(a.dots) + i] = S[i]
  BY <1>6, <1>7, <1>71, Zenon
<1>11. \A m, n \in Nat : /\ \A i \in 1 .. m : i <= m + n
                         /\ \A i \in 1 .. n : m + i <= m + n
                         /\ \A i \in Nat : i > m + n => ~(i <= m + n)
  OBVIOUS
<1>12. /\ \A i \in 1 .. Len(a.dots) : i <= Len(Parts(a))
       /\ \A i \in 1 .. Len(a.suffixes) : Len(a.dots) + i <= Len(Parts(a))
       /\ \A i \in Nat : i > Len(a.dots) + Len(a.suffixes) => ~(i <= Len(Parts(a)))
  BY <1>1, <1>8, <1>11, Zenon
<1> QED
  BY <1>2, <1>8, <1>9, <1>10, <1>12, ZenonT(60) DEF PartAt

\* The letter at the dotted number i of v, which only the last one has.
Letter(v, i) == IF i = Len(v.dots) THEN v.letter ELSE 0

\* How two versions compare at a place where both have a dotted number.
LEMMA DotsDiffer ==
  ASSUME NEW a, NEW b, IsVersion(a), IsVersion(b),
         NEW i, i \in 1 .. Len(a.dots), i \in 1 .. Len(b.dots)
  PROVE  /\ a.dots[i].value # b.dots[i].value => Differ(a, b, i) = Order(a.dots[i].value, b.dots[i].value)
         /\ a.dots[i].value = b.dots[i].value => Differ(a, b, i) = Order(Letter(a, i), Letter(b, i))
<1> DEFINE x == Letter(a, i)
           y == Letter(b, i)
<1>1. PartAt(Parts(a), i) = [suffix |-> 0, num |-> a.dots[i].value, letter |-> x]
  BY PartsOf, Zenon DEF Letter
<1>2. PartAt(Parts(b), i) = [suffix |-> 0, num |-> b.dots[i].value, letter |-> y]
  BY PartsOf, Zenon DEF Letter
<1> HIDE DEF x, y
<1>3. \A m \in Nat, n \in Nat :
         /\ m # n => ComparePart([suffix |-> 0, num |-> m, letter |-> x], [suffix |-> 0, num |-> n, letter |-> y])
                        = Order(m, n)
         /\ m = n => ComparePart([suffix |-> 0, num |-> m, letter |-> x], [suffix |-> 0, num |-> n, letter |-> y])
                        = Order(x, y)
  BY DEF ComparePart
<1>4. a.dots[i].value \in Nat /\ b.dots[i].value \in Nat
  BY VersionTypes, Zenon
<1>5. Differ(a, b, i) = ComparePart([suffix |-> 0, num |-> a.dots[i].value, letter |-> x],
                                    [suffix |-> 0, num |-> b.dots[i].value, letter |-> y])
  BY <1>1, <1>2, Zenon DEF Differ
<1> QED
  BY <1>3, <1>4, <1>5, Zenon DEF x, y

\* Where the dotted numbers agree, what follows them decides.
LEMMA DotsAgree ==
  ASSUME NEW a, NEW b, IsVersion(a), IsVersion(b),
         NEW i, i \in 1 .. Len(a.dots), i \in 1 .. Len(b.dots), a.dots[i].value = b.dots[i].value
  PROVE  Differ(a, b, i) = Order(Letter(a, i), Letter(b, i))
  BY DotsDiffer, SMTT(40)

\* The number of parts of the longer version.
LEMMA SpanIs ==
  ASSUME NEW a, NEW b, IsVersion(a), IsVersion(b)
  PROVE  /\ Span(a, b) \in Nat
         /\ Span(a, b) >= Len(a.dots) + Len(a.suffixes)
         /\ Span(a, b) >= Len(b.dots) + Len(b.suffixes)
         /\ Span(a, b) \in {Len(a.dots) + Len(a.suffixes), Len(b.dots) + Len(b.suffixes)}
<1>1. /\ Len(Parts(a)) = Len(a.dots) + Len(a.suffixes)
      /\ Len(Parts(b)) = Len(b.dots) + Len(b.suffixes)
  BY PartsOf, Zenon
<1>2. /\ Len(a.dots) \in Nat /\ Len(a.suffixes) \in Nat /\ Len(b.dots) \in Nat /\ Len(b.suffixes) \in Nat
  BY VersionTypes, Zenon
<1>3. Len(Parts(a)) \in Nat /\ Len(Parts(b)) \in Nat
  <2>1. \A x, y \in Nat : x + y \in Nat
    OBVIOUS
  <2> QED
    BY <1>1, <1>2, <2>1, Zenon
<1>4. /\ Span(a, b) \in {Len(Parts(a)), Len(Parts(b))}
      /\ Span(a, b) >= Len(Parts(a)) /\ Span(a, b) >= Len(Parts(b))
  BY <1>3, MaxOfTwo, Zenon DEF Span
<1> QED
  BY <1>1, <1>3, <1>4, Zenon

\* Where the numbers before are the same and no leading zeros are in the way, the
\* PMS compares dotted numbers by their values.
LEMMA NumberAgrees ==
  ASSUME NEW a, NEW b, NEW k \in Nat, k \in 1 .. Len(a.dots), k \in 1 .. Len(b.dots),
         Len(a.dots) \in Nat, Len(b.dots) \in Nat, ~ZerosApart(a, b),
         \A j \in 1 .. k - 1 : a.dots[j].value = b.dots[j].value
  PROVE  NumberOrder(a, b, k) = Order(a.dots[k].value, b.dots[k].value)
<1> DEFINE x == a.dots[k]
           y == b.dots[k]
<1>1. ~(k > Len(a.dots)) /\ ~(k > Len(b.dots)) /\ k <= Len(b.dots)
      /\ (k > 1 => k \in 2 .. Len(a.dots))
  OBVIOUS
<1>2. k > 1 /\ (LeadingZero(x) \/ LeadingZero(y)) => x.value = 0 \/ y.value = 0 \/ x.width = y.width
  BY <1>1, Zenon DEF ZerosApart
<1>3. k > 1 /\ (LeadingZero(x) \/ LeadingZero(y)) => TextOrder(x, y) = Order(x.value, y.value)
  BY <1>2, Zenon DEF TextOrder
<1> QED
  BY <1>1, <1>3, Zenon DEF NumberOrder

\* Leading zeros are in the way from both sides.
LEMMA ZerosBothWays ==
  ASSUME NEW a, NEW b, Len(a.dots) \in Nat, Len(b.dots) \in Nat, ZerosApart(a, b)
  PROVE  ZerosApart(b, a)
<1>1. PICK i \in 2 .. Len(a.dots) :
         /\ i <= Len(b.dots)
         /\ \A j \in 1 .. i - 1 : a.dots[j].value = b.dots[j].value
         /\ LeadingZero(a.dots[i]) \/ LeadingZero(b.dots[i])
         /\ a.dots[i].width # b.dots[i].width
         /\ a.dots[i].value # 0 /\ b.dots[i].value # 0
  BY Zenon DEF ZerosApart
<1>2. i \in 2 .. Len(b.dots) /\ i <= Len(a.dots)
  BY <1>1
<1> QED
  BY <1>1, <1>2, Zenon DEF ZerosApart

\* Numbers that compare the same at every place do not decide.
LEMMA NoNumberDecides ==
  ASSUME NEW a, NEW b, \A i \in 1 .. Longer(a.dots, b.dots) : NumberOrder(a, b, i) = 0
  PROVE  DotsOrder(a, b) = 0
<1>1. {i \in 1 .. Longer(a.dots, b.dots) : NumberOrder(a, b, i) # 0} = {}
  OBVIOUS
<1> QED
  BY <1>1, Zenon DEF DotsOrder, Longer

\* The first place where the numbers differ decides in the order of the PMS.
LEMMA PMSByDots ==
  ASSUME NEW a, NEW b, Longer(a.dots, b.dots) \in Nat,
         NEW k \in 1 .. Longer(a.dots, b.dots), NumberOrder(a, b, k) # 0,
         \A j \in 1 .. k - 1 : NumberOrder(a, b, j) = 0
  PROVE  PMSOrder(a, b) = NumberOrder(a, b, k)
<1> DEFINE T == {i \in 1 .. Longer(a.dots, b.dots) : NumberOrder(a, b, i) # 0}
<1>1. T \subseteq Nat /\ k \in T /\ \A j \in T : k <= j
  OBVIOUS
<1>2. T # {} /\ Min(T) = k
  <2> HIDE DEF T
  <2> QED
    BY <1>1, MinIs, Zenon
<1>3. DotsOrder(a, b) = NumberOrder(a, b, k)
  BY <1>2, Zenon DEF DotsOrder, Longer
<1> QED
  BY <1>3, Zenon DEF PMSOrder

\* Dotted numbers that differ where both versions have one decide in both orders.
LEMMA DotsDecide ==
  ASSUME NEW a, NEW b, IsVersion(a), IsVersion(b), ~ZerosApart(a, b),
         NEW k \in Nat, k \in 1 .. Len(a.dots), k \in 1 .. Len(b.dots), a.dots[k].value # b.dots[k].value,
         \A j \in 1 .. k - 1 : a.dots[j].value = b.dots[j].value
  PROVE  compare_versions(a, b) = PMSOrder(a, b)
<1>1. Len(a.dots) \in Nat /\ Len(b.dots) \in Nat /\ a.dots[k].value \in Nat /\ b.dots[k].value \in Nat
  BY VersionTypes, Zenon
<1>2. Differ(a, b, k) = Order(a.dots[k].value, b.dots[k].value)
  BY DotsDiffer, SMTT(40)
<1>3. \A j \in 1 .. k - 1 : Differ(a, b, j) = 0
  <2> TAKE j \in 1 .. k - 1
  <2>1. \A m, n \in Nat : k \in 1 .. m /\ k \in 1 .. n => j \in 1 .. m /\ j \in 1 .. n /\ j # m /\ j # n
    OBVIOUS
  <2>2. j \in 1 .. Len(a.dots) /\ j \in 1 .. Len(b.dots) /\ j # Len(a.dots) /\ j # Len(b.dots)
    BY <1>1, <2>1, Zenon
  <2>3. Order(0, 0) = 0
    BY DEF Order
  <2>4. Letter(a, j) = 0 /\ Letter(b, j) = 0
    BY <2>2, Zenon DEF Letter
  <2>5. a.dots[j].value = b.dots[j].value
    BY Zenon
  <2>6. Differ(a, b, j) = Order(Letter(a, j), Letter(b, j))
    BY <2>2, <2>5, DotsDiffer, SMTT(40)
  <2> QED
    BY <2>3, <2>4, <2>6, ZenonT(60)
<1>4. Span(a, b) \in Nat /\ k \in 1 .. Span(a, b)
  <2>1. Span(a, b) \in Nat /\ Span(a, b) >= Len(a.dots) + Len(a.suffixes) /\ Len(a.suffixes) \in Nat
    BY SpanIs, VersionTypes, Zenon
  <2>2. \A m, n, z \in Nat : z >= m + n /\ k \in 1 .. m => k \in 1 .. z
    OBVIOUS
  <2> QED
    BY <1>1, <2>1, <2>2, ZenonT(60)
<1>5. Differ(a, b, k) # 0
  <2>1. \A m, n \in Nat : m # n => Order(m, n) # 0
    BY DEF Order
  <2> QED
    BY <1>1, <1>2, <2>1, ZenonT(60)
<1>6. compare_versions(a, b) = Order(a.dots[k].value, b.dots[k].value)
  BY <1>2, <1>3, <1>4, <1>5, PartDecides, ZenonT(60)
<1>7. Longer(a.dots, b.dots) \in Nat /\ k \in 1 .. Longer(a.dots, b.dots)
  <2>1. Longer(a.dots, b.dots) \in {Len(a.dots), Len(b.dots)} /\ Longer(a.dots, b.dots) >= Len(a.dots)
    BY <1>1, MaxOfTwo, Zenon DEF Longer
  <2>2. \A m, z \in Nat : z >= m /\ k \in 1 .. m => k \in 1 .. z
    OBVIOUS
  <2> QED
    BY <1>1, <2>1, <2>2, ZenonT(60)
<1>8. NumberOrder(a, b, k) = Order(a.dots[k].value, b.dots[k].value)
  BY <1>1, NumberAgrees, ZenonT(60)
<1>9. \A j \in 1 .. k - 1 : NumberOrder(a, b, j) = 0
  <2> TAKE j \in 1 .. k - 1
  <2>1. \A m, n \in Nat : k \in 1 .. m /\ k \in 1 .. n =>
           j \in Nat /\ j \in 1 .. m /\ j \in 1 .. n /\ \A l \in 1 .. j - 1 : l \in 1 .. k - 1
    OBVIOUS
  <2>2. /\ j \in Nat /\ j \in 1 .. Len(a.dots) /\ j \in 1 .. Len(b.dots)
        /\ \A l \in 1 .. j - 1 : a.dots[l].value = b.dots[l].value
    BY <1>1, <2>1, Zenon
  <2>3. NumberOrder(a, b, j) = Order(a.dots[j].value, b.dots[j].value)
    BY <1>1, <2>2, NumberAgrees, ZenonT(60)
  <2>4. a.dots[j].value = b.dots[j].value /\ b.dots[j].value \in Nat
    BY <2>2, VersionTypes, ZenonT(60)
  <2>5. \A m \in Nat : Order(m, m) = 0
    BY DEF Order
  <2> QED
    BY <2>3, <2>4, <2>5, ZenonT(60)
<1>10. PMSOrder(a, b) = Order(a.dots[k].value, b.dots[k].value)
  <2>1. NumberOrder(a, b, k) # 0
    BY <1>2, <1>5, <1>8, ZenonT(60)
  <2> QED
    BY <1>7, <1>8, <1>9, <2>1, PMSByDots, ZenonT(60)
<1> QED
  BY <1>6, <1>10, Zenon

SameStart(a, b) == \A i \in 1 .. Len(a.dots) : a.dots[i].value = b.dots[i].value
Older(a, b) ==
    /\ Len(a.dots) < Len(b.dots) /\ SameStart(a, b)
    /\ a.letter = 0 /\ (a.suffixes # <<>> => a.suffixes[1].kind # p)

\* A version whose dotted numbers begin those of the other is the older one in
\* both orders, unless it has a letter or a suffix p.
LEMMA ShorterIsOlder ==
  ASSUME NEW a, NEW b, IsVersion(a), IsVersion(b), Older(a, b), ~ZerosApart(a, b)
  PROVE  /\ compare_versions(a, b) = -1 /\ PMSOrder(a, b) = -1
         /\ compare_versions(b, a) = 1 /\ PMSOrder(b, a) = 1
<1> DEFINE n == Len(a.dots)
<1>0. PICK k : k = n + 1
  BY Zenon
<1>1. /\ n \in Nat /\ n >= 1 /\ Len(b.dots) \in Nat /\ k \in Nat /\ k \in 1 .. Len(b.dots)
      /\ b.dots[k].value \in Nat /\ Len(a.suffixes) \in Nat /\ Len(b.suffixes) \in Nat /\ b.letter \in Nat
  BY <1>0, VersionTypes, SMTT(40) DEF Older
<1>2. \A j \in 1 .. k - 1 : Differ(a, b, j) = 0 /\ Differ(b, a, j) = 0
  <2> TAKE j \in 1 .. k - 1
  <2>1. j \in Nat /\ j \in 1 .. Len(a.dots) /\ j \in 1 .. Len(b.dots) /\ j # Len(b.dots) /\ a.dots[j].value = b.dots[j].value
    BY <1>0, <1>1, SMTT(40) DEF Older, SameStart
  <2>2. Letter(a, j) = 0 /\ Letter(b, j) = 0
    BY <2>1, Zenon DEF Letter, Older
  <2>3. Differ(a, b, j) = Order(Letter(a, j), Letter(b, j))
    BY <2>1, DotsAgree, Zenon
  <2>4. Differ(b, a, j) = Order(Letter(b, j), Letter(a, j))
    BY <2>1, DotsAgree, Zenon
  <2>5. Order(0, 0) = 0
    BY DEF Order
  <2> QED
    BY <2>2, <2>3, <2>4, <2>5, ZenonT(60)
<1>3. Differ(a, b, k) = -1 /\ Differ(b, a, k) = 1
  <2> DEFINE l == IF k = Len(b.dots) THEN b.letter ELSE 0
  <2>1. l \in Int /\ b.dots[k].value \in Int /\ b.dots[k].value >= 0
    BY <1>1
  <2>2. PartAt(Parts(b), k) = [suffix |-> 0, num |-> b.dots[k].value, letter |-> l]
    BY <1>1, PartsOf, ZenonT(60)
  <2> HIDE DEF l
  <2>3. CASE a.suffixes = <<>>
    <3>1. k > Len(a.dots) + Len(a.suffixes)
      BY <1>0, <1>1, <2>3, SMTT(40)
    <3>2. PartAt(Parts(a), k) = [suffix |-> 0, num |-> -1, letter |-> 0]
      BY <1>1, <3>1, PartsOf, ZenonT(60) DEF NoPart
    <3> QED
      BY <2>1, <2>2, <3>2, SMTT(40) DEF Differ, ComparePart, Order
  <2>4. CASE a.suffixes # <<>>
    <3>1. 1 \in 1 .. Len(a.suffixes)
      <4>1. a.suffixes \in Seq([kind : {alpha, beta, pre, rc, p}, num : Numbers \cup {Unwritten}])
        BY Zenon DEF IsVersion
      <4> QED
        BY <2>4, <4>1, SMTT(40)
    <3>2. a.suffixes[1] \in [kind : {alpha, beta, pre, rc, p}, num : Numbers \cup {Unwritten}]
      BY <3>1, VersionTypes, ZenonT(60)
    <3>3. a.suffixes[1].kind \in {alpha, beta, pre, rc}
      BY <2>4, <3>2, ZenonT(60) DEF Older
    <3>4. a.suffixes[1].kind \in Int /\ a.suffixes[1].kind < 0
      BY <3>3, SMTT(40) DEF alpha, beta, pre, rc
    <3>5. PartAt(Parts(a), k) = [suffix |-> a.suffixes[1].kind, num |-> a.suffixes[1].num.value, letter |-> 0]
      BY <1>0, <3>1, PartsOf, ZenonT(60)
    <3>6. a.suffixes[1].num.value \in Int
      BY <3>1, VersionTypes, SMTT(40)
    <3> QED
      BY <2>1, <2>2, <3>4, <3>5, <3>6, SMTT(40) DEF Differ, ComparePart, Order
  <2> QED
    BY <2>3, <2>4, ZenonT(60)
<1>4. Span(a, b) \in Nat /\ k \in 1 .. Span(a, b) /\ Span(b, a) \in Nat /\ k \in 1 .. Span(b, a)
  <2>1. /\ Span(a, b) \in Nat /\ Span(a, b) >= Len(b.dots) + Len(b.suffixes)
        /\ Span(b, a) \in Nat /\ Span(b, a) >= Len(b.dots) + Len(b.suffixes)
    BY SpanIs, ZenonT(60)
  <2>2. \A m, l, z \in Nat : z >= m + l /\ k \in 1 .. m => k \in 1 .. z
    BY <1>1, SMTT(40)
  <2> QED
    BY <1>1, <2>1, <2>2, ZenonT(60)
<1>5. compare_versions(a, b) = -1
  <2>1. Differ(a, b, k) # 0
    BY <1>3, SMTT(40)
  <2>2. \A j \in 1 .. k - 1 : Differ(a, b, j) = 0
    BY <1>2, Zenon
  <2>3. compare_versions(a, b) = Differ(a, b, k)
    BY <1>4, <2>1, <2>2, PartDecides, ZenonT(60)
  <2> QED
    BY <1>3, <2>3, ZenonT(60)
<1>6. compare_versions(b, a) = 1
  <2>1. Differ(b, a, k) # 0
    BY <1>3
  <2>2. \A j \in 1 .. k - 1 : Differ(b, a, j) = 0
    BY <1>2, Zenon
  <2>3. compare_versions(b, a) = Differ(b, a, k)
    BY <1>4, <2>1, <2>2, PartDecides, ZenonT(60)
  <2> QED
    BY <1>3, <2>3, ZenonT(60)
<1>7. /\ Longer(a.dots, b.dots) \in Nat /\ k \in 1 .. Longer(a.dots, b.dots)
      /\ Longer(b.dots, a.dots) \in Nat /\ k \in 1 .. Longer(b.dots, a.dots)
  <2>1. /\ Longer(a.dots, b.dots) \in {Len(a.dots), Len(b.dots)} /\ Longer(a.dots, b.dots) >= Len(b.dots)
        /\ Longer(b.dots, a.dots) \in {Len(b.dots), Len(a.dots)} /\ Longer(b.dots, a.dots) >= Len(b.dots)
    BY <1>1, MaxOfTwo, ZenonT(60) DEF Longer
  <2> QED
    BY <1>0, <1>1, <2>1, SMTT(40)
<1>8. \A j \in 1 .. k - 1 : NumberOrder(a, b, j) = 0 /\ NumberOrder(b, a, j) = 0
  <2> TAKE j \in 1 .. k - 1
  <2>0. /\ j \in Nat /\ j \in 1 .. Len(a.dots) /\ j \in 1 .. Len(b.dots)
        /\ \A l \in 1 .. j : l \in 1 .. Len(a.dots)
    BY <1>0, <1>1, SMTT(40)
  <2>1. /\ j \in Nat /\ j \in 1 .. Len(a.dots) /\ j \in 1 .. Len(b.dots)
        /\ \A l \in 1 .. j : a.dots[l].value = b.dots[l].value
    BY <2>0, ZenonT(60) DEF Older, SameStart
  <2>2. /\ \A l \in 1 .. j - 1 : a.dots[l].value = b.dots[l].value
        /\ \A l \in 1 .. j - 1 : b.dots[l].value = a.dots[l].value
        /\ a.dots[j].value = b.dots[j].value
    BY <2>1, SMTT(40)
  <2>3. ~ZerosApart(b, a)
    BY <1>1, ZerosBothWays, Zenon
  <2>4. NumberOrder(a, b, j) = Order(a.dots[j].value, b.dots[j].value)
    BY <1>1, <2>1, <2>2, NumberAgrees, ZenonT(60)
  <2>5. NumberOrder(b, a, j) = Order(b.dots[j].value, a.dots[j].value)
    BY <1>1, <2>1, <2>2, <2>3, NumberAgrees, ZenonT(60)
  <2>6. b.dots[j].value \in Nat
    BY <2>1, VersionTypes, ZenonT(60)
  <2>7. \A m \in Nat : Order(m, m) = 0
    BY DEF Order
  <2> QED
    BY <2>2, <2>4, <2>5, <2>6, <2>7, ZenonT(60)
<1>9. NumberOrder(a, b, k) = -1 /\ NumberOrder(b, a, k) = 1
  <2>1. k > Len(a.dots) /\ ~(k > Len(b.dots))
    BY <1>0, <1>1, SMTT(40)
  <2> QED
    BY <2>1, Zenon DEF NumberOrder
<1>10. PMSOrder(a, b) = -1 /\ PMSOrder(b, a) = 1
  <2>1. NumberOrder(a, b, k) # 0 /\ NumberOrder(b, a, k) # 0
    BY <1>9
  <2>2. PMSOrder(a, b) = NumberOrder(a, b, k)
    BY <1>7, <1>8, <2>1, PMSByDots, ZenonT(60)
  <2>3. PMSOrder(b, a) = NumberOrder(b, a, k)
    BY <1>7, <1>8, <2>1, PMSByDots, ZenonT(60)
  <2> QED
    BY <1>9, <2>2, <2>3, ZenonT(60)
<1> QED
  BY <1>5, <1>6, <1>10, ZenonT(60)

Numbered(v) ==
    [i \in 1 .. Len(v.suffixes) |-> [kind |-> v.suffixes[i].kind, num |-> v.suffixes[i].num.value]]
NoSuffix == [kind |-> 0, num |-> 0]

\* The suffixes of a version as the PMS compares them.
LEMMA NumberedIs ==
  ASSUME NEW v, IsVersion(v)
  PROVE  /\ Len(Numbered(v)) = Len(v.suffixes)
         /\ \A i \in 1 .. Len(v.suffixes) :
               Numbered(v)[i] = [kind |-> v.suffixes[i].kind, num |-> v.suffixes[i].num.value]
<1>1. Len(v.suffixes) \in Nat
  BY VersionTypes, ZenonT(60)
<1>2. Len(Numbered(v)) = Len(v.suffixes)
  BY <1>1 DEF Numbered
<1>3. ASSUME NEW i \in 1 .. Len(v.suffixes)
      PROVE  Numbered(v)[i] = [kind |-> v.suffixes[i].kind, num |-> v.suffixes[i].num.value]
  BY Zenon DEF Numbered
<1> QED
  BY <1>2, <1>3, ZenonT(60)

\* At a place past equal dotted numbers the parts compare like the suffixes.
LEMMA SuffixDiffers ==
  ASSUME NEW a, NEW b, IsVersion(a), IsVersion(b), Len(a.dots) = Len(b.dots),
         NEW i \in Nat, i >= 1, i <= Len(a.suffixes) \/ i <= Len(b.suffixes),
         NEW x, x = Nth(Numbered(a), i, NoSuffix), NEW y, y = Nth(Numbered(b), i, NoSuffix)
  PROVE  /\ x = y <=> x.kind = y.kind /\ x.num = y.num
         /\ Differ(a, b, Len(a.dots) + i) = IF x.kind # y.kind THEN Order(x.kind, y.kind)
                                            ELSE IF x.num # y.num THEN Order(x.num, y.num) ELSE 0
         /\ x.kind \in Int /\ x.num \in Int /\ y.kind \in Int /\ y.num \in Int
<1>1. Len(a.suffixes) \in Nat /\ Len(b.suffixes) \in Nat /\ Len(a.dots) \in Nat /\ Len(b.dots) \in Nat
  BY VersionTypes, ZenonT(60)
<1>2. ASSUME NEW v, IsVersion(v), i <= Len(v.suffixes)
      PROVE  \E m, n \in Int :
               /\ m # 0 /\ Nth(Numbered(v), i, NoSuffix) = [kind |-> m, num |-> n]
               /\ PartAt(Parts(v), Len(v.dots) + i) = [suffix |-> m, num |-> n, letter |-> 0]
  <2>1. i \in 1 .. Len(v.suffixes)
    <3>1. Len(v.suffixes) \in Nat
      BY <1>2, VersionTypes, ZenonT(60)
    <3> QED
      BY <1>2, <3>1, SMTT(40)
  <2>2. v.suffixes[i].kind \in Int /\ v.suffixes[i].kind # 0 /\ v.suffixes[i].num.value \in Nat
    BY <1>2, <2>1, VersionTypes, ZenonT(60)
  <2>3. v.suffixes[i].num.value \in Int
    BY <2>2, SMTT(40)
  <2>4. Nth(Numbered(v), i, NoSuffix) = [kind |-> v.suffixes[i].kind, num |-> v.suffixes[i].num.value]
    BY <1>2, <2>1, NumberedIs, ZenonT(60) DEF Nth
  <2>5. PartAt(Parts(v), Len(v.dots) + i) =
            [suffix |-> v.suffixes[i].kind, num |-> v.suffixes[i].num.value, letter |-> 0]
    BY <1>2, <2>1, PartsOf, ZenonT(60)
  <2> QED
    BY <2>2, <2>3, <2>4, <2>5, ZenonT(60)
<1>3. ASSUME NEW v, IsVersion(v), ~(i <= Len(v.suffixes))
      PROVE  /\ Nth(Numbered(v), i, NoSuffix) = [kind |-> 0, num |-> 0]
             /\ PartAt(Parts(v), Len(v.dots) + i) = [suffix |-> 0, num |-> -1, letter |-> 0]
  <2>1. Nth(Numbered(v), i, NoSuffix) = [kind |-> 0, num |-> 0]
    BY <1>3, NumberedIs, ZenonT(60) DEF Nth, NoSuffix
  <2>2. Len(v.dots) + i \in Nat /\ Len(v.dots) + i > Len(v.dots) + Len(v.suffixes)
    <3>1. Len(v.suffixes) \in Nat /\ Len(v.dots) \in Nat
      BY <1>3, VersionTypes, ZenonT(60)
    <3>2. \A m, n \in Nat : ~(i <= n) => m + i \in Nat /\ m + i > m + n
      OBVIOUS
    <3> QED
      BY <1>3, <3>1, <3>2, ZenonT(60)
  <2>3. PartAt(Parts(v), Len(v.dots) + i) = NoPart
    BY <1>3, <2>2, PartsOf, ZenonT(60)
  <2> QED
    BY <2>1, <2>3, ZenonT(60) DEF NoPart
<1>4. CASE i <= Len(a.suffixes) /\ i <= Len(b.suffixes)
  <2>1. PICK m, n \in Int : /\ m # 0 /\ x = [kind |-> m, num |-> n]
                            /\ PartAt(Parts(a), Len(a.dots) + i) = [suffix |-> m, num |-> n, letter |-> 0]
    BY <1>2, <1>4, ZenonT(60)
  <2>2. PICK k, l \in Int : /\ k # 0 /\ y = [kind |-> k, num |-> l]
                            /\ PartAt(Parts(b), Len(a.dots) + i) = [suffix |-> k, num |-> l, letter |-> 0]
    BY <1>2, <1>4, ZenonT(60)
  <2> QED
    BY <2>1, <2>2, SMTT(40) DEF Differ, ComparePart, Order
<1>5. CASE i <= Len(a.suffixes) /\ ~(i <= Len(b.suffixes))
  <2>1. PICK m, n \in Int : /\ m # 0 /\ x = [kind |-> m, num |-> n]
                            /\ PartAt(Parts(a), Len(a.dots) + i) = [suffix |-> m, num |-> n, letter |-> 0]
    BY <1>2, <1>5, ZenonT(60)
  <2>2. /\ y = [kind |-> 0, num |-> 0]
        /\ PartAt(Parts(b), Len(a.dots) + i) = [suffix |-> 0, num |-> -1, letter |-> 0]
    BY <1>3, <1>5, ZenonT(60)
  <2> QED
    BY <2>1, <2>2, SMTT(40) DEF Differ, ComparePart, Order
<1>6. CASE ~(i <= Len(a.suffixes)) /\ i <= Len(b.suffixes)
  <2>1. /\ x = [kind |-> 0, num |-> 0]
        /\ PartAt(Parts(a), Len(a.dots) + i) = [suffix |-> 0, num |-> -1, letter |-> 0]
    BY <1>3, <1>6, ZenonT(60)
  <2>2. PICK k, l \in Int : /\ k # 0 /\ y = [kind |-> k, num |-> l]
                            /\ PartAt(Parts(b), Len(a.dots) + i) = [suffix |-> k, num |-> l, letter |-> 0]
    BY <1>2, <1>6, ZenonT(60)
  <2> QED
    BY <2>1, <2>2, SMTT(40) DEF Differ, ComparePart, Order
<1> QED
  BY <1>4, <1>5, <1>6, ZenonT(60)

\* Versions with the same dotted numbers: the letter, the suffixes and the
\* revision decide, in this order, in both orders.
LEMMA SameDots ==
  ASSUME NEW a, NEW b, IsVersion(a), IsVersion(b),
         Len(a.dots) = Len(b.dots), SameStart(a, b), ~ZerosApart(a, b)
  PROVE  compare_versions(a, b) = PMSOrder(a, b)
<1> DEFINE n == Len(a.dots)
           F == FirstDifference(Numbered(a), Numbered(b), NoSuffix)
<1>1. /\ n \in Nat /\ n >= 1 /\ Len(a.suffixes) \in Nat /\ Len(b.suffixes) \in Nat
      /\ a.letter \in Nat /\ b.letter \in Nat
  BY VersionTypes, SMTT(40)
<1>2. DotsOrder(a, b) = 0
  <2>1. Longer(a.dots, b.dots) = n
    BY <1>1, MaxOfTwo, SMTT(40) DEF Longer
  <2>2. ASSUME NEW i \in 1 .. n PROVE NumberOrder(a, b, i) = 0
    <3>1. /\ i \in Nat /\ i \in 1 .. Len(a.dots) /\ i \in 1 .. Len(b.dots)
          /\ \A l \in 1 .. i : a.dots[l].value = b.dots[l].value
      BY <1>1, <2>2, SMTT(40) DEF SameStart
    <3>2. /\ \A l \in 1 .. i - 1 : a.dots[l].value = b.dots[l].value
          /\ a.dots[i].value = b.dots[i].value
      BY <3>1, SMTT(40)
    <3>3. Len(a.dots) \in Nat /\ Len(b.dots) \in Nat /\ b.dots[i].value \in Nat
      BY <3>1, VersionTypes, ZenonT(60)
    <3>4. NumberOrder(a, b, i) = Order(a.dots[i].value, b.dots[i].value)
      BY <3>1, <3>2, <3>3, NumberAgrees, ZenonT(60)
    <3>5. \A m \in Nat : Order(m, m) = 0
      BY DEF Order
    <3> QED
      BY <3>2, <3>3, <3>4, <3>5, Zenon
  <2> QED
    BY <2>1, <2>2, NoNumberDecides, ZenonT(60)
<1>3. PMSOrder(a, b) =
         IF a.letter # b.letter THEN Order(a.letter, b.letter)
         ELSE IF F[1].kind # F[2].kind THEN Order(F[1].kind, F[2].kind)
         ELSE IF F[1].num # F[2].num THEN Order(F[1].num, F[2].num)
         ELSE Order(a.rev.value, b.rev.value)
  BY <1>2, Zenon DEF PMSOrder, Numbered, NoSuffix
<1> HIDE DEF F
<1>4. \A j \in 1 .. n - 1 : Differ(a, b, j) = 0
  <2> TAKE j \in 1 .. n - 1
  <2>1. j \in Nat /\ j \in 1 .. Len(a.dots) /\ j \in 1 .. Len(b.dots) /\ j # Len(a.dots) /\ j # Len(b.dots)
    BY <1>1, SMTT(40)
  <2>2. Letter(a, j) = 0 /\ Letter(b, j) = 0
    BY <2>1, Zenon DEF Letter
  <2>3. a.dots[j].value = b.dots[j].value
    BY <2>1, Zenon DEF SameStart
  <2>4. Differ(a, b, j) = Order(Letter(a, j), Letter(b, j))
    BY <2>1, <2>3, DotsAgree, ZenonT(60)
  <2>5. Order(0, 0) = 0
    BY DEF Order
  <2> QED
    BY <2>2, <2>4, <2>5, ZenonT(60)
<1>5. Differ(a, b, n) = Order(a.letter, b.letter)
  <2>1. n \in Nat /\ n \in 1 .. Len(a.dots) /\ n \in 1 .. Len(b.dots)
    BY <1>1
  <2>2. a.dots[n].value = b.dots[n].value
    BY <2>1, ZenonT(60) DEF SameStart
  <2>3. Letter(a, n) = a.letter /\ Letter(b, n) = b.letter
    BY Zenon DEF Letter
  <2>4. Differ(a, b, n) = Order(Letter(a, n), Letter(b, n))
    BY <2>1, <2>2, DotsAgree, ZenonT(60)
  <2> QED
    BY <2>3, <2>4, ZenonT(60)
<1>6. Span(a, b) \in Nat /\ n \in 1 .. Span(a, b)
      /\ \A i \in Nat : n + i <= Span(a, b) <=> i <= Len(a.suffixes) \/ i <= Len(b.suffixes)
  <2>1. /\ Span(a, b) \in Nat
        /\ Span(a, b) >= n + Len(a.suffixes) /\ Span(a, b) >= n + Len(b.suffixes)
        /\ Span(a, b) \in {n + Len(a.suffixes), n + Len(b.suffixes)}
    BY SpanIs, Zenon
  <2>2. PICK l \in Nat, z \in Nat, y \in Nat, w \in Nat :
          l = n /\ z = Len(a.suffixes) /\ y = Len(b.suffixes) /\ w = Span(a, b)
    BY <1>1, <2>1, ZenonT(60)
  <2>3. l >= 1 /\ w >= l + z /\ w >= l + y /\ w \in {l + z, l + y}
    BY <1>1, <2>1, <2>2, ZenonT(60)
  <2>4. l \in 1 .. w /\ \A i \in Nat : l + i <= w <=> i <= z \/ i <= y
    <3> HIDE DEF n
    <3> QED
      BY <2>3
  <2> QED
    BY <2>1, <2>2, <2>4, ZenonT(60)
<1>7. CASE a.letter # b.letter
  <2>1. Differ(a, b, n) # 0
    BY <1>1, <1>5, <1>7, SMTT(40) DEF Order
  <2>2. compare_versions(a, b) = Differ(a, b, n)
    <3> HIDE DEF n
    <3> QED
      BY <1>4, <1>6, <2>1, PartDecides, ZenonT(60)
  <2> QED
    BY <1>3, <1>5, <1>7, <2>2, ZenonT(60)
<1>8. CASE a.letter = b.letter
  <2>1. \A j \in 1 .. n : Differ(a, b, j) = 0
    <3>1. Differ(a, b, n) = 0
      BY <1>1, <1>5, <1>8, SMTT(40) DEF Order
    <3>2. \A j \in 1 .. n : j \in 1 .. n - 1 \/ j = n
      BY <1>1, SMTT(40)
    <3> QED
      BY <1>4, <3>1, <3>2, ZenonT(60)
  <2> DEFINE X(i) == Nth(Numbered(a), i, NoSuffix)
             Y(i) == Nth(Numbered(b), i, NoSuffix)
             T == {i \in 1 .. Longer(Numbered(a), Numbered(b)) : X(i) # Y(i)}
  <2>2. /\ Longer(Numbered(a), Numbered(b)) \in Nat
        /\ \A i \in Nat : i <= Longer(Numbered(a), Numbered(b)) <=> i <= Len(a.suffixes) \/ i <= Len(b.suffixes)
    <3>1. Len(Numbered(a)) = Len(a.suffixes) /\ Len(Numbered(b)) = Len(b.suffixes)
      BY NumberedIs, Zenon
    <3>2. /\ Longer(Numbered(a), Numbered(b)) \in {Len(a.suffixes), Len(b.suffixes)}
          /\ Longer(Numbered(a), Numbered(b)) >= Len(a.suffixes)
          /\ Longer(Numbered(a), Numbered(b)) >= Len(b.suffixes)
      BY <1>1, <3>1, MaxOfTwo, ZenonT(60) DEF Longer
    <3> QED
      BY <1>1, <3>2, SMTT(40)
  <2>3. \A i \in 1 .. Longer(Numbered(a), Numbered(b)) :
           /\ X(i) = Y(i) <=> X(i).kind = Y(i).kind /\ X(i).num = Y(i).num
           /\ Differ(a, b, n + i) = IF X(i).kind # Y(i).kind THEN Order(X(i).kind, Y(i).kind)
                                    ELSE IF X(i).num # Y(i).num THEN Order(X(i).num, Y(i).num) ELSE 0
           /\ X(i).kind \in Int /\ X(i).num \in Int /\ Y(i).kind \in Int /\ Y(i).num \in Int
    <3> TAKE i \in 1 .. Longer(Numbered(a), Numbered(b))
    <3>1. i \in Nat /\ i >= 1 /\ (i <= Len(a.suffixes) \/ i <= Len(b.suffixes))
      BY <2>2, SMTT(40)
    <3> QED
      BY <3>1, SuffixDiffers, ZenonT(60)
  <2> HIDE DEF X, Y
  <2>4. CASE T = {}
    <3>1. \A i \in 1 .. Longer(Numbered(a), Numbered(b)) : X(i) = Y(i)
      BY <2>4, Zenon
    <3>2. F = <<NoSuffix, NoSuffix>>
      BY <3>1, NoDifference, ZenonT(60) DEF F, X, Y
    <3>3. PMSOrder(a, b) = Order(a.rev.value, b.rev.value)
      <4>1. <<NoSuffix, NoSuffix>>[1] = NoSuffix /\ <<NoSuffix, NoSuffix>>[2] = NoSuffix
        OBVIOUS
      <4> QED
        BY <1>3, <1>8, <3>2, <4>1, ZenonT(60)
    <3>4. \A i \in 1 .. Span(a, b) : Differ(a, b, i) = 0
      <4> TAKE i \in 1 .. Span(a, b)
      <4>1. CASE i <= n
        BY <1>1, <2>1, <4>1, SMTT(40)
      <4>2. CASE i > n
        <5>1. PICK j \in Nat : i = n + j
          <6>1. i - n \in Nat /\ i = n + (i - n)
            BY <1>1, <1>6, <4>2, SMTT(40)
          <6> QED
            BY <6>1, ZenonT(60)
        <5>2. j >= 1 /\ n + j <= Span(a, b)
          BY <1>1, <1>6, <4>2, <5>1, SMTT(40)
        <5>3. j \in 1 .. Longer(Numbered(a), Numbered(b))
          BY <1>6, <2>2, <5>2, SMTT(40)
        <5> QED
          BY <2>3, <3>1, <5>1, <5>3, ZenonT(60)
      <4> QED
        BY <1>1, <1>6, <4>1, <4>2, SMTT(40)
    <3> QED
      BY <3>3, <3>4, SameParts, ZenonT(60)
  <2>5. CASE T # {}
    <3>1. T \subseteq Nat
      BY <2>2
    <3>2. PICK k \in T : \A j \in T : k <= j
      <4> HIDE DEF T
      <4> QED
        BY <2>5, <3>1, MinLeast, ZenonT(60)
    <3>3. k \in 1 .. Longer(Numbered(a), Numbered(b)) /\ X(k) # Y(k)
      BY <3>2, Zenon
    <3>4. \A j \in 1 .. k - 1 : j \in 1 .. Longer(Numbered(a), Numbered(b)) /\ X(j) = Y(j)
      <4>1. \A j \in 1 .. k - 1 : j \in 1 .. Longer(Numbered(a), Numbered(b)) /\ ~(k <= j)
        BY <2>2, <3>3, SMTT(40)
      <4> QED
        BY <3>2, <4>1, ZenonT(60)
    <3>5. F = <<X(k), Y(k)>>
      BY <2>2, <3>3, <3>4, DifferenceAt, ZenonT(60) DEF F, X, Y
    <3>6. PMSOrder(a, b) = IF X(k).kind # Y(k).kind THEN Order(X(k).kind, Y(k).kind)
                           ELSE Order(X(k).num, Y(k).num)
      <4>1. <<X(k), Y(k)>>[1] = X(k) /\ <<X(k), Y(k)>>[2] = Y(k)
        OBVIOUS
      <4>2. X(k).kind # Y(k).kind \/ X(k).num # Y(k).num
        BY <2>3, <3>3, ZenonT(60)
      <4> QED
        BY <1>3, <1>8, <3>5, <4>1, <4>2, ZenonT(60)
    <3>7. Differ(a, b, n + k) = PMSOrder(a, b) /\ Differ(a, b, n + k) # 0
      <4>1. X(k).kind # Y(k).kind \/ X(k).num # Y(k).num
        BY <2>3, <3>3, Zenon
      <4>2. Differ(a, b, n + k) = PMSOrder(a, b)
        BY <2>3, <3>3, <3>6, <4>1, ZenonT(60)
      <4>3. X(k).kind \in Int /\ X(k).num \in Int /\ Y(k).kind \in Int /\ Y(k).num \in Int
        BY <2>3, <3>3, ZenonT(60)
      <4> QED
        BY <3>6, <4>1, <4>2, <4>3, SMTT(40) DEF Order
    <3>8. \A i \in 1 .. (n + k) - 1 : Differ(a, b, i) = 0
      <4> TAKE i \in 1 .. (n + k) - 1
      <4>0. k \in Nat
        BY <3>1, <3>2, ZenonT(60)
      <4>1. CASE i <= n
        BY <1>1, <2>1, <4>1, SMTT(40)
      <4>2. CASE i > n
        <5>1. PICK j \in Nat : i = n + j
          <6>1. i - n \in Nat /\ i = n + (i - n)
            BY <1>1, <4>0, <4>2, SMTT(40)
          <6> QED
            BY <6>1, Zenon
        <5>2. j \in 1 .. k - 1
          BY <1>1, <4>0, <4>2, <5>1, SMTT(40)
        <5> QED
          BY <2>3, <3>4, <5>1, <5>2, ZenonT(60)
      <4> QED
        BY <1>1, <4>0, <4>1, <4>2, SMTT(40)
    <3>9. n + k \in 1 .. Span(a, b)
      BY <1>1, <1>6, <2>2, <3>3, SMTT(40)
    <3>10. compare_versions(a, b) = Differ(a, b, n + k)
      <4> DEFINE m == n + k
      <4> HIDE DEF m
      <4>1. /\ m \in 1 .. Span(a, b) /\ Differ(a, b, m) # 0
            /\ \A i \in 1 .. m - 1 : Differ(a, b, i) = 0
        BY <3>7, <3>8, <3>9, ZenonT(60) DEF m
      <4>2. compare_versions(a, b) = Differ(a, b, m)
        BY <1>6, <4>1, PartDecides, ZenonT(60)
      <4> QED
        BY <4>2, Zenon DEF m
    <3> QED
      BY <3>7, <3>10, ZenonT(60)
  <2> QED
    BY <2>4, <2>5, ZenonT(60)
<1> QED
  BY <1>7, <1>8, ZenonT(60)

\* compare_versions orders versions as the PMS does, except for those whose
\* dotted numbers begin the other's and that have a letter or a suffix p, and for
\* those told apart by numbers of different length with leading zeros.
THEOREM VersionOrderAgrees ==
  ASSUME NEW a, NEW b, IsVersion(a), IsVersion(b), ~OrderedApart(a, b)
  PROVE  compare_versions(a, b) = PMSOrder(a, b)
<1>1. Len(a.dots) \in Nat /\ Len(b.dots) \in Nat
  BY VersionTypes, Zenon
<1>0. ~LengthApart(a, b) /\ ~LengthApart(b, a) /\ ~ZerosApart(a, b)
  BY Zenon DEF OrderedApart
<1> DEFINE T == {i \in 1 .. Len(a.dots) : i \in 1 .. Len(b.dots) /\ a.dots[i].value # b.dots[i].value}
<1>2. CASE T # {}
  <2>1. T \subseteq Nat
    BY <1>1
  <2>2. PICK k \in T : \A j \in T : k <= j
    <3> HIDE DEF T
    <3> QED
      BY <1>2, <2>1, MinLeast, ZenonT(60)
  <2>3. k \in Nat /\ k \in 1 .. Len(a.dots) /\ k \in 1 .. Len(b.dots) /\ a.dots[k].value # b.dots[k].value
    BY <2>1, <2>2, ZenonT(60)
  <2>4. \A j \in 1 .. k - 1 : a.dots[j].value = b.dots[j].value
    <3>1. \A j \in 1 .. k - 1 : j \in 1 .. Len(a.dots) /\ j \in 1 .. Len(b.dots) /\ ~(k <= j)
      BY <1>1, <2>3, SMTT(40)
    <3> QED
      BY <2>2, <3>1, ZenonT(60)
  <2> QED
    BY <1>0, <2>3, <2>4, DotsDecide, ZenonT(60)
<1>3. CASE T = {}
  <2>1. \A i \in 1 .. Len(a.dots) : i \in 1 .. Len(b.dots) => a.dots[i].value = b.dots[i].value
    BY <1>3, Zenon
  <2>2. CASE Len(a.dots) < Len(b.dots)
    <3>1. \A i \in 1 .. Len(a.dots) : a.dots[i].value = b.dots[i].value
      BY <1>1, <2>1, <2>2, SMTT(40)
    <3>3. a.letter = 0 /\ (a.suffixes # <<>> => a.suffixes[1].kind # p)
      BY <1>0, <2>2, <3>1, ZenonT(60) DEF LengthApart
    <3>4. Older(a, b)
      BY <2>2, <3>1, <3>3, ZenonT(60) DEF Older, SameStart
    <3> QED
      BY <1>0, <3>4, ShorterIsOlder, ZenonT(60)
  <2>3. CASE Len(b.dots) < Len(a.dots)
    <3>1. \A i \in 1 .. Len(b.dots) : b.dots[i].value = a.dots[i].value
      BY <1>1, <2>1, <2>3, SMTT(40)
    <3>3. b.letter = 0 /\ (b.suffixes # <<>> => b.suffixes[1].kind # p)
      BY <1>0, <2>3, <3>1, ZenonT(60) DEF LengthApart
    <3>4. Older(b, a)
      BY <2>3, <3>1, <3>3, ZenonT(60) DEF Older, SameStart
    <3> QED
      BY <1>0, <1>1, <3>4, ShorterIsOlder, ZerosBothWays, ZenonT(60)
  <2>4. CASE Len(a.dots) = Len(b.dots)
    <3>1. SameStart(a, b)
      BY <2>1, <2>4, Zenon DEF SameStart
    <3> QED
      BY <1>0, <2>4, <3>1, SameDots, ZenonT(60)
  <2> QED
    BY <1>1, <2>2, <2>3, <2>4, SMTT(40)
<1> QED
  BY <1>2, <1>3, ZenonT(60)

\* A version is neither older nor newer than itself.
LEMMA SameVersion ==
  ASSUME NEW a, IsVersion(a), a.rev.value \in Int
  PROVE  PMSOrder(a, a) = 0
<1>1. DotsOrder(a, a) = 0
  <2>1. Len(a.dots) \in Nat /\ \A i \in 1 .. Len(a.dots) : a.dots[i].value \in Nat
    BY VersionTypes, Zenon
  <2>2. Longer(a.dots, a.dots) = Len(a.dots)
    BY <2>1, MaxOfTwo, SMTT(40) DEF Longer
  <2>3. ASSUME NEW i \in 1 .. Len(a.dots) PROVE NumberOrder(a, a, i) = 0
    <3>1. ~(i > Len(a.dots)) /\ \A m \in Nat : Order(m, m) = 0
      BY <2>1 DEF Order
    <3> QED
      BY <2>1, <3>1, ZenonT(60) DEF NumberOrder, TextOrder
  <2> QED
    BY <2>2, <2>3, NoNumberDecides, ZenonT(60)
<1>2. FirstDifference(Numbered(a), Numbered(a), NoSuffix) = <<NoSuffix, NoSuffix>>
  BY NoDifference, Zenon
<1>3. <<NoSuffix, NoSuffix>>[1] = NoSuffix /\ <<NoSuffix, NoSuffix>>[2] = NoSuffix
  OBVIOUS
<1>4. Order(a.rev.value, a.rev.value) = 0
  BY DEF Order
<1>5. PMSOrder(a, a) = Order(a.rev.value, a.rev.value)
  BY <1>1, <1>2, <1>3, ZenonT(60) DEF PMSOrder, Numbered, NoSuffix
<1> QED
  BY <1>4, <1>5, Zenon

-----------------------------------------------------------------------------
(* What a run skips.                                                       *)

\* An installed version that is_installed accepts satisfies the atom by the rules
\* of the PMS, but for versions ordered in a way of their own and globs.
THEOREM InstalledSatisfies ==
  ASSUME NEW a, NEW b, NEW op \in AtomOps, IsVersion(a), IsVersion(b), is_installed(op, a, b)
  PROVE  \/ PMSSatisfies(op, a, b)
         \/ op \in {">=", "<=", ">", "<"} /\ OrderedApart(a, b)
         \/ op = "=*"
<1>1. a.rev \in Numbers \cup {Unwritten}
  BY Zenon DEF IsVersion
<1>2. a.rev.value \in Int
  BY <1>1, NumberAssumption, SMTT(40) DEF Numbers, Unwritten
<1>3. CASE op = "none"
  BY <1>3, Zenon DEF PMSSatisfies
<1>4. CASE op = "="
  <2>1. a = b
    BY <1>4, Zenon DEF is_installed
  <2>2. PMSOrder(a, a) = 0
    BY <1>2, SameVersion, ZenonT(60)
  <2> QED
    BY <1>4, <2>1, <2>2, ZenonT(60) DEF PMSSatisfies
<1>5. CASE op = "~"
  <2> DEFINE v == [a EXCEPT !.rev = Unwritten]
  <2>1. v = [b EXCEPT !.rev = Unwritten]
    BY <1>5, Zenon DEF is_installed
  <2>2. v.rev = Unwritten /\ IsVersion(v)
    BY Zenon DEF IsVersion
  <2> HIDE DEF v
  <2>3. v.rev.value \in Int
    BY <2>2 DEF Unwritten
  <2>4. PMSOrder(v, v) = 0
    BY <2>2, <2>3, SameVersion, ZenonT(60)
  <2>5. PMSOrder([a EXCEPT !.rev = Unwritten], [b EXCEPT !.rev = Unwritten]) = 0
    BY <2>1, <2>4, ZenonT(60) DEF v
  <2> QED
    BY <1>5, <2>5, Zenon DEF PMSSatisfies
<1>6. CASE op \in {">=", "<=", ">", "<"}
  <2>1. CASE OrderedApart(a, b)
    BY <1>6, <2>1, ZenonT(60)
  <2>2. CASE ~OrderedApart(a, b)
    <3>1. compare_versions(a, b) = PMSOrder(a, b)
      BY <2>2, VersionOrderAgrees, ZenonT(60)
    <3>2. CASE op = ">="
      BY <3>1, <3>2, ZenonT(60) DEF is_installed, PMSSatisfies
    <3>3. CASE op = "<="
      BY <3>1, <3>3, ZenonT(60) DEF is_installed, PMSSatisfies
    <3>4. CASE op = ">"
      BY <3>1, <3>4, ZenonT(60) DEF is_installed, PMSSatisfies
    <3>5. CASE op = "<"
      BY <3>1, <3>5, ZenonT(60) DEF is_installed, PMSSatisfies
    <3> QED
      BY <1>6, <3>2, <3>3, <3>4, <3>5, ZenonT(60)
  <2> QED
    BY <2>1, <2>2, ZenonT(60)
<1> QED
  BY <1>3, <1>4, <1>5, <1>6, ZenonT(60) DEF AtomOps

\* A run that skips its package has found a version that satisfies the atom.
THEOREM SkipsSound == Spec => []SkipSound
<1>1. ASSUME IInv PROVE SkipSound
  <2> SUFFICES ASSUME NEW c \in Clis, cli[c].pc = "skipped"
               PROVE  \/ PMSSatisfies(scenario.op, scenario.installed[1], scenario.constraint)
                      \/ scenario.op \in {">=", "<=", ">", "<"}
                           /\ OrderedApart(scenario.installed[1], scenario.constraint)
                      \/ scenario.op = "=*"
    BY Zenon DEF SkipSound
  <2>1. /\ scenario \in Scenarios /\ scenario.installed # <<>>
        /\ is_installed(scenario.op, scenario.installed[1], scenario.constraint)
    BY <1>1, ZenonT(60) DEF IInv, World, One, Found
  <2>2. scenario.op \in AtomOps /\ IsVersion(scenario.constraint) /\ IsVersion(scenario.installed[1])
    BY <2>1, ScenarioAssumption, Zenon
  <2> QED
    BY <2>1, <2>2, InstalledSatisfies, ZenonT(60)
<1> QED
  BY <1>1, ClientInvariance, PTL, ZenonT(60)

=============================================================================
