---------------------------- MODULE AtomVersions ----------------------------
(***************************************************************************)
(* Versions of packages as the CLI reads them out of atoms and out of      *)
(* /var/db/pkg, the order compare_versions gives them, and the order the   *)
(* Package Manager Specification (PMS) gives them.                         *)
(*                                                                         *)
(* A number is its value and the width it is written with: 01 has value 1  *)
(* and width 2, a number that is not written has width 0.  A version is    *)
(* its dotted numbers, a letter after the last of them (0 for none), its   *)
(* suffixes and its revision: 1.02b_rc3-r1 has the dotted numbers 1 and    *)
(* 02, letter 2, one suffix of kind rc and number 3, and revision 1.       *)
(***************************************************************************)
EXTENDS Integers, Sequences, FiniteSetsExt

\* Kinds of suffix, in their order; 0 stands for a part that is no suffix.
alpha == -4
beta == -3
pre == -2
rc == -1
p == 1

\* The largest number that parse::<u64> reads, 2^64 - 1; longer ones are left out.
CONSTANT MaxNumber
ASSUME NumberAssumption == MaxNumber \in Nat

Numbers == {n \in [value : 0..MaxNumber, width : Nat \ {0}] : n.value < 10 ^ n.width}
Unwritten == [value |-> 0, width |-> 0]
LeadingZero(n) == n.value < 10 ^ (n.width - 1)

AtomOps == {"none", "=", "=*", "~", ">=", "<=", ">", "<"}
IsVersion(v) ==
    /\ v \in [dots : Seq(Numbers), letter : 0..26,
              suffixes : Seq([kind : {alpha, beta, pre, rc, p}, num : Numbers \cup {Unwritten}]),
              rev : Numbers \cup {Unwritten}]
    /\ v.dots # <<>>

Order(x, y) == IF x < y THEN -1 ELSE IF x > y THEN 1 ELSE 0

\* The parts of the base version, split at its dots and underscores; parse::<u64>
\* drops leading zeros, so that 01 is 1.
Parts(v) ==
    [i \in 1..Len(v.dots) |->
        [suffix |-> 0, num |-> v.dots[i].value, letter |-> IF i = Len(v.dots) THEN v.letter ELSE 0]]
    \o [i \in 1..Len(v.suffixes) |->
        [suffix |-> v.suffixes[i].kind, num |-> v.suffixes[i].num.value, letter |-> 0]]

\* The empty part that stands for the parts the shorter version lacks.
NoPart == [suffix |-> 0, num |-> -1, letter |-> 0]
PartAt(parts, i) == IF i <= Len(parts) THEN parts[i] ELSE NoPart

ComparePart_noSuffix(x, y) ==
    IF x.num # y.num THEN Order(x.num, y.num) ELSE Order(x.letter, y.letter)

ComparePart(x, y) ==
    IF x.suffix # y.suffix THEN Order(x.suffix, y.suffix)
    ELSE IF x.num # y.num THEN Order(x.num, y.num)
    ELSE Order(x.letter, y.letter)

compare_versions(a, b) ==
    LET pa == Parts(a)
        pb == Parts(b)
        differ == {i \in 1..Max({Len(pa), Len(pb)}) : ComparePart(PartAt(pa, i), PartAt(pb, i)) # 0}
    IN IF differ = {} THEN Order(a.rev.value, b.rev.value)
       ELSE ComparePart(PartAt(pa, Min(differ)), PartAt(pb, Min(differ)))

\* A glob compares the text of the versions: 1.2* is a prefix of 1.2, of 1.2.3
\* and of 1.20.
DigitPrefix(m, n) == m.width <= n.width /\ n.value \div 10 ^ (n.width - m.width) = m.value

GlobMatches(v, prefix) ==
    LET n == Len(prefix.dots) IN
    /\ Len(v.dots) >= n
    /\ \A i \in 1..n - 1 : v.dots[i] = prefix.dots[i]
    /\ DigitPrefix(prefix.dots[n], v.dots[n])

\* Whether the installed version satisfies the constraint of an atom.  The
\* constraint of a glob has dotted numbers only.
is_installed(op, installed, constraint) ==
    LET order == compare_versions(installed, constraint) IN
    CASE op = "none" -> TRUE
      [] op = "=" -> installed = constraint
      [] op = "=*" -> GlobMatches(installed, constraint)
      [] op = "~" -> [installed EXCEPT !.rev = Unwritten] = [constraint EXCEPT !.rev = Unwritten]
      [] op = ">=" -> order >= 0
      [] op = "<=" -> order <= 0
      [] op = ">" -> order > 0
      [] op = "<" -> order < 0

-----------------------------------------------------------------------------
(* The order of the PMS: the dotted numbers decide first, the longer       *)
(* sequence being the newer, then the letter, the suffixes, the revision.  *)

\* Numbers after the first of all, one with leading zeros, are compared as text
\* without their trailing zeros, that is as the decimals of a fraction.  A number
\* that is 0 comes first either way, and numbers of one width keep their order.
TextOrder(x, y) ==
    IF x.value = 0 \/ y.value = 0 \/ x.width = y.width THEN Order(x.value, y.value)
    ELSE IF x.width < y.width THEN Order(x.value * 10 ^ (y.width - x.width), y.value)
    ELSE Order(x.value, y.value * 10 ^ (x.width - y.width))

\* The numbers at place i of two versions, which one of them may lack.
NumberOrder(a, b, i) ==
    IF i > Len(a.dots) THEN -1
    ELSE IF i > Len(b.dots) THEN 1
    ELSE IF i > 1 /\ (LeadingZero(a.dots[i]) \/ LeadingZero(b.dots[i]))
         THEN TextOrder(a.dots[i], b.dots[i])
    ELSE Order(a.dots[i].value, b.dots[i].value)

DotsOrder(a, b) ==
    LET differ == {i \in 1..Max({Len(a.dots), Len(b.dots)}) : NumberOrder(a, b, i) # 0}
    IN IF differ = {} THEN 0 ELSE NumberOrder(a, b, Min(differ))

FirstDifference(s, t, blank) ==
    LET At(q, i) == IF i <= Len(q) THEN q[i] ELSE blank
        differ == {i \in 1..Max({Len(s), Len(t)}) : At(s, i) # At(t, i)}
    IN IF differ = {} THEN <<blank, blank>> ELSE <<At(s, Min(differ)), At(t, Min(differ))>>

PMSOrder(a, b) ==
    LET Numbered(v) == [i \in 1..Len(v.suffixes) |->
                            [kind |-> v.suffixes[i].kind, num |-> v.suffixes[i].num.value]]
        suffixes == FirstDifference(Numbered(a), Numbered(b), [kind |-> 0, num |-> 0])
    IN IF DotsOrder(a, b) # 0 THEN DotsOrder(a, b)
       ELSE IF a.letter # b.letter THEN Order(a.letter, b.letter)
       ELSE IF suffixes[1].kind # suffixes[2].kind THEN Order(suffixes[1].kind, suffixes[2].kind)
       ELSE IF suffixes[1].num # suffixes[2].num THEN Order(suffixes[1].num, suffixes[2].num)
       ELSE Order(a.rev.value, b.rev.value)

PMSSatisfies(op, installed, constraint) ==
    LET order == PMSOrder(installed, constraint) IN
    CASE op = "none" -> TRUE
      [] op = "=" -> order = 0
      [] op = "=*" -> \E n \in 1..Len(installed.dots) :
                          SubSeq(installed.dots, 1, n) = constraint.dots
      [] op = "~" -> PMSOrder([installed EXCEPT !.rev = Unwritten], [constraint EXCEPT !.rev = Unwritten]) = 0
      [] op = ">=" -> order >= 0
      [] op = "<=" -> order <= 0
      [] op = ">" -> order > 0
      [] op = "<" -> order < 0

=============================================================================
