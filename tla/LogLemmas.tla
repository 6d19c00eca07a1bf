------------------------------- MODULE LogLemmas -------------------------------
(***************************************************************************)
(* Facts that the proofs of several components need: about logs, the sets  *)
(* of their lines, sums of their figures and induction, and about what the *)
(* reading of orders.jsonl returns for a file of any length.               *)
(*                                                                         *)
(* Induction is stated for a set of naturals: a predicate is given to it   *)
(* as the set of the numbers it holds of.                                  *)
(***************************************************************************)
EXTENDS Orders, FiniteSetTheorems, SequenceTheorems, TLAPS

\* Every set of naturals that is not empty has a least member.
LEMMA LeastMember ==
    ASSUME NEW T \in SUBSET Nat, T # {}
    PROVE  \E n \in T : \A m \in T : n <= m
<1>1. IsWellFoundedOn(OpToRel(<, Nat), Nat)
  BY NatLessThanWellFounded
<1>2. PICK x \in T : \A y \in T : ~ (<<y, x>> \in OpToRel(<, Nat))
  BY <1>1, WFMin
<1>3. \A y \in T : ~ (y < x)
  <2> SUFFICES ASSUME NEW y \in T, y < x PROVE FALSE
    OBVIOUS
  <2>1. <<y, x>> \in Nat \X Nat /\ <<y, x>>[1] < <<y, x>>[2]
    OBVIOUS
  <2>2. <<y, x>> \in OpToRel(<, Nat)
    BY <2>1, Zenon DEF OpToRel
  <2> QED BY <1>2, <2>2
<1> QED BY <1>3

\* The greatest of some numbers up to a bound.
LEMMA MaxOfDates ==
    ASSUME NEW m \in Nat, NEW S \in SUBSET (0 .. m), NEW x \in S
    PROVE  x <= Max(S) /\ Max(S) \in 0 .. m /\ Max(S) \in S
<1> DEFINE T == { m - y : y \in S }
<1>0. \A y \in S : y \in Int /\ m - y \in Nat
  OBVIOUS
<1>1. T \in SUBSET Nat /\ m - x \in T
  BY <1>0
<1>2. PICK t \in T : \A u \in T : t <= u
  BY <1>1, LeastMember
<1>3. PICK z \in S : t = m - z
  OBVIOUS
<1>4. \A y \in S : z >= y
  <2> SUFFICES ASSUME NEW y \in S PROVE z >= y
    OBVIOUS
  <2>1. m - y \in T
    OBVIOUS
  <2>2. m - z <= m - y
    BY <1>2, <1>3, <2>1
  <2> QED BY <1>0, <2>2
<1>5. \E a \in S : \A y \in S : a >= y
  BY <1>3, <1>4
<1>6. Max(S) \in S /\ \A y \in S : Max(S) >= y
  BY <1>5 DEF Max
<1> QED BY <1>6

\* Induction up to a bound: what holds of 0 and is passed on holds of all.
LEMMA InductionUpTo ==
    ASSUME NEW n \in Nat, NEW T, 0 \in T, \A i \in 0 .. n - 1 : i \in T => i + 1 \in T
    PROVE  \A i \in 0 .. n : i \in T
<1> DEFINE Bad == { i \in 0 .. n : i \notin T }
<1> SUFFICES ASSUME Bad # {} PROVE FALSE
  OBVIOUS
<1>1. Bad \in SUBSET Nat
  OBVIOUS
<1>2. PICK i \in Bad : \A j \in Bad : i <= j
  BY <1>1, LeastMember
<1>3. i # 0 /\ i - 1 \in 0 .. n - 1 /\ i - 1 \notin Bad
  BY <1>2
<1>4. i - 1 \in T
  BY <1>3
<1> QED BY <1>2, <1>3, <1>4

\* What a function takes a finite set to is finite.
LEMMA FiniteImage ==
    ASSUME NEW S, IsFiniteSet(S), NEW f, f = [x \in S |-> f[x]]
    PROVE  IsFiniteSet({ f[x] : x \in S })
<1> DEFINE image == { f[x] : x \in S }
<1>1. f \in [S -> image] /\ \A y \in image : \E x \in S : f[x] = y
  OBVIOUS
<1> HIDE DEF image
<1>2. f \in Surjection(S, image)
  BY <1>1 DEF Surjection
<1>3. IsFiniteSet(image)
  BY <1>2, FS_Surjection
<1> QED BY <1>3 DEF image

\* A log that lines are added to is still a log of the same.
LEMMA LogType ==
    ASSUME NEW S, NEW s \in Seq(S)
    PROVE  /\ \A e \in S : Append(s, e) \in Seq(S)
           /\ \A t \in Seq(S) : s \o t \in Seq(S)
OBVIOUS

\* A log that another is added to keeps its own lines, and is a prefix.
LEMMA AppendedKeeps ==
    ASSUME NEW S, NEW s \in Seq(S), NEW t \in Seq(S)
    PROVE  /\ IsPrefix(s, s \o t)
           /\ ToSet(s) \subseteq ToSet(s \o t)
           /\ ToSet(t) \subseteq ToSet(s \o t)
<1>1. /\ s \o t \in Seq(S)
      /\ Len(s \o t) = Len(s) + Len(t)
      /\ \A i \in 1 .. Len(s) : (s \o t)[i] = s[i]
      /\ \A i \in 1 .. Len(t) : (s \o t)[Len(s) + i] = t[i]
  OBVIOUS
<1>2. IsPrefix(s, s \o t)
  BY <1>1 DEF IsPrefix
<1>3. ToSet(s) \subseteq ToSet(s \o t)
  BY <1>1 DEF ToSet
<1>4. ToSet(t) \subseteq ToSet(s \o t)
  BY <1>1 DEF ToSet
<1> QED BY <1>2, <1>3, <1>4

\* What is in a log and what is added at its end is all there is.
LEMMA AppendedOnly ==
    ASSUME NEW S, NEW s \in Seq(S), NEW t \in Seq(S)
    PROVE  /\ ToSet(s \o t) = ToSet(s) \cup ToSet(t)
           /\ Len(s \o t) = Len(s) + Len(t)
<1>1. /\ s \o t \in Seq(S)
      /\ Len(s \o t) = Len(s) + Len(t)
      /\ \A i \in 1 .. Len(s) + Len(t) :
            (s \o t)[i] = IF i <= Len(s) THEN s[i] ELSE t[i - Len(s)]
  OBVIOUS
<1>2. ASSUME NEW x \in ToSet(s \o t) PROVE x \in ToSet(s) \cup ToSet(t)
  <2>1. PICK i \in 1 .. Len(s) + Len(t) : x = (s \o t)[i]
    BY <1>1 DEF ToSet
  <2>2. CASE i <= Len(s)
    BY <1>1, <2>1, <2>2 DEF ToSet
  <2>3. CASE ~ (i <= Len(s))
    <3>1. i - Len(s) \in 1 .. Len(t) /\ x = t[i - Len(s)]
      BY <1>1, <2>1, <2>3
    <3> QED BY <3>1 DEF ToSet
  <2> QED BY <2>2, <2>3
<1> QED BY <1>1, <1>2, AppendedKeeps

\* The same of a log that one line is added to.
LEMMA AppendedOne ==
    ASSUME NEW S, NEW s \in Seq(S), NEW e \in S
    PROVE  /\ ToSet(Append(s, e)) = ToSet(s) \cup {e}
           /\ Len(Append(s, e)) = Len(s) + 1
<1>1. /\ Len(Append(s, e)) = Len(s) + 1
      /\ DOMAIN Append(s, e) = 1 .. Len(s) + 1 /\ DOMAIN s = 1 .. Len(s)
      /\ Append(s, e)[Len(s) + 1] = e
      /\ \A i \in 1 .. Len(s) : Append(s, e)[i] = s[i]
      /\ Len(s) \in Nat
  OBVIOUS
<1>2. \A i \in 1 .. Len(s) + 1 : i \in 1 .. Len(s) \/ i = Len(s) + 1
  BY <1>1
<1>3. 1 .. Len(s) \subseteq 1 .. Len(s) + 1 /\ Len(s) + 1 \in 1 .. Len(s) + 1
  BY <1>1
<1> QED BY <1>1, <1>2, <1>3 DEF ToSet

\* A function keeps its type when one value is replaced by another of its type.
LEMMA Replaced ==
    ASSUME NEW A, NEW B, NEW f \in [A -> B], NEW x \in A, NEW b \in B
    PROVE  [f EXCEPT ![x] = b] \in [A -> B]
OBVIOUS

\* The empty log is a log of anything.
LEMMA EmptyLog ==
    ASSUME NEW S PROVE <<>> \in Seq(S)
OBVIOUS

\* A line of a log is what the log is a log of.
LEMMA LineType ==
    ASSUME NEW S, NEW s \in Seq(S)
    PROVE  \A i \in DOMAIN s : s[i] \in S
OBVIOUS

\* Every member of a log is a line of it.
LEMMA MembersType ==
    ASSUME NEW S, NEW s \in Seq(S)
    PROVE  ToSet(s) \subseteq S
BY DEF ToSet

\* A finite set can be listed, each member once.
LEMMA Listed ==
    ASSUME NEW S, IsFiniteSet(S)
    PROVE  /\ SetToSeq(S) \in Seq(S)
           /\ DOMAIN SetToSeq(S) = 1 .. Cardinality(S)
           /\ IsInjective(SetToSeq(S))
           /\ ToSet(SetToSeq(S)) \subseteq S
<1>1. Cardinality(S) \in Nat /\ ExistsBijection(1 .. Cardinality(S), S)
  BY FS_CardinalityType
<1>2. PICK g : g \in Bijection(1 .. Cardinality(S), S)
  BY <1>1 DEF ExistsBijection
<1>3. g \in [1 .. Cardinality(S) -> S] /\ IsInjective(g)
  BY <1>2 DEF Bijection, Injection
<1>4. SetToSeq(S) \in [1 .. Cardinality(S) -> S] /\ IsInjective(SetToSeq(S))
  BY <1>3 DEF SetToSeq
<1> QED BY <1>1, <1>4 DEF ToSet

\* A set whose members are all the same has at most one.
LEMMA AtMostOne ==
    ASSUME NEW S, \A x, y \in S : x = y
    PROVE  Cardinality(S) <= 1
<1>1. CASE S = {}
  BY <1>1, FS_EmptySet
<1>2. CASE S # {}
  <2>1. PICK x \in S : TRUE
    BY <1>2
  <2>2. S = {x}
    BY <2>1
  <2> QED BY <2>2, FS_Singleton
<1> QED BY <1>1, <1>2

\* f is the fold of step along 1 .. n, from start, within S.
IsFold(f, S, n, start, step) ==
    /\ f \in [0 .. n -> S] /\ f[0] = start
    /\ \A k \in 1 .. n : f[k] = step[<<f[k - 1], k>>]

\* A fold along a list exists: the function that a definition f[k \in 0 .. n] ==
\* IF k = 0 THEN start ELSE ... f[k - 1] ... chooses is one that satisfies it.
LEMMA FoldExists ==
    ASSUME NEW S, NEW n \in Nat, NEW start \in S, NEW step \in [S \X (1 .. n) -> S]
    PROVE  \E f : IsFold(f, S, n, start, step)
<1> DEFINE Good(f, m) == f[0] = start /\ \A k \in 1 .. m : f[k] = step[<<f[k - 1], k>>]
           T == { m \in 0 .. n : \E f \in [0 .. m -> S] : Good(f, m) }
<1>1. 0 \in T
  <2> DEFINE g == [k \in 0 .. 0 |-> start]
  <2>1. g \in [0 .. 0 -> S] /\ Good(g, 0)
    OBVIOUS
  <2>2. 0 \in 0 .. n
    OBVIOUS
  <2> HIDE DEF g
  <2> QED BY <2>1, <2>2
<1>2. ASSUME NEW m \in 0 .. n - 1, m \in T PROVE m + 1 \in T
  <2>1. PICK f \in [0 .. m -> S] : Good(f, m)
    BY <1>2
  <2> DEFINE g == [k \in 0 .. m + 1 |-> IF k = m + 1 THEN step[<<f[m], m + 1>>] ELSE f[k]]
  <2>2. m \in 0 .. m /\ f[m] \in S /\ m + 1 \in 1 .. n
    OBVIOUS
  <2>3. step[<<f[m], m + 1>>] \in S
    BY <2>2
  <2>4. g \in [0 .. m + 1 -> S]
    BY <2>3
  <2>5. g[m + 1] = step[<<f[m], m + 1>>] /\ \A k \in 0 .. m : g[k] = f[k]
    OBVIOUS
  <2> HIDE DEF g
  <2>6. \A k \in 1 .. m : g[k] = f[k] /\ g[k - 1] = f[k - 1]
    BY <2>5
  <2>7. \A k \in 1 .. m : g[k] = step[<<g[k - 1], k>>]
    BY <2>1, <2>6
  <2>8. g[m + 1] = step[<<g[m + 1 - 1], m + 1>>]
    <3>1. m + 1 - 1 = m /\ g[m] = f[m]
      BY <2>2, <2>5
    <3> QED BY <2>5, <3>1
  <2>9. Good(g, m + 1)
    BY <2>1, <2>2, <2>5, <2>7, <2>8
  <2> QED BY <2>2, <2>4, <2>9
<1>3. n \in T
  <2> HIDE DEF T
  <2>1. \A i \in 0 .. n : i \in T
    BY <1>1, <1>2, InductionUpTo
  <2> QED BY <2>1
<1> QED BY <1>3 DEF IsFold

\* One more line, and a log in which no line stands twice is still one.
LEMMA StillOnce ==
    ASSUME NEW S, NEW s \in Seq(S), NEW e \in S \ ToSet(s), IsInjective(s)
    PROVE  IsInjective(Append(s, e))
<1>1. /\ DOMAIN Append(s, e) = 1 .. Len(s) + 1 /\ DOMAIN s = 1 .. Len(s) /\ Len(s) \in Nat
      /\ Append(s, e)[Len(s) + 1] = e
      /\ \A i \in 1 .. Len(s) : Append(s, e)[i] = s[i] /\ s[i] # e
  BY DEF ToSet
<1>2. \A i, j \in 1 .. Len(s) : s[i] = s[j] => i = j
  BY <1>1 DEF IsInjective
<1>3. \A i \in 1 .. Len(s) + 1 : i \in 1 .. Len(s) \/ i = Len(s) + 1
  BY <1>1
<1>4. ASSUME NEW i \in 1 .. Len(s) + 1, NEW j \in 1 .. Len(s) + 1,
             Append(s, e)[i] = Append(s, e)[j]
      PROVE  i = j
  BY <1>1, <1>2, <1>3, <1>4
<1> QED BY <1>1, <1>4 DEF IsInjective

\* A past of a log is a past of what the log grows to.
LEMMA PastGrows ==
    ASSUME NEW S, NEW s \in Seq(S), NEW t \in Seq(S), NEW u \in Seq(S), IsPrefix(s, t)
    PROVE  IsPrefix(s, t \o u)
<1>1. Len(s) <= Len(t) /\ \A i \in 1 .. Len(s) : s[i] = t[i]
  BY DEF IsPrefix
<1> QED BY <1>1 DEF IsPrefix
----------------------------------------------------------------------------
(* Lists.                                                                  *)

\* The lines of two lists after one another.
LEMMA LinesOfBoth ==
    ASSUME NEW S, NEW s \in Seq(S), NEW t \in Seq(S)
    PROVE  /\ s \o t \in Seq(S) /\ Len(s \o t) = Len(s) + Len(t)
           /\ \A i \in 1 .. Len(s) : (s \o t)[i] = s[i]
           /\ \A i \in 1 .. Len(t) : (s \o t)[Len(s) + i] = t[i]
OBVIOUS

\* The lines of a stretch of a list.
LEMMA LinesOfPart ==
    ASSUME NEW S, NEW s \in Seq(S), NEW e \in 0 .. Len(s)
    PROVE  /\ SubSeq(s, 1, e) \in Seq(S) /\ Len(SubSeq(s, 1, e)) = e
           /\ \A i \in 1 .. e : SubSeq(s, 1, e)[i] = s[i]
           /\ SubSeq(s, e + 1, Len(s)) \in Seq(S)
           /\ Len(SubSeq(s, e + 1, Len(s))) = Len(s) - e
           /\ \A i \in 1 .. Len(s) - e : SubSeq(s, e + 1, Len(s))[i] = s[e + i]
<1>1. \A i \in 1 .. Len(s) - e : SubSeq(s, e + 1, Len(s))[i] = s[e + 1 + i - 1]
  OBVIOUS
<1>2. \A i \in 1 .. Len(s) - e : e + 1 + i - 1 = e + i
  OBVIOUS
<1>3. \A i \in 1 .. Len(s) - e : SubSeq(s, e + 1, Len(s))[i] = s[e + i]
  BY <1>1, <1>2
<1> QED BY <1>3

\* f is the lines kept so far, at every line of the list.
IsKeeping(f, S, list, places) ==
    /\ f \in [0 .. Len(list) -> Seq(S)] /\ f[0] = <<>>
    /\ \A k \in 1 .. Len(list) :
        f[k] = IF k \in places THEN Append(f[k - 1], list[k]) ELSE f[k - 1]

LEMMA KeptRuns ==
    ASSUME NEW S, NEW list \in Seq(S), NEW places
    PROVE  \E f : IsKeeping(f, S, list, places) /\ Kept(list, places) = f[Len(list)]
<1> DEFINE n == Len(list)
           more(kept, k) == IF k \in places THEN Append(kept, list[k]) ELSE kept
           fold == CHOOSE f : f = [k \in 0 .. n |-> IF k = 0 THEN <<>> ELSE more(f[k - 1], k)]
<1>1. n \in Nat /\ DOMAIN list = 1 .. n /\ \A k \in 1 .. n : list[k] \in S
  OBVIOUS
<1>2. Kept(list, places) = fold[n]
  BY DEF Kept
<1>3. \A kept \in Seq(S), k \in 1 .. n : more(kept, k) \in Seq(S)
  BY <1>1
<1>4. fold \in [0 .. n -> Seq(S)] /\ fold[0] = <<>>
      /\ \A k \in 1 .. n : fold[k] = more(fold[k - 1], k)
  <2> HIDE DEF more, n
  <2> DEFINE step == [x \in Seq(S) \X (1 .. n) |-> more(x[1], x[2])]
  <2>1. step \in [Seq(S) \X (1 .. n) -> Seq(S)] /\ <<>> \in Seq(S)
    BY <1>3
  <2> HIDE DEF step
  <2>2. PICK f : IsFold(f, Seq(S), n, <<>>, step)
    BY <1>1, <2>1, FoldExists
  <2>3. \A k \in 1 .. n : k - 1 \in 0 .. n /\ f[k - 1] \in Seq(S)
    BY <1>1, <2>2 DEF IsFold
  <2>4. \A k \in 1 .. n : f[k] = more(f[k - 1], k)
    BY <2>2, <2>3 DEF step, IsFold
  <2>5. f = [k \in 0 .. n |-> IF k = 0 THEN <<>> ELSE more(f[k - 1], k)]
    BY <1>1, <2>2, <2>4 DEF IsFold
  <2>6. fold = [k \in 0 .. n |-> IF k = 0 THEN <<>> ELSE more(fold[k - 1], k)]
    BY <2>5
  <2> HIDE DEF fold
  <2>7. /\ fold[0] = <<>>
        /\ \A k \in 1 .. n : fold[k] = more(fold[k - 1], k)
    BY <1>1, <2>6
  <2> DEFINE T == { k \in 0 .. n : fold[k] \in Seq(S) }
  <2>8. 0 \in T
    <3>1. 0 \in 0 .. n /\ fold[0] = <<>>
      BY <1>1, <2>7
    <3> QED BY <2>1, <3>1
  <2>9. ASSUME NEW k \in 0 .. n - 1, k \in T PROVE k + 1 \in T
    <3>1. k + 1 \in 1 .. n /\ k + 1 - 1 = k
      BY <1>1
    <3> QED BY <1>3, <2>7, <2>9, <3>1
  <2>10. \A k \in 0 .. n : k \in T
    <3> HIDE DEF T
    <3> QED BY <1>1, <2>8, <2>9, InductionUpTo
  <2> QED BY <2>6, <2>7, <2>10
<1> QED BY <1>2, <1>4 DEF IsKeeping

\* What is kept of a list is the lines at the places named, and no others.
LEMMA KeptLines ==
    ASSUME NEW S, NEW list \in Seq(S), NEW places
    PROVE  /\ Kept(list, places) \in Seq(S)
           /\ ToSet(Kept(list, places)) = { list[i] : i \in places \cap DOMAIN list }
<1> DEFINE n == Len(list)
           more(kept, k) == IF k \in places THEN Append(kept, list[k]) ELSE kept
<1>1. n \in Nat /\ DOMAIN list = 1 .. n /\ \A k \in 1 .. n : list[k] \in S
  OBVIOUS
<1>2. PICK fold : IsKeeping(fold, S, list, places) /\ Kept(list, places) = fold[n]
  BY KeptRuns
<1>4. fold \in [0 .. n -> Seq(S)] /\ fold[0] = <<>>
      /\ \A k \in 1 .. n : fold[k] = more(fold[k - 1], k)
  BY <1>2 DEF IsKeeping
<1> HIDE DEF more, n
<1> DEFINE done(k) == { list[i] : i \in places \cap (1 .. k) }
           T == { k \in 0 .. n : ToSet(fold[k]) = done(k) }
<1>5. 0 \in T
  <2>1. done(0) = {} /\ ToSet(<<>>) = {}
    BY DEF ToSet
  <2> HIDE DEF done
  <2>2. 0 \in 0 .. n /\ fold[0] = <<>>
    BY <1>1, <1>4
  <2> QED BY <2>1, <2>2
<1>6. ASSUME NEW k \in 0 .. n - 1, k \in T PROVE k + 1 \in T
  <2>1. k + 1 \in 1 .. n /\ k + 1 - 1 = k /\ k \in 0 .. n /\ k + 1 \in 0 .. n
    BY <1>1
  <2>2. fold[k + 1] = more(fold[k], k + 1) /\ fold[k] \in Seq(S) /\ list[k + 1] \in S
    <3>1. fold[k + 1] = more(fold[k + 1 - 1], k + 1)
      BY <1>4, <2>1
    <3> QED BY <1>1, <1>4, <2>1, <3>1
  <2>3. \A i : i \in 1 .. k + 1 <=> i \in 1 .. k \/ i = k + 1
    BY <1>1
  <2>4. ToSet(Append(fold[k], list[k + 1])) = ToSet(fold[k]) \cup {list[k + 1]}
    BY <2>2, AppendedOne
  <2>5. ToSet(fold[k]) = done(k)
    BY <1>6
  <2>6. done(k + 1) = IF k + 1 \in places THEN done(k) \cup {list[k + 1]} ELSE done(k)
    BY <2>3
  <2> HIDE DEF done
  <2>7. ToSet(fold[k + 1]) = done(k + 1)
    BY <2>2, <2>4, <2>5, <2>6 DEF more
  <2> QED BY <2>1, <2>7
<1>7. n \in T
  <2> HIDE DEF T
  <2>1. \A i \in 0 .. n : i \in T
    BY <1>1, <1>5, <1>6, InductionUpTo
  <2> QED BY <1>1, <2>1
<1>8. n \in 0 .. n
  BY <1>1
<1> QED BY <1>1, <1>2, <1>4, <1>7, <1>8

\* The partial sums of a list of amounts: Total is the last of them.
IsRunning(f, amounts) ==
    /\ f \in [0 .. Len(amounts) -> Int] /\ f[0] = 0
    /\ \A k \in 1 .. Len(amounts) : f[k] = f[k - 1] + amounts[k]

LEMMA TotalRuns ==
    ASSUME NEW amounts \in Seq(Int)
    PROVE  \E f : IsRunning(f, amounts) /\ Total(amounts) = f[Len(amounts)]
<1> DEFINE n == Len(amounts)
           fold == CHOOSE f : f = [k \in 0 .. n |-> IF k = 0 THEN 0 ELSE f[k - 1] + amounts[k]]
           step == [x \in Int \X (1 .. n) |-> x[1] + amounts[x[2]]]
<1>1. n \in Nat /\ \A k \in 1 .. n : amounts[k] \in Int
  OBVIOUS
<1>2. Total(amounts) = fold[n]
  BY DEF Total
<1> HIDE DEF n
<1>3. step \in [Int \X (1 .. n) -> Int]
  <2>1. ASSUME NEW x \in Int \X (1 .. n) PROVE x[1] + amounts[x[2]] \in Int
    <3>1. x[1] \in Int /\ amounts[x[2]] \in Int
      BY <1>1
    <3> QED BY <3>1
  <2> QED BY <2>1
<1>4. PICK f : IsFold(f, Int, n, 0, step)
  <2> HIDE DEF step
  <2>1. 0 \in Int
    OBVIOUS
  <2> QED BY <1>1, <1>3, <2>1, FoldExists
<1>5. \A k \in 1 .. n : k - 1 \in 0 .. n /\ f[k - 1] \in Int
  BY <1>1, <1>4 DEF IsFold
<1>6. \A k \in 1 .. n : f[k] = f[k - 1] + amounts[k]
  BY <1>4, <1>5 DEF IsFold
<1>7. f = [k \in 0 .. n |-> IF k = 0 THEN 0 ELSE f[k - 1] + amounts[k]]
  BY <1>1, <1>4, <1>6 DEF IsFold
<1>8. fold = [k \in 0 .. n |-> IF k = 0 THEN 0 ELSE fold[k - 1] + amounts[k]]
  BY <1>7
<1> HIDE DEF fold
<1>9. /\ fold[0] = 0
      /\ \A k \in 1 .. n : fold[k] = fold[k - 1] + amounts[k]
  BY <1>1, <1>8
<1> DEFINE T == { k \in 0 .. n : fold[k] \in Int }
<1>10. 0 \in T
  BY <1>1, <1>9
<1>11. ASSUME NEW k \in 0 .. n - 1, k \in T PROVE k + 1 \in T
  <2>1. k + 1 \in 1 .. n /\ k + 1 - 1 = k
    BY <1>1
  <2> QED BY <1>1, <1>9, <1>11, <2>1
<1>12. \A k \in 0 .. n : k \in T
  <2> HIDE DEF T
  <2> QED BY <1>1, <1>10, <1>11, InductionUpTo
<1>13. IsRunning(fold, amounts)
  BY <1>8, <1>9, <1>12 DEF IsRunning, n
<1> QED BY <1>2, <1>13 DEF n

\* Two lists of partial sums that agree on the amounts are the same.
LEMMA TotalIs ==
    ASSUME NEW amounts \in Seq(Int), NEW f, IsRunning(f, amounts)
    PROVE  Total(amounts) = f[Len(amounts)] /\ Total(amounts) \in Int
<1> DEFINE n == Len(amounts)
<1>1. n \in Nat
  OBVIOUS
<1>2. PICK g : IsRunning(g, amounts) /\ Total(amounts) = g[n]
  BY TotalRuns
<1> DEFINE T == { k \in 0 .. n : g[k] = f[k] }
<1>3. 0 \in T
  BY <1>1, <1>2 DEF IsRunning
<1>4. ASSUME NEW k \in 0 .. n - 1, k \in T PROVE k + 1 \in T
  <2>1. k + 1 \in 1 .. n /\ k + 1 - 1 = k
    BY <1>1
  <2>2. g[k + 1] = g[k] + amounts[k + 1] /\ f[k + 1] = f[k] + amounts[k + 1]
    BY <1>2, <2>1 DEF IsRunning
  <2> QED BY <1>4, <2>1, <2>2
<1>5. n \in T
  <2> HIDE DEF T
  <2>1. \A k \in 0 .. n : k \in T
    BY <1>1, <1>3, <1>4, InductionUpTo
  <2> QED BY <1>1, <2>1
<1> QED BY <1>1, <1>2, <1>5 DEF IsRunning

\* A sum of amounts is an amount.
LEMMA TotalType ==
    ASSUME NEW amounts \in Seq(Int)
    PROVE  Total(amounts) \in Int
BY TotalRuns, TotalIs

\* Of amounts none of which is negative, no partial sum is.
LEMMA TotalNat ==
    ASSUME NEW amounts \in Seq(Nat)
    PROVE  /\ amounts \in Seq(Int) /\ Total(amounts) \in Nat
           /\ \A f : IsRunning(f, amounts) => f \in [0 .. Len(amounts) -> Nat]
<1> DEFINE n == Len(amounts)
<1>1. n \in Nat /\ amounts \in Seq(Int) /\ \A k \in 1 .. n : amounts[k] \in Nat
  OBVIOUS
<1>2. ASSUME NEW f, IsRunning(f, amounts) PROVE f \in [0 .. n -> Nat]
  <2>1. /\ f \in [0 .. n -> Int] /\ f[0] = 0
        /\ \A k \in 1 .. n : f[k] = f[k - 1] + amounts[k]
    BY <1>2 DEF IsRunning
  <2> DEFINE T == { k \in 0 .. n : f[k] \in Nat }
  <2> HIDE DEF n
  <2>2. 0 \in T
    BY <1>1, <2>1
  <2>3. ASSUME NEW k \in 0 .. n - 1, k \in T PROVE k + 1 \in T
    <3>1. k + 1 \in 1 .. n /\ k + 1 - 1 = k /\ k + 1 \in 0 .. n
      BY <1>1
    <3>2. f[k + 1] = f[k] + amounts[k + 1]
      BY <2>1, <3>1
    <3>3. f[k] \in Nat /\ amounts[k + 1] \in Nat
      BY <1>1, <2>3, <3>1
    <3> QED BY <3>1, <3>2, <3>3
  <2>4. \A k \in 0 .. n : k \in T
    <3> HIDE DEF T
    <3> QED BY <1>1, <2>2, <2>3, InductionUpTo
  <2> QED BY <2>1, <2>4
<1>3. PICK f : IsRunning(f, amounts) /\ Total(amounts) = f[n]
  BY <1>1, TotalRuns
<1> QED BY <1>1, <1>2, <1>3

\* The sum of two lists after one another is the sum of their sums.
LEMMA TotalOfBoth ==
    ASSUME NEW s \in Seq(Int), NEW t \in Seq(Int)
    PROVE  /\ s \o t \in Seq(Int) /\ Total(s \o t) = Total(s) + Total(t)
           /\ Total(s) \in Int /\ Total(t) \in Int
<1> DEFINE m == Len(s)
           n == Len(t)
<1>1. /\ s \o t \in Seq(Int) /\ m \in Nat /\ n \in Nat /\ Len(s \o t) = m + n
      /\ \A k \in 1 .. m : (s \o t)[k] = s[k]
      /\ \A k \in m + 1 .. m + n : k - m \in 1 .. n /\ (s \o t)[k] = t[k - m]
  OBVIOUS
<1>2. PICK f : IsRunning(f, s) /\ Total(s) = f[m]
  BY TotalRuns
<1>3. PICK g : IsRunning(g, t) /\ Total(t) = g[n]
  BY TotalRuns
<1> DEFINE both == [k \in 0 .. m + n |-> IF k <= m THEN f[k] ELSE f[m] + g[k - m]]
<1>0. /\ f \in [0 .. m -> Int] /\ f[0] = 0 /\ \A k \in 1 .. m : f[k] = f[k - 1] + s[k]
      /\ g \in [0 .. n -> Int] /\ g[0] = 0 /\ \A k \in 1 .. n : g[k] = g[k - 1] + t[k]
  BY <1>2, <1>3 DEF IsRunning
<1>a. \A k \in 1 .. n : t[k] \in Int
  OBVIOUS
<1> HIDE DEF m, n
<1>b. f[m] \in Int
  <2>1. m \in 0 .. m
    BY <1>1
  <2> QED BY <1>0, <2>1
<1>4. both \in [0 .. m + n -> Int] /\ both[0] = 0
  <2>1. f[m] \in Int
    BY <1>b
  <2>2. ASSUME NEW k \in 0 .. m + n PROVE (IF k <= m THEN f[k] ELSE f[m] + g[k - m]) \in Int
    <3>1. CASE k <= m
      BY <1>0, <1>1, <3>1
    <3>2. CASE ~ (k <= m)
      <4>1. k - m \in 0 .. n
        BY <1>1, <3>2
      <4>2. g[k - m] \in Int
        BY <1>0, <4>1
      <4> QED BY <2>1, <3>2, <4>2
    <3> QED BY <3>1, <3>2
  <2> QED BY <1>0, <1>1, <2>2
<1>5. ASSUME NEW k \in 1 .. m + n PROVE both[k] = both[k - 1] + (s \o t)[k]
  <2>1. k - 1 \in 0 .. m + n /\ k \in 0 .. m + n
    BY <1>1
  <2>2. CASE k <= m
    <3>1. k \in 1 .. m /\ k - 1 <= m /\ both[k] = f[k] /\ both[k - 1] = f[k - 1]
      BY <1>1, <2>1, <2>2
    <3> QED BY <1>0, <1>1, <3>1
  <2>3. CASE k = m + 1
    <3>1. both[k] = f[m] + g[1] /\ both[k - 1] = f[m] /\ 1 \in 1 .. n /\ k - m = 1
      BY <1>1, <2>1, <2>3
    <3>2. g[1] = g[0] + t[1] /\ g[0] = 0 /\ t[1] \in Int
      <4>1. g[1] = g[1 - 1] + t[1] /\ 1 - 1 = 0
        BY <1>0, <3>1
      <4> QED BY <1>0, <1>a, <3>1, <4>1
    <3>3. (s \o t)[k] = t[1] /\ f[m] \in Int
      <4>1. k \in m + 1 .. m + n
        BY <1>1, <2>3
      <4> QED BY <1>1, <1>b, <3>1, <4>1
    <3> QED BY <3>1, <3>2, <3>3
  <2>4. CASE k > m + 1
    <3>1. k - m \in 1 .. n /\ k - m - 1 = k - 1 - m /\ k - m - 1 \in 0 .. n
      BY <1>1, <2>4
    <3>2. both[k] = f[m] + g[k - m] /\ both[k - 1] = f[m] + g[k - m - 1]
      BY <1>1, <2>1, <2>4, <3>1
    <3>3. g[k - m] = g[k - m - 1] + t[k - m] /\ g[k - m - 1] \in Int /\ t[k - m] \in Int
      <4>1. g[k - m] = g[k - m - 1] + t[k - m]
        BY <1>0, <3>1
      <4>2. g[k - m - 1] \in Int /\ t[k - m] \in Int
        BY <1>0, <1>a, <3>1
      <4> QED BY <4>1, <4>2
    <3>4. (s \o t)[k] = t[k - m] /\ f[m] \in Int
      <4>1. k \in m + 1 .. m + n
        BY <1>1, <2>4
      <4> QED BY <1>1, <1>b, <4>1
    <3> QED BY <3>2, <3>3, <3>4
  <2> QED BY <1>1, <2>2, <2>3, <2>4
<1> HIDE DEF both
<1>6. IsRunning(both, s \o t)
  BY <1>1, <1>4, <1>5 DEF IsRunning
<1>7. Total(s \o t) = both[m + n]
  BY <1>1, <1>6, TotalIs
<1>8. Total(s) \in Int /\ Total(t) \in Int
  BY <1>2, <1>3, TotalIs
<1>9. both[m + n] = f[m] + g[n]
  <2>1. CASE n = 0
    BY <1>0, <1>1, <2>1 DEF both
  <2>2. CASE n # 0
    <3> DEFINE l == m + n
    <3>1. l \in 0 .. m + n /\ ~ (l <= m)
      BY <1>1, <2>2
    <3>2. l - m = n
      BY <1>1
    <3> HIDE DEF l
    <3>3. both[l] = f[m] + g[l - m]
      BY <3>1 DEF both
    <3> QED BY <3>2, <3>3 DEF l
  <2> QED BY <2>1, <2>2
<1> QED BY <1>1, <1>2, <1>3, <1>7, <1>8, <1>9

\* The sum of one amount is that amount.
LEMMA TotalOfOne ==
    ASSUME NEW x \in Int
    PROVE  <<x>> \in Seq(Int) /\ Total(<<x>>) = x
<1> DEFINE f == [k \in 0 .. 1 |-> IF k = 0 THEN 0 ELSE x]
<1>1. <<x>> \in Seq(Int) /\ Len(<<x>>) = 1 /\ <<x>>[1] = x
  OBVIOUS
<1>2. IsRunning(f, <<x>>)
  BY <1>1 DEF IsRunning
<1>3. f[1] = x
  OBVIOUS
<1> HIDE DEF f
<1> QED BY <1>1, <1>2, <1>3, TotalIs

\* Amounts that are all zero sum to zero.
LEMMA TotalOfNone ==
    ASSUME NEW s \in Seq(Int), \A k \in DOMAIN s : s[k] = 0
    PROVE  Total(s) = 0
<1> DEFINE f == [k \in 0 .. Len(s) |-> 0]
<1>1. IsRunning(f, s)
  BY DEF IsRunning
<1> QED BY <1>1, TotalIs

\* One more line adds its figure to the sum of a figure of each line.
LEMMA TotalOfAppended ==
    ASSUME NEW S, NEW f \in [S -> Int], NEW s \in Seq(S), NEW e \in S
    PROVE  /\ Total([i \in DOMAIN s |-> f[s[i]]]) \in Int
           /\ Total([i \in DOMAIN Append(s, e) |-> f[Append(s, e)[i]]]) =
                Total([i \in DOMAIN s |-> f[s[i]]]) + f[e]
<1> DEFINE n == Len(s)
           t == Append(s, e)
           a == [i \in DOMAIN s |-> f[s[i]]]
           b == [i \in DOMAIN t |-> f[t[i]]]
           x == f[e]
           c == a \o <<x>>
<1>1. /\ n \in Nat /\ DOMAIN s = 1 .. n /\ DOMAIN t = 1 .. n + 1
      /\ \A i \in 1 .. n : s[i] \in S /\ t[i] = s[i]
      /\ t[n + 1] = e
  OBVIOUS
<1>2. x \in Int
  OBVIOUS
<1> HIDE DEF n, t, x
<1>3. a \in Seq(Int) /\ Len(a) = n /\ \A i \in 1 .. n : a[i] = f[s[i]]
  BY <1>1
<1>4. b \in Seq(Int) /\ Len(b) = n + 1 /\ \A i \in 1 .. n + 1 : b[i] = f[t[i]]
  <2>1. \A i \in 1 .. n + 1 : t[i] \in S
    <3>1. \A i \in 1 .. n + 1 : i \in 1 .. n \/ i = n + 1
      BY <1>1
    <3> QED BY <1>1, <3>1
  <2> QED BY <1>1, <2>1
<1> HIDE DEF a, b
<1>5. <<x>> \in Seq(Int) /\ Total(<<x>>) = x /\ Len(<<x>>) = 1 /\ <<x>>[1] = x
  BY <1>2, TotalOfOne
<1>6. /\ c \in Seq(Int) /\ Len(c) = n + 1
      /\ \A i \in 1 .. n : c[i] = a[i]
      /\ c[n + 1] = x
  BY <1>1, <1>3, <1>5
<1> HIDE DEF c
<1>7. ASSUME NEW i \in 1 .. n + 1 PROVE b[i] = c[i]
  <2>1. CASE i \in 1 .. n
    <3>1. b[i] = f[t[i]] /\ t[i] = s[i] /\ a[i] = f[s[i]] /\ c[i] = a[i]
      BY <1>1, <1>3, <1>4, <1>6, <2>1
    <3> QED BY <3>1
  <2>2. CASE i = n + 1
    BY <1>1, <1>4, <1>6, <2>2 DEF x
  <2> QED BY <1>1, <2>1, <2>2
<1>8. b = c
  BY <1>4, <1>6, <1>7, SeqEqual
<1>9. Total(c) = Total(a) + x /\ Total(a) \in Int
  BY <1>3, <1>5, TotalOfBoth DEF c
<1> QED BY <1>8, <1>9 DEF a, b, t, x

\* A sum is no less than any of its amounts.
LEMMA TotalAtLeast ==
    ASSUME NEW s \in Seq(Nat), NEW i \in DOMAIN s
    PROVE  s[i] <= Total(s)
<1> DEFINE n == Len(s)
<1>1. n \in Nat /\ i \in 1 .. n /\ \A k \in 1 .. n : s[k] \in Nat
  OBVIOUS
<1>0. s \in Seq(Int)
  BY TotalNat
<1>2. PICK f : IsRunning(f, s) /\ Total(s) = f[n]
  BY <1>0, TotalRuns
<1> HIDE DEF n
<1>3. /\ f \in [0 .. n -> Nat]
      /\ \A k \in 1 .. n : f[k] = f[k - 1] + s[k]
  BY <1>2, TotalNat DEF IsRunning, n
<1> DEFINE T == { k \in 0 .. n : i <= k => s[i] <= f[k] }
<1>4. 0 \in T
  BY <1>1
<1>5. ASSUME NEW k \in 0 .. n - 1, k \in T PROVE k + 1 \in T
  <2>1. k + 1 \in 1 .. n /\ k + 1 - 1 = k /\ k \in 0 .. n /\ k + 1 \in 0 .. n
    BY <1>1
  <2>2. f[k + 1] = f[k] + s[k + 1] /\ f[k] \in Nat /\ s[k + 1] \in Nat
    BY <1>1, <1>3, <2>1
  <2>3. i <= k + 1 => i <= k \/ i = k + 1
    BY <1>1, <2>1
  <2>4. s[i] \in Nat
    BY <1>1
  <2>5. i <= k => s[i] <= f[k]
    BY <1>5
  <2>6. i <= k + 1 => s[i] <= f[k + 1]
    BY <2>2, <2>3, <2>4, <2>5
  <2> QED BY <2>1, <2>6
<1>6. n \in T
  <2> HIDE DEF T
  <2>1. \A k \in 0 .. n : k \in T
    BY <1>1, <1>4, <1>5, InductionUpTo
  <2> QED BY <1>1, <2>1
<1> QED BY <1>1, <1>2, <1>6

\* The sums of two lists add up line by line.
LEMMA TotalOfSums ==
    ASSUME NEW s \in Seq(Int), NEW d \in Seq(Int), NEW t \in Seq(Int),
           Len(s) = Len(d), Len(t) = Len(s), \A k \in 1 .. Len(s) : t[k] = s[k] + d[k]
    PROVE  Total(t) = Total(s) + Total(d) /\ Total(s) \in Int /\ Total(d) \in Int
<1> DEFINE n == Len(s)
<1>1. n \in Nat /\ \A k \in 1 .. n : s[k] \in Int /\ d[k] \in Int
  OBVIOUS
<1>2. PICK f : IsRunning(f, s) /\ Total(s) = f[n]
  BY TotalRuns
<1>3. PICK g : IsRunning(g, d) /\ Total(d) = g[n]
  BY TotalRuns
<1> DEFINE h == [k \in 0 .. n |-> f[k] + g[k]]
<1>4. IsRunning(h, t)
  <2>1. f \in [0 .. n -> Int] /\ g \in [0 .. n -> Int] /\ f[0] = 0 /\ g[0] = 0
    BY <1>2, <1>3 DEF IsRunning
  <2>2. h \in [0 .. n -> Int] /\ h[0] = 0
    BY <1>1, <2>1
  <2>3. ASSUME NEW k \in 1 .. n PROVE h[k] = h[k - 1] + t[k]
    <3>1. f[k] = f[k - 1] + s[k] /\ g[k] = g[k - 1] + d[k] /\ k - 1 \in 0 .. n /\ k \in 0 .. n
      BY <1>1, <1>2, <1>3 DEF IsRunning
    <3>2. f[k - 1] \in Int /\ g[k - 1] \in Int /\ s[k] \in Int /\ d[k] \in Int
      BY <1>1, <2>1, <3>1
    <3>3. h[k] = f[k] + g[k] /\ h[k - 1] = f[k - 1] + g[k - 1] /\ t[k] = s[k] + d[k]
      BY <3>1
    <3> DEFINE a == f[k - 1]
               b == g[k - 1]
               x == s[k]
               y == d[k]
    <3>4. h[k] = a + x + (b + y) /\ h[k - 1] = a + b /\ t[k] = x + y
      BY <3>1, <3>3
    <3>5. a \in Int /\ b \in Int /\ x \in Int /\ y \in Int
      BY <3>2
    <3> HIDE DEF h, n, a, b, x, y
    <3> QED BY <3>4, <3>5
  <2> HIDE DEF h
  <2> QED BY <2>2, <2>3 DEF IsRunning
<1>5. Total(t) = h[n] /\ h[n] = f[n] + g[n]
  <2>1. Total(t) = h[n]
    <3> HIDE DEF h
    <3> QED BY <1>4, TotalIs
  <2> QED BY <1>1, <2>1
<1>6. f[n] \in Int /\ g[n] \in Int
  BY <1>1, <1>2, <1>3 DEF IsRunning
<1> QED BY <1>2, <1>3, <1>5, <1>6

\* A list that is nowhere above another, and somewhere below it, has the smaller sum.
LEMMA TotalBelow ==
    ASSUME NEW s \in Seq(Nat), NEW t \in Seq(Nat), Len(s) = Len(t),
           \A k \in 1 .. Len(s) : s[k] <= t[k],
           NEW i \in 1 .. Len(s), s[i] < t[i]
    PROVE  Total(s) < Total(t)
<1> DEFINE n == Len(s)
           d == [k \in 1 .. n |-> t[k] - s[k]]
<1>1. n \in Nat /\ \A k \in 1 .. n : s[k] \in Nat /\ t[k] \in Nat
  OBVIOUS
<1>2. \A k \in 1 .. n : t[k] - s[k] \in Nat /\ t[k] = s[k] + (t[k] - s[k])
  BY <1>1
<1>3. d \in Seq(Nat) /\ Len(d) = n /\ DOMAIN d = 1 .. n /\ \A k \in 1 .. n : t[k] = s[k] + d[k]
  <2>1. DOMAIN d = 1 .. n /\ \A k \in 1 .. n : d[k] = t[k] - s[k]
    OBVIOUS
  <2> HIDE DEF d
  <2>2. \A k \in 1 .. n : d[k] \in Nat /\ t[k] = s[k] + d[k]
    BY <1>2, <2>1
  <2>3. d \in [1 .. n -> Nat]
    <3>1. d = [k \in 1 .. n |-> t[k] - s[k]]
      BY DEF d
    <3> QED BY <2>1, <2>2, <3>1
  <2> HIDE DEF n
  <2> QED BY <1>1, <2>1, <2>2, <2>3
<1>4. d[i] > 0 /\ d[i] \in Nat
  BY <1>1
<1> HIDE DEF d
<1>5. Total(t) = Total(s) + Total(d) /\ Total(s) \in Nat /\ Total(d) \in Nat
  <2>1. s \in Seq(Int) /\ t \in Seq(Int) /\ d \in Seq(Int)
    BY <1>3, TotalNat
  <2>2. Total(t) = Total(s) + Total(d)
    BY <1>3, <2>1, TotalOfSums
  <2> QED BY <1>3, <2>2, TotalNat
<1>6. d[i] <= Total(d)
  BY <1>3, TotalAtLeast
<1> QED BY <1>4, <1>5, <1>6
\* One amount more at the end of a list.
LEMMA TotalOfOneMore ==
    ASSUME NEW s \in Seq(Int), NEW x \in Int
    PROVE  /\ Append(s, x) \in Seq(Int) /\ Total(Append(s, x)) = Total(s) + x
           /\ Total(s) \in Int
<1>1. Append(s, x) \in Seq(Int) /\ Append(s, x) = s \o <<x>> /\ <<x>> \in Seq(Int)
  OBVIOUS
<1> QED BY <1>1, TotalOfBoth, TotalOfOne

\* Amounts that are all the same multiple of others sum to that multiple.
LEMMA TotalScaled ==
    ASSUME NEW c \in Int, NEW s \in Seq(Int), NEW t \in Seq(Int), Len(t) = Len(s),
           \A k \in 1 .. Len(s) : t[k] = c * s[k]
    PROVE  Total(t) = c * Total(s) /\ Total(s) \in Int
<1> DEFINE n == Len(s)
<1>1. n \in Nat /\ \A k \in 1 .. n : s[k] \in Int
  OBVIOUS
<1>2. PICK f : IsRunning(f, s) /\ Total(s) = f[n]
  BY TotalRuns
<1>3. f \in [0 .. n -> Int] /\ f[0] = 0 /\ \A k \in 1 .. n : f[k] = f[k - 1] + s[k]
  BY <1>2 DEF IsRunning
<1> DEFINE g == [k \in 0 .. n |-> c * f[k]]
<1>4. IsRunning(g, t)
  <2>1. g \in [0 .. n -> Int]
    BY <1>3
  <2>2. g[0] = 0
    <3>1. 0 \in 0 .. n
      BY <1>1
    <3> QED BY <1>3, <3>1
  <2>3. ASSUME NEW k \in 1 .. n PROVE g[k] = g[k - 1] + t[k]
    <3> DEFINE a == f[k - 1]
               x == s[k]
    <3>1. k \in 0 .. n /\ k - 1 \in 0 .. n
      BY <1>1
    <3>2. f[k] = a + x /\ a \in Int /\ x \in Int
      BY <1>1, <1>3, <3>1
    <3>3. g[k] = c * (a + x) /\ g[k - 1] = c * a /\ t[k] = c * x
      BY <3>1, <3>2
    <3> HIDE DEF g, a, x
    <3> QED BY <3>2, <3>3
  <2> HIDE DEF g
  <2> QED BY <2>1, <2>2, <2>3 DEF IsRunning
<1>5. Total(t) = g[n] /\ g[n] = c * f[n] /\ f[n] \in Int
  <2>1. g[n] = c * f[n] /\ f[n] \in Int
    BY <1>1, <1>3
  <2> HIDE DEF g
  <2> QED BY <1>4, <2>1, TotalIs
<1> QED BY <1>2, <1>5

\* Amounts that are nowhere above others have no greater sum.
LEMMA TotalAtMost ==
    ASSUME NEW s \in Seq(Int), NEW t \in Seq(Int), Len(s) = Len(t),
           \A k \in 1 .. Len(s) : s[k] <= t[k]
    PROVE  Total(s) <= Total(t) /\ Total(s) \in Int /\ Total(t) \in Int
<1> DEFINE n == Len(s)
<1>1. n \in Nat /\ \A k \in 1 .. n : s[k] \in Int /\ t[k] \in Int
  OBVIOUS
<1>2. PICK f : IsRunning(f, s) /\ Total(s) = f[n]
  BY TotalRuns
<1>3. PICK g : IsRunning(g, t) /\ Total(t) = g[n]
  BY TotalRuns
<1>4. /\ f \in [0 .. n -> Int] /\ f[0] = 0 /\ \A k \in 1 .. n : f[k] = f[k - 1] + s[k]
      /\ g \in [0 .. n -> Int] /\ g[0] = 0 /\ \A k \in 1 .. n : g[k] = g[k - 1] + t[k]
  BY <1>2, <1>3 DEF IsRunning
<1>a. \A k \in 1 .. n : s[k] <= t[k]
  OBVIOUS
<1> HIDE DEF n
<1> DEFINE T == { k \in 0 .. n : f[k] <= g[k] }
<1>5. 0 \in T
  BY <1>1, <1>4
<1>6. ASSUME NEW k \in 0 .. n - 1, k \in T PROVE k + 1 \in T
  <2> DEFINE a == f[k]
             b == g[k]
             x == s[k + 1]
             y == t[k + 1]
  <2>1. k + 1 \in 1 .. n /\ k + 1 - 1 = k /\ k \in 0 .. n /\ k + 1 \in 0 .. n
    BY <1>1
  <2>2. f[k + 1] = a + x /\ g[k + 1] = b + y
    BY <1>4, <2>1
  <2>3. a \in Int /\ b \in Int /\ x \in Int /\ y \in Int
    BY <1>1, <1>4, <2>1
  <2>4. a <= b /\ x <= y
    BY <1>6, <1>a, <2>1
  <2>5. a + x <= b + y
    <3> HIDE DEF a, b, x, y
    <3> QED BY <2>3, <2>4
  <2> QED BY <2>1, <2>2, <2>5
<1>7. \A k \in 0 .. n : k \in T
  <2> HIDE DEF T
  <2> QED BY <1>1, <1>5, <1>6, InductionUpTo
<1>8. n \in 0 .. n
  BY <1>1
<1> QED BY <1>2, <1>3, <1>4, <1>7, <1>8 DEF n

\* A list that has one amount and zeros beside it sums to that amount.
LEMMA TotalOfOnly ==
    ASSUME NEW s \in Seq(Int), NEW i \in DOMAIN s, \A k \in DOMAIN s : k # i => s[k] = 0
    PROVE  Total(s) = s[i]
<1> DEFINE n == Len(s)
           f == [k \in 0 .. n |-> IF k < i THEN 0 ELSE s[i]]
<1>1. n \in Nat /\ i \in 1 .. n /\ DOMAIN s = 1 .. n /\ s[i] \in Int
  OBVIOUS
<1>2. f \in [0 .. n -> Int] /\ f[0] = 0 /\ f[n] = s[i]
  BY <1>1
<1>3. ASSUME NEW k \in 1 .. n PROVE f[k] = f[k - 1] + s[k]
  <2>1. k \in 0 .. n /\ k - 1 \in 0 .. n /\ (k # i => s[k] = 0)
    BY <1>1
  <2>2. CASE k < i
    <3>1. f[k] = 0 /\ f[k - 1] = 0 /\ s[k] = 0
      BY <1>1, <2>1, <2>2
    <3> QED BY <3>1
  <2>3. CASE k = i
    <3>1. f[k] = s[i] /\ f[k - 1] = 0 /\ s[k] = s[i]
      BY <1>1, <2>1, <2>3
    <3> QED BY <1>1, <3>1
  <2>4. CASE k > i
    <3>1. f[k] = s[i] /\ f[k - 1] = s[i] /\ s[k] = 0
      BY <1>1, <2>1, <2>4
    <3> QED BY <1>1, <3>1
  <2> QED BY <1>1, <2>2, <2>3, <2>4
<1>4. IsRunning(f, s)
  <2> HIDE DEF f
  <2> QED BY <1>2, <1>3 DEF IsRunning
<1> HIDE DEF f
<1> QED BY <1>2, <1>4, TotalIs

\* What is counted of the figures w at the places A.
Counted(w, A) == Total([k \in DOMAIN w |-> IF k \in A THEN w[k] ELSE 0])

LEMMA CountedType ==
    ASSUME NEW w \in Seq(Int), NEW A
    PROVE  Counted(w, A) \in Int
<1> DEFINE s == [k \in DOMAIN w |-> IF k \in A THEN w[k] ELSE 0]
<1>1. s \in Seq(Int)
  OBVIOUS
<1> QED BY <1>1, TotalType DEF Counted

\* Nothing counted is zero.
LEMMA CountedNone ==
    ASSUME NEW w \in Seq(Int), NEW A, \A k \in DOMAIN w : k \in A => w[k] = 0
    PROVE  Counted(w, A) = 0
<1> DEFINE s == [k \in DOMAIN w |-> IF k \in A THEN w[k] ELSE 0]
<1>1. s \in Seq(Int) /\ \A k \in DOMAIN s : s[k] = 0
  OBVIOUS
<1> HIDE DEF s
<1> QED BY <1>1, TotalOfNone DEF Counted, s

\* One more place counted.
LEMMA CountedOneMore ==
    ASSUME NEW w \in Seq(Int), NEW A, NEW i \in DOMAIN w, i \notin A
    PROVE  Counted(w, A \cup {i}) = Counted(w, A) + w[i]
<1> DEFINE n == Len(w)
           s == [k \in DOMAIN w |-> IF k \in A THEN w[k] ELSE 0]
           d == [k \in DOMAIN w |-> IF k = i THEN w[i] ELSE 0]
           t == [k \in DOMAIN w |-> IF k \in A \cup {i} THEN w[k] ELSE 0]
<1>1. n \in Nat /\ DOMAIN w = 1 .. n /\ i \in 1 .. n /\ \A k \in 1 .. n : w[k] \in Int
  OBVIOUS
<1> HIDE DEF n
<1>2. /\ s \in Seq(Int) /\ d \in Seq(Int) /\ t \in Seq(Int)
      /\ Len(s) = n /\ Len(d) = n /\ Len(t) = n /\ DOMAIN d = 1 .. n
  BY <1>1
<1>3. \A k \in 1 .. n : t[k] = s[k] + d[k]
  BY <1>1
<1>4. d[i] = w[i] /\ \A k \in DOMAIN d : k # i => d[k] = 0
  BY <1>1
<1> HIDE DEF s, d, t
<1>5. Total(t) = Total(s) + Total(d)
  <2>1. Len(s) = Len(d) /\ Len(t) = Len(s) /\ \A k \in 1 .. Len(s) : t[k] = s[k] + d[k]
    BY <1>2, <1>3
  <2> QED BY <1>2, <2>1, TotalOfSums
<1>6. Total(d) = w[i]
  BY <1>1, <1>2, <1>4, TotalOfOnly
<1> QED BY <1>5, <1>6 DEF Counted, s, t

\* Two sets of places that differ in places that count for nothing.
LEMMA CountedSame ==
    ASSUME NEW w \in Seq(Int), NEW A, NEW B,
           \A k \in DOMAIN w : (k \in A <=> k \in B) \/ w[k] = 0
    PROVE  Counted(w, A) = Counted(w, B)
<1>1. [k \in DOMAIN w |-> IF k \in A THEN w[k] ELSE 0] =
        [k \in DOMAIN w |-> IF k \in B THEN w[k] ELSE 0]
  OBVIOUS
<1> QED BY <1>1 DEF Counted

\* A figure of every line that is kept sums to what is counted at the places named.
LEMMA TotalOfKept ==
    ASSUME NEW S, NEW list \in Seq(S), NEW places, NEW f \in [S -> Int]
    PROVE  /\ Kept(list, places) \in Seq(S)
           /\ Total([i \in DOMAIN Kept(list, places) |-> f[Kept(list, places)[i]]]) =
                Counted([i \in DOMAIN list |-> f[list[i]]], places)
<1> DEFINE n == Len(list)
           w == [i \in DOMAIN list |-> f[list[i]]]
           s == [k \in DOMAIN w |-> IF k \in places THEN w[k] ELSE 0]
           of(kept) == [i \in DOMAIN kept |-> f[kept[i]]]
<1>1. n \in Nat /\ DOMAIN list = 1 .. n /\ \A k \in 1 .. n : list[k] \in S
  OBVIOUS
<1>2. PICK kept : IsKeeping(kept, S, list, places) /\ Kept(list, places) = kept[n]
  BY KeptRuns
<1>3. /\ kept \in [0 .. n -> Seq(S)] /\ kept[0] = <<>>
      /\ \A k \in 1 .. n :
            kept[k] = IF k \in places THEN Append(kept[k - 1], list[k]) ELSE kept[k - 1]
  BY <1>2 DEF IsKeeping
<1> HIDE DEF n
<1>4. /\ s \in Seq(Int) /\ Len(s) = n
      /\ \A k \in 1 .. n : s[k] = IF k \in places THEN f[list[k]] ELSE 0
  BY <1>1
<1> HIDE DEF s, w
<1>5. PICK g : IsRunning(g, s) /\ Total(s) = g[n]
  BY <1>4, TotalRuns
<1>6. g \in [0 .. n -> Int] /\ g[0] = 0 /\ \A k \in 1 .. n : g[k] = g[k - 1] + s[k]
  BY <1>4, <1>5 DEF IsRunning
<1> DEFINE T == { k \in 0 .. n : Total(of(kept[k])) = g[k] }
<1>7. 0 \in T
  <2>1. of(<<>>) \in Seq(Int) /\ \A k \in DOMAIN of(<<>>) : of(<<>>)[k] = 0
    OBVIOUS
  <2>2. Total(of(<<>>)) = 0
    <3> HIDE DEF of
    <3> QED BY <2>1, TotalOfNone
  <2> HIDE DEF of
  <2>3. 0 \in 0 .. n
    BY <1>1
  <2> QED BY <1>3, <1>6, <2>2, <2>3
<1>8. ASSUME NEW k \in 0 .. n - 1, k \in T PROVE k + 1 \in T
  <2>1. k + 1 \in 1 .. n /\ k + 1 - 1 = k /\ k \in 0 .. n /\ k + 1 \in 0 .. n
    BY <1>1
  <2>2. kept[k] \in Seq(S) /\ list[k + 1] \in S /\ g[k] \in Int
    BY <1>1, <1>3, <1>6, <2>1
  <2>3. kept[k + 1] = IF k + 1 \in places THEN Append(kept[k], list[k + 1]) ELSE kept[k]
    BY <1>3, <2>1
  <2>4. g[k + 1] = g[k] + s[k + 1]
    BY <1>6, <2>1
  <2>5. Total(of(kept[k])) = g[k]
    BY <1>8
  <2>6. CASE k + 1 \in places
    <3>1. kept[k + 1] = Append(kept[k], list[k + 1]) /\ s[k + 1] = f[list[k + 1]]
      BY <1>4, <2>1, <2>3, <2>6
    <3>2. ASSUME NEW a \in Seq(S), NEW e \in S
          PROVE  /\ Total([i \in DOMAIN a |-> f[a[i]]]) \in Int
                 /\ Total([i \in DOMAIN Append(a, e) |-> f[Append(a, e)[i]]]) =
                        Total([i \in DOMAIN a |-> f[a[i]]]) + f[e]
      BY TotalOfAppended, ZenonT(60)
    <3>3. \A a \in Seq(S), e \in S : Total(of(Append(a, e))) = Total(of(a)) + f[e]
      BY <3>2
    <3> HIDE DEF of
    <3>4. Total(of(Append(kept[k], list[k + 1]))) = Total(of(kept[k])) + f[list[k + 1]]
      BY <2>2, <3>3
    <3> QED BY <2>1, <2>4, <2>5, <3>1, <3>4
  <2>7. CASE k + 1 \notin places
    <3>1. kept[k + 1] = kept[k] /\ s[k + 1] = 0
      BY <1>4, <2>1, <2>3, <2>7
    <3>2. g[k + 1] = g[k]
      BY <2>2, <2>4, <3>1
    <3> HIDE DEF of
    <3> QED BY <2>1, <2>5, <3>1, <3>2
  <2> QED BY <2>6, <2>7
<1>9. \A k \in 0 .. n : k \in T
  <2> HIDE DEF T
  <2> QED BY <1>1, <1>7, <1>8, InductionUpTo
<1>10. n \in 0 .. n
  BY <1>1
<1>11. Total(of(kept[n])) = Total(s) /\ kept[n] \in Seq(S)
  <2> HIDE DEF of
  <2> QED BY <1>3, <1>5, <1>9, <1>10
<1> QED BY <1>2, <1>11 DEF Counted, s, w

\* rank goes up along a list.
Rising(list, rank) == \A i, j \in DOMAIN list : i < j => rank[list[i]] < rank[list[j]]

\* What is kept of a list stands in the order of the list.
LEMMA KeptInOrder ==
    ASSUME NEW S, NEW list \in Seq(S), NEW places, NEW rank \in [S -> Int], Rising(list, rank)
    PROVE  Rising(Kept(list, places), rank)
<1> DEFINE n == Len(list)
<1>1. n \in Nat /\ DOMAIN list = 1 .. n /\ \A k \in 1 .. n : list[k] \in S
  OBVIOUS
<1>2. PICK kept : IsKeeping(kept, S, list, places) /\ Kept(list, places) = kept[n]
  BY KeptRuns
<1>3. /\ kept \in [0 .. n -> Seq(S)] /\ kept[0] = <<>>
      /\ \A k \in 1 .. n :
            kept[k] = IF k \in places THEN Append(kept[k - 1], list[k]) ELSE kept[k - 1]
  BY <1>2 DEF IsKeeping
<1> HIDE DEF n
<1> DEFINE Good(k) == Rising(kept[k], rank) /\ ToSet(kept[k]) \subseteq { list[i] : i \in 1 .. k }
           T == { k \in 0 .. n : Good(k) }
<1>4. 0 \in T
  <2>1. Rising(<<>>, rank) /\ ToSet(<<>>) = {}
    BY DEF Rising, ToSet
  <2>2. 0 \in 0 .. n
    BY <1>1
  <2> QED BY <1>3, <2>1, <2>2
<1>5. ASSUME NEW k \in 0 .. n - 1, k \in T PROVE k + 1 \in T
  <2>1. k + 1 \in 1 .. n /\ k + 1 - 1 = k /\ k \in 0 .. n /\ k + 1 \in 0 .. n
    BY <1>1
  <2>2. kept[k] \in Seq(S) /\ list[k + 1] \in S
    BY <1>1, <1>3, <2>1
  <2>3. kept[k + 1] = IF k + 1 \in places THEN Append(kept[k], list[k + 1]) ELSE kept[k]
    BY <1>3, <2>1
  <2>4. Good(k)
    BY <1>5
  <2>5. { list[i] : i \in 1 .. k } \subseteq { list[i] : i \in 1 .. k + 1 }
        /\ list[k + 1] \in { list[i] : i \in 1 .. k + 1 }
    BY <1>1
  <2>6. \A x \in ToSet(kept[k]) : rank[x] < rank[list[k + 1]]
    <3>1. \A i \in 1 .. k : i \in 1 .. n /\ i < k + 1
      BY <1>1
    <3>2. \A i \in 1 .. k : rank[list[i]] < rank[list[k + 1]]
      BY <1>1, <2>1, <3>1 DEF Rising
    <3> QED BY <2>4, <3>2
  <2>7. CASE k + 1 \in places
    <3> DEFINE s == kept[k]
               more == Append(s, list[k + 1])
    <3>1. kept[k + 1] = more
      BY <2>3, <2>7
    <3>2. /\ DOMAIN more = 1 .. Len(s) + 1 /\ DOMAIN s = 1 .. Len(s) /\ Len(s) \in Nat
          /\ more[Len(s) + 1] = list[k + 1] /\ \A i \in 1 .. Len(s) : more[i] = s[i]
      BY <2>2
    <3>3. ToSet(more) = ToSet(s) \cup {list[k + 1]}
      BY <2>2, AppendedOne
    <3>4. \A i \in 1 .. Len(s) : s[i] \in ToSet(s)
      BY <3>2 DEF ToSet
    <3>5. Rising(s, rank)
      BY <2>4
    <3> HIDE DEF more, s
    <3>6. Rising(more, rank)
      <4> SUFFICES ASSUME NEW i \in 1 .. Len(s) + 1, NEW j \in 1 .. Len(s) + 1, i < j
                   PROVE  rank[more[i]] < rank[more[j]]
        BY <3>2 DEF Rising
      <4>1. i \in 1 .. Len(s) /\ more[i] = s[i] /\ s[i] \in ToSet(s)
        BY <3>2, <3>4
      <4>2. CASE j = Len(s) + 1
        BY <2>6, <3>2, <4>1, <4>2 DEF s
      <4>3. CASE j # Len(s) + 1
        <5>1. j \in 1 .. Len(s)
          BY <3>2, <4>3
        <5>2. more[j] = s[j]
          BY <3>2, <5>1
        <5> QED BY <3>2, <3>5, <4>1, <5>1, <5>2 DEF Rising
      <4> QED BY <4>2, <4>3
    <3>7. ToSet(kept[k + 1]) \subseteq { list[i] : i \in 1 .. k + 1 }
      BY <2>4, <2>5, <3>1, <3>3 DEF s
    <3>8. Good(k + 1)
      BY <3>1, <3>6, <3>7
    <3> HIDE DEF Good
    <3> QED BY <2>1, <3>8
  <2>8. CASE k + 1 \notin places
    BY <2>1, <2>3, <2>4, <2>5, <2>8
  <2> QED BY <2>7, <2>8
<1>6. \A k \in 0 .. n : k \in T
  <2> HIDE DEF T
  <2> QED BY <1>1, <1>4, <1>5, InductionUpTo
<1>7. n \in 0 .. n
  BY <1>1
<1> QED BY <1>2, <1>6, <1>7

----------------------------------------------------------------------------
----------------------------------------------------------------------------
(* The reading of orders.jsonl: the order in which its lines are replayed, *)
(* the rungs they leave, and the fills booked on a rung.                   *)

\* A set of lines with the fields the selectors read.
AreLines(S) ==
    \A r \in S :
        /\ r.at \in Int /\ r.quantity \in Nat
        /\ r.kind = "orderPlaced" => r.observed \in Nat

ByStamp(lines) == \A i, j \in DOMAIN lines : i <= j => lines[i].at <= lines[j].at

\* A set of places with all that come before any of them is an initial segment.
LEMMA InitialSegment ==
    ASSUME NEW n \in Nat, NEW E \in SUBSET (1 .. n), \A i \in E : \A j \in 1 .. i : j \in E
    PROVE  /\ Cardinality(E) \in 0 .. n
           /\ E = 1 .. Cardinality(E)
<1> DEFINE Out == { m \in 1 .. n : m \notin E }
<1>1. CASE Out = {}
  <2>1. E = 1 .. n
    BY <1>1
  <2>2. Cardinality(1 .. n) = n
    BY FS_Interval
  <2> QED BY <2>1, <2>2
<1>2. CASE Out # {}
  <2>1. Out \in SUBSET Nat
    OBVIOUS
  <2> HIDE DEF Out
  <2>2. PICK m \in Out : \A k \in Out : m <= k
    BY <1>2, <2>1, LeastMember
  <2> USE DEF Out
  <2>3. m \in 1 .. n /\ m \notin E
    BY <2>2
  <2>4. \A i \in 1 .. m - 1 : i \in E
    BY <2>2, <2>3
  <2>5. \A i \in E : i \in 1 .. m - 1
    <3> SUFFICES ASSUME NEW i \in E PROVE i < m
      BY <2>3
    <3>1. m \in 1 .. i => m \in E
      OBVIOUS
    <3> QED BY <2>3, <3>1
  <2>6. E = 1 .. m - 1
    BY <2>4, <2>5
  <2>7. Cardinality(1 .. m - 1) = m - 1
    BY <2>3, FS_Interval
  <2> QED BY <2>3, <2>6, <2>7
<1> QED BY <1>1, <1>2

\* A line has come after the first e lines, which are those that are not later.
IsInserted(new, lines, r, e) ==
    /\ \A i \in 1 .. Len(lines) : i <= e <=> lines[i].at <= r.at
    /\ \A i \in 1 .. e : new[i] = lines[i]
    /\ new[e + 1] = r
    /\ \A i \in e + 1 .. Len(lines) : new[i + 1] = lines[i]

\* A line is inserted after those that are not later, and nothing else moves.
LEMMA InsertedLine ==
    ASSUME NEW S, AreLines(S), NEW lines \in Seq(S), NEW r \in S, ByStamp(lines)
    PROVE  /\ Inserted(lines, r) \in Seq(S)
           /\ Len(Inserted(lines, r)) = Len(lines) + 1
           /\ ToSet(Inserted(lines, r)) = ToSet(lines) \cup {r}
           /\ ByStamp(Inserted(lines, r))
           /\ \E e \in 0 .. Len(lines) : IsInserted(Inserted(lines, r), lines, r, e)
<1> DEFINE n == Len(lines)
           E == { i \in DOMAIN lines : lines[i].at <= r.at }
           e == Cardinality(E)
           new == Inserted(lines, r)
<1>1. n \in Nat /\ DOMAIN lines = 1 .. n /\ \A i \in 1 .. n : lines[i] \in S
  OBVIOUS
<1>2. r.at \in Int /\ \A i \in 1 .. n : lines[i].at \in Int
  BY <1>1 DEF AreLines
<1>3. \A i, j \in 1 .. n : i <= j => lines[i].at <= lines[j].at
  BY <1>1 DEF ByStamp
<1>4. \A i \in E : \A j \in 1 .. i : j \in E
  BY <1>1, <1>2, <1>3
<1>5. e \in 0 .. n /\ E = 1 .. e
  <2>1. E \in SUBSET (1 .. n)
    BY <1>1
  <2> HIDE DEF E, n
  <2> QED BY <1>1, <1>4, <2>1, InitialSegment
<1>6. /\ new \in Seq(S) /\ Len(new) = n + 1 /\ new[e + 1] = r
      /\ \A i \in 1 .. e : new[i] = lines[i]
      /\ \A i \in e + 1 .. n : new[i + 1] = lines[i]
  <2> DEFINE a == SubSeq(lines, 1, e)
             b == <<r>>
             c == SubSeq(lines, e + 1, n)
  <2>1. new = a \o b \o c
    BY DEF Inserted
  <2> HIDE DEF E, e, new
  <2>2. a \in Seq(S) /\ Len(a) = e /\ \A i \in 1 .. e : a[i] = lines[i]
    BY <1>1, <1>5, LinesOfPart
  <2>3. b \in Seq(S) /\ Len(b) = 1 /\ b[1] = r
    OBVIOUS
  <2>4. c \in Seq(S) /\ Len(c) = n - e /\ \A i \in 1 .. n - e : c[i] = lines[e + i]
    BY <1>1, <1>5, LinesOfPart
  <2> HIDE DEF a, b, c, n
  <2>5. /\ a \o b \in Seq(S) /\ Len(a \o b) = e + 1 /\ (a \o b)[e + 1] = r
        /\ \A i \in 1 .. e : (a \o b)[i] = lines[i]
    <3>1. Len(a \o b) = e + 1 /\ \A i \in 1 .. 1 : (a \o b)[e + i] = b[i]
      BY <1>5, <2>2, <2>3, LinesOfBoth
    <3>2. (a \o b)[e + 1] = r
      <4> DEFINE k == 1
      <4>1. k \in 1 .. 1 /\ k = 1
        OBVIOUS
      <4> HIDE DEF k
      <4>2. (a \o b)[e + k] = b[k]
        BY <3>1, <4>1
      <4> QED BY <2>3, <4>1, <4>2
    <3> QED BY <2>2, <2>3, <3>1, <3>2, LinesOfBoth
  <2> DEFINE d == a \o b
  <2> HIDE DEF d
  <2>6. d \in Seq(S) /\ Len(d) = e + 1 /\ d[e + 1] = r /\ \A i \in 1 .. e : d[i] = lines[i]
    BY <2>5 DEF d
  <2>7. /\ d \o c \in Seq(S) /\ Len(d \o c) = n + 1
        /\ \A i \in 1 .. e + 1 : (d \o c)[i] = d[i]
        /\ \A i \in 1 .. n - e : (d \o c)[e + 1 + i] = c[i]
    <3>1. e + 1 + (n - e) = n + 1
      BY <1>1, <1>5
    <3>2. /\ d \o c \in Seq(S) /\ Len(d \o c) = Len(d) + Len(c)
          /\ \A i \in 1 .. Len(d) : (d \o c)[i] = d[i]
          /\ \A i \in 1 .. Len(c) : (d \o c)[Len(d) + i] = c[i]
      <4>1. d \in Seq(S)
        BY <2>6
      <4>2. c \in Seq(S)
        BY <2>4
      <4> QED BY <4>1, <4>2, LinesOfBoth
    <3>3. Len(d) = e + 1 /\ Len(c) = n - e
      BY <2>4, <2>6
    <3>4. Len(d \o c) = n + 1
      BY <3>1, <3>2, <3>3
    <3>5. /\ \A i \in 1 .. e + 1 : (d \o c)[i] = d[i]
          /\ \A i \in 1 .. n - e : (d \o c)[e + 1 + i] = c[i]
      BY <3>2, <3>3, Zenon
    <3> QED BY <3>2, <3>4, <3>5, Zenon
  <2>8. ASSUME NEW i \in e + 1 .. n PROVE (d \o c)[i + 1] = lines[i]
    <3> DEFINE j == i - e
    <3>1. j \in 1 .. n - e /\ e + 1 + j = i + 1 /\ e + j = i
      BY <1>1, <1>5
    <3> HIDE DEF j
    <3>2. (d \o c)[e + 1 + j] = c[j] /\ c[j] = lines[e + j]
      BY <2>4, <2>7, <3>1
    <3> QED BY <3>1, <3>2
  <2>9. e + 1 \in 1 .. e + 1 /\ \A i \in 1 .. e : i \in 1 .. e + 1
    BY <1>1, <1>5
  <2> QED BY <2>1, <2>6, <2>7, <2>8, <2>9 DEF d
<1>7. \A k \in 1 .. n + 1 : k \in 1 .. e \/ k = e + 1 \/ (k - 1 \in e + 1 .. n /\ k = k - 1 + 1)
  BY <1>1, <1>5
<1>8. \A i \in 1 .. n : i \in 1 .. e <=> lines[i].at <= r.at
  BY <1>1, <1>5
<1> HIDE DEF E, e, new, n
<1>9. ToSet(new) = ToSet(lines) \cup {r}
  <2>1. ASSUME NEW x \in ToSet(new) PROVE x \in ToSet(lines) \cup {r}
    <3>1. PICK k \in 1 .. n + 1 : x = new[k]
      BY <1>6 DEF ToSet
    <3>2. CASE k \in 1 .. e
      BY <1>1, <1>5, <1>6, <3>1, <3>2 DEF ToSet
    <3>3. CASE k = e + 1
      BY <1>6, <3>1, <3>3
    <3>4. CASE k - 1 \in e + 1 .. n /\ k = k - 1 + 1
      <4>1. new[k - 1 + 1] = lines[k - 1] /\ k - 1 \in 1 .. n
        BY <1>5, <1>6, <3>4
      <4> QED BY <1>1, <3>1, <3>4, <4>1 DEF ToSet
    <3> QED BY <1>7, <3>2, <3>3, <3>4
  <2>2. ASSUME NEW i \in 1 .. n PROVE lines[i] \in ToSet(new)
    <3>1. i \in 1 .. e \/ i \in e + 1 .. n
      BY <1>1, <1>5
    <3>2. i \in 1 .. n + 1 /\ i + 1 \in 1 .. n + 1
      BY <1>1
    <3> QED BY <1>6, <3>1, <3>2 DEF ToSet
  <2>3. r \in ToSet(new)
    <3>1. e + 1 \in 1 .. n + 1
      BY <1>1, <1>5
    <3> QED BY <1>6, <3>1 DEF ToSet
  <2> QED BY <1>1, <2>1, <2>2, <2>3 DEF ToSet
<1>10. ASSUME NEW k \in 1 .. n + 1, NEW l \in 1 .. n + 1, k <= l PROVE new[k].at <= new[l].at
  <2>1. CASE k \in 1 .. e /\ l \in 1 .. e
    BY <1>1, <1>3, <1>5, <1>6, <1>10, <2>1
  <2>2. CASE k \in 1 .. e /\ l = e + 1
    BY <1>1, <1>5, <1>6, <1>8, <2>2
  <2>3. CASE k \in 1 .. e /\ l - 1 \in e + 1 .. n
    <3>1. l = l - 1 + 1 /\ l - 1 \in 1 .. n /\ k \in 1 .. n /\ k <= l - 1
      BY <1>1, <1>5, <2>3
    <3>2. new[l - 1 + 1] = lines[l - 1] /\ new[k] = lines[k]
      BY <1>6, <2>3
    <3> QED BY <1>3, <3>1, <3>2
  <2>4. CASE k = e + 1 /\ l = e + 1
    BY <1>2, <1>6, <2>4
  <2>5. CASE k = e + 1 /\ l - 1 \in e + 1 .. n
    <3>1. l - 1 \in 1 .. n /\ l - 1 \notin 1 .. e /\ new[l] = lines[l - 1]
      BY <1>1, <1>5, <1>6, <2>5
    <3> QED BY <1>2, <1>6, <1>8, <2>5, <3>1
  <2>6. CASE k - 1 \in e + 1 .. n /\ l - 1 \in e + 1 .. n
    <3>1. /\ new[k] = lines[k - 1] /\ new[l] = lines[l - 1]
          /\ k - 1 \in 1 .. n /\ l - 1 \in 1 .. n /\ k - 1 <= l - 1
      BY <1>1, <1>5, <1>6, <1>10, <2>6
    <3> QED BY <1>3, <3>1
  <2> QED BY <1>1, <1>5, <1>7, <1>10, <2>1, <2>2, <2>3, <2>4, <2>5, <2>6
<1>11. ByStamp(new)
  <2>1. DOMAIN new = 1 .. n + 1
    BY <1>6
  <2> QED BY <1>10, <2>1 DEF ByStamp
<1>12. \A i \in 1 .. n : i <= e <=> lines[i].at <= r.at
  <2>1. \A i \in 1 .. n : i \in 1 .. e <=> i <= e
    BY <1>1, <1>5
  <2> QED BY <1>8, <2>1
<1>13. IsInserted(new, lines, r, e)
  BY <1>5, <1>6, <1>12 DEF IsInserted, n
<1> QED BY <1>5, <1>6, <1>9, <1>11, <1>13 DEF n, new
----------------------------------------------------------------------------
\* f is the sorting of a list, one line after another.
IsSort(f, S, records) ==
    /\ f \in [0 .. Len(records) -> { s \in Seq(S) : ByStamp(s) }] /\ f[0] = <<>>
    /\ \A k \in 1 .. Len(records) : f[k] = Inserted(f[k - 1], records[k])

LEMMA SortRuns ==
    ASSUME NEW S, AreLines(S), NEW records \in Seq(S)
    PROVE  \E f : IsSort(f, S, records) /\ ReplayOrder(records) = f[Len(records)]
<1> DEFINE n == Len(records)
           fold == CHOOSE f : f = [k \in 0 .. n |->
                        IF k = 0 THEN <<>> ELSE Inserted(f[k - 1], records[k])]
           Sorted == { s \in Seq(S) : ByStamp(s) }
           step == [x \in Sorted \X (1 .. n) |-> Inserted(x[1], records[x[2]])]
<1>1. n \in Nat /\ DOMAIN records = 1 .. n /\ \A k \in 1 .. n : records[k] \in S
  OBVIOUS
<1>2. ReplayOrder(records) = fold[n]
  BY DEF ReplayOrder
<1>3. \A s \in Sorted, r \in S : Inserted(s, r) \in Sorted
  BY InsertedLine
<1>4. <<>> \in Sorted
  <2>1. <<>> \in Seq(S) /\ DOMAIN <<>> = {}
    OBVIOUS
  <2> QED BY <2>1 DEF ByStamp
<1> HIDE DEF n, Sorted
<1>5. step \in [Sorted \X (1 .. n) -> Sorted]
  BY <1>1, <1>3
<1>6. PICK f : IsFold(f, Sorted, n, <<>>, step)
  <2> HIDE DEF step
  <2> QED BY <1>1, <1>4, <1>5, FoldExists
<1>7. \A k \in 1 .. n : k - 1 \in 0 .. n /\ f[k - 1] \in Sorted
  BY <1>1, <1>6 DEF IsFold
<1>8. \A k \in 1 .. n : f[k] = Inserted(f[k - 1], records[k])
  BY <1>6, <1>7 DEF IsFold
<1>9. f = [k \in 0 .. n |-> IF k = 0 THEN <<>> ELSE Inserted(f[k - 1], records[k])]
  BY <1>1, <1>6, <1>8 DEF IsFold
<1>10. fold = [k \in 0 .. n |-> IF k = 0 THEN <<>> ELSE Inserted(fold[k - 1], records[k])]
  BY <1>9
<1> HIDE DEF fold, step
<1>11. fold[0] = <<>> /\ \A k \in 1 .. n : fold[k] = Inserted(fold[k - 1], records[k])
  BY <1>1, <1>10
<1> DEFINE T == { k \in 0 .. n : fold[k] = f[k] }
<1>12. 0 \in T
  BY <1>1, <1>6, <1>11 DEF IsFold
<1>13. ASSUME NEW k \in 0 .. n - 1, k \in T PROVE k + 1 \in T
  <2>1. k + 1 \in 1 .. n /\ k + 1 - 1 = k /\ k + 1 \in 0 .. n
    BY <1>1
  <2>2. fold[k + 1] = Inserted(fold[k], records[k + 1])
    <3>1. fold[k + 1] = Inserted(fold[k + 1 - 1], records[k + 1])
      BY <1>11, <2>1
    <3> QED BY <2>1, <3>1
  <2>3. f[k + 1] = Inserted(f[k], records[k + 1])
    <3>1. f[k + 1] = Inserted(f[k + 1 - 1], records[k + 1])
      BY <1>8, <2>1
    <3> QED BY <2>1, <3>1
  <2> QED BY <1>13, <2>1, <2>2, <2>3
<1>14. \A k \in 0 .. n : fold[k] = f[k]
  <2> HIDE DEF T
  <2>1. \A k \in 0 .. n : k \in T
    BY <1>1, <1>12, <1>13, InductionUpTo
  <2> QED BY <2>1 DEF T
<1>15. IsSort(f, S, records)
  BY <1>6, <1>8 DEF IsSort, IsFold, Sorted, n
<1> QED BY <1>1, <1>2, <1>14, <1>15 DEF n

\* It is the sorting of the list, whoever writes it down.
LEMMA SortIs ==
    ASSUME NEW S, AreLines(S), NEW records \in Seq(S), NEW f, IsSort(f, S, records)
    PROVE  ReplayOrder(records) = f[Len(records)]
<1> DEFINE n == Len(records)
<1>1. n \in Nat
  OBVIOUS
<1>2. PICK g : IsSort(g, S, records) /\ ReplayOrder(records) = g[n]
  BY SortRuns
<1> DEFINE T == { k \in 0 .. n : g[k] = f[k] }
<1>3. 0 \in T
  BY <1>1, <1>2 DEF IsSort
<1>4. ASSUME NEW k \in 0 .. n - 1, k \in T PROVE k + 1 \in T
  <2>1. k + 1 \in 1 .. n /\ k + 1 - 1 = k /\ k + 1 \in 0 .. n
    BY <1>1
  <2>2. f[k + 1] = Inserted(f[k + 1 - 1], records[k + 1])
    BY <2>1 DEF IsSort
  <2>3. g[k + 1] = Inserted(g[k + 1 - 1], records[k + 1])
    BY <1>2, <2>1 DEF IsSort
  <2> QED BY <1>4, <2>1, <2>2, <2>3
<1>5. n \in T
  <2> HIDE DEF T
  <2>1. \A k \in 0 .. n : k \in T
    BY <1>1, <1>3, <1>4, InductionUpTo
  <2> QED BY <1>1, <2>1
<1> QED BY <1>2, <1>5

\* The lines are replayed in the order of their stamps, each once and no others.
LEMMA ReplayLines ==
    ASSUME NEW S, AreLines(S), NEW records \in Seq(S)
    PROVE  /\ ReplayOrder(records) \in Seq(S)
           /\ Len(ReplayOrder(records)) = Len(records)
           /\ ToSet(ReplayOrder(records)) = ToSet(records)
           /\ ByStamp(ReplayOrder(records))
<1> DEFINE n == Len(records)
<1>1. n \in Nat /\ DOMAIN records = 1 .. n /\ \A k \in 1 .. n : records[k] \in S
  OBVIOUS
<1>2. PICK f : IsSort(f, S, records) /\ ReplayOrder(records) = f[n]
  BY SortRuns
<1> DEFINE Sorted == { x \in Seq(S) : ByStamp(x) }
<1>3. \A x \in Sorted, r \in S :
        /\ Len(Inserted(x, r)) = Len(x) + 1
        /\ ToSet(Inserted(x, r)) = ToSet(x) \cup {r}
  BY InsertedLine
<1> HIDE DEF n
<1>4. /\ \A k \in 0 .. n : f[k] \in Seq(S) /\ ByStamp(f[k])
      /\ f[0] = <<>> /\ \A k \in 1 .. n : f[k] = Inserted(f[k - 1], records[k])
  BY <1>2 DEF IsSort, n
<1> DEFINE Good(k) == Len(f[k]) = k /\ ToSet(f[k]) = { records[i] : i \in 1 .. k }
           T == { k \in 0 .. n : Good(k) }
<1>5. 0 \in T
  <2>1. Len(<<>>) = 0 /\ ToSet(<<>>) = {} /\ { records[i] : i \in 1 .. 0 } = {}
    BY DEF ToSet
  <2> QED BY <1>1, <1>4, <2>1
<1>6. ASSUME NEW k \in 0 .. n - 1, k \in T PROVE k + 1 \in T
  <2>1. k + 1 \in 1 .. n /\ k + 1 - 1 = k /\ k \in 0 .. n /\ k + 1 \in 0 .. n
    BY <1>1
  <2>2. f[k + 1] = Inserted(f[k], records[k + 1]) /\ records[k + 1] \in S
    <3>1. f[k + 1] = Inserted(f[k + 1 - 1], records[k + 1])
      BY <1>4, <2>1
    <3> QED BY <1>1, <2>1, <3>1
  <2>3. Good(k) /\ f[k] \in Seq(S) /\ ByStamp(f[k])
    BY <1>4, <1>6, <2>1
  <2>4. { records[i] : i \in 1 .. k + 1 } = { records[i] : i \in 1 .. k } \cup {records[k + 1]}
    <3>1. \A i : i \in 1 .. k + 1 <=> i \in 1 .. k \/ i = k + 1
      BY <1>1
    <3> QED BY <3>1
  <2>5. /\ Len(Inserted(f[k], records[k + 1])) = Len(f[k]) + 1
        /\ ToSet(Inserted(f[k], records[k + 1])) = ToSet(f[k]) \cup {records[k + 1]}
    <3>1. f[k] \in Sorted
      BY <2>3
    <3>2. records[k + 1] \in S
      BY <2>2
    <3> HIDE DEF Sorted
    <3> QED BY <1>3, <3>1, <3>2
  <2>6. Good(k + 1)
    BY <2>2, <2>3, <2>4, <2>5
  <2> HIDE DEF Good
  <2> QED BY <2>1, <2>6
<1>7. Good(n)
  <2> HIDE DEF Good
  <2>1. \A k \in 0 .. n : k \in T
    <3> HIDE DEF T
    <3> QED BY <1>1, <1>5, <1>6, InductionUpTo
  <2> QED BY <1>1, <2>1
<1>8. ToSet(records) = { records[i] : i \in 1 .. n }
  BY <1>1 DEF ToSet
<1>9. n \in 0 .. n
  BY <1>1
<1> QED BY <1>2, <1>4, <1>7, <1>8, <1>9 DEF n

\* One more line is inserted into the lines as they were replayed.
LEMMA ReplayAppended ==
    ASSUME NEW S, AreLines(S), NEW records \in Seq(S), NEW r \in S
    PROVE  ReplayOrder(Append(records, r)) = Inserted(ReplayOrder(records), r)
<1> DEFINE n == Len(records)
           more == Append(records, r)
<1>1. /\ n \in Nat /\ more \in Seq(S) /\ Len(more) = n + 1 /\ more[n + 1] = r
      /\ \A k \in 1 .. n : more[k] = records[k]
  OBVIOUS
<1>2. PICK f : IsSort(f, S, records) /\ ReplayOrder(records) = f[n]
  BY SortRuns
<1> HIDE DEF n, more
<1>3. /\ f \in [0 .. n -> { s \in Seq(S) : ByStamp(s) }] /\ f[0] = <<>>
      /\ \A k \in 1 .. n : f[k] = Inserted(f[k - 1], records[k])
  BY <1>2 DEF IsSort, n
<1> DEFINE last == Inserted(f[n], r)
           g == [k \in 0 .. n + 1 |-> IF k <= n THEN f[k] ELSE last]
<1>4. last \in Seq(S) /\ ByStamp(last)
  <2>1. f[n] \in Seq(S) /\ ByStamp(f[n])
    BY <1>1, <1>3
  <2> QED BY <2>1, InsertedLine
<1> HIDE DEF last
<1>5. g \in [0 .. n + 1 -> { s \in Seq(S) : ByStamp(s) }]
  <2>1. \A k \in 0 .. n + 1 : k <= n => k \in 0 .. n
    BY <1>1
  <2> QED BY <1>1, <1>3, <1>4, <2>1
<1>6. /\ g[0] = <<>> /\ g[n + 1] = last
      /\ \A k \in 0 .. n : g[k] = f[k]
  BY <1>1, <1>3
<1> HIDE DEF g
<1>7. ASSUME NEW k \in 1 .. n + 1 PROVE g[k] = Inserted(g[k - 1], more[k])
  <2>1. CASE k \in 1 .. n
    <3>1. k \in 0 .. n /\ k - 1 \in 0 .. n
      BY <1>1, <2>1
    <3> QED BY <1>1, <1>3, <1>6, <2>1, <3>1
  <2>2. CASE k = n + 1
    <3>1. k - 1 = n /\ n \in 0 .. n
      BY <1>1, <2>2
    <3> QED BY <1>1, <1>6, <2>2, <3>1 DEF last
  <2> QED BY <1>1, <2>1, <2>2
<1>8. IsSort(g, S, more)
  BY <1>1, <1>5, <1>6, <1>7 DEF IsSort
<1>9. ReplayOrder(more) = g[n + 1]
  BY <1>1, <1>8, SortIs
<1> QED BY <1>2, <1>6, <1>9 DEF more, last
----------------------------------------------------------------------------
\* What the fold of a file of such lines may be: rungs, each by its placement line.
RungMaps(S) ==
    UNION { [ D -> [placed : S, consumed : Nat] ] : D \in SUBSET { r.id : r \in S } }
Folded(S) ==
    { rungs \in RungMaps(S) : \A id \in DOMAIN rungs :
        rungs[id].placed.id = id /\ rungs[id].placed.kind = "orderPlaced" }

\* Each line makes of such rungs such rungs.
LEMMA ReplayType ==
    ASSUME NEW S, AreLines(S), NEW rungs \in Folded(S), NEW r \in S
    PROVE  Replay(rungs, r) \in Folded(S)
<1> DEFINE Ids == { x.id : x \in S }
           Rung == [placed : S, consumed : Nat]
           D == DOMAIN rungs
<1>1. /\ D \in SUBSET Ids /\ rungs \in [D -> Rung]
      /\ \A id \in D : rungs[id].placed.id = id /\ rungs[id].placed.kind = "orderPlaced"
  BY DEF Folded, RungMaps
<1>2. r.id \in Ids /\ r.quantity \in Nat /\ (r.kind = "orderPlaced" => r.observed \in Nat)
  BY DEF AreLines
<1> HIDE DEF Ids, D, Rung
<1>3. ASSUME NEW E \in SUBSET Ids, NEW f \in [E -> Rung],
             \A id \in E : f[id].placed.id = id /\ f[id].placed.kind = "orderPlaced"
      PROVE  f \in Folded(S)
  <2>1. f \in RungMaps(S)
    BY DEF RungMaps, Ids, Rung
  <2>2. DOMAIN f = E
    OBVIOUS
  <2> QED BY <1>3, <2>1, <2>2 DEF Folded
<1>4. CASE r.kind = "orderPlaced" /\ r.id \notin D
  <2> DEFINE f == [id \in D \cup {r.id} |->
                    IF id = r.id THEN [placed |-> r, consumed |-> r.observed] ELSE rungs[id]]
  <2>1. Replay(rungs, r) = f
    BY <1>4 DEF Replay, D
  <2>2. [placed |-> r, consumed |-> r.observed] \in Rung
    BY <1>2, <1>4 DEF Rung
  <2>3. f \in [D \cup {r.id} -> Rung] /\ D \cup {r.id} \in SUBSET Ids
    BY <1>1, <1>2, <2>2
  <2>4. \A id \in D \cup {r.id} : f[id].placed.id = id /\ f[id].placed.kind = "orderPlaced"
    BY <1>1, <1>4
  <2> HIDE DEF f
  <2> QED BY <1>3, <2>1, <2>3, <2>4
<1>5. CASE r.kind = "orderCancelled"
  <2> DEFINE f == [id \in D \ {r.id} |-> rungs[id]]
  <2>1. Replay(rungs, r) = f
    BY <1>5 DEF Replay, Retire, Restrict, D
  <2>2. f \in [D \ {r.id} -> Rung] /\ D \ {r.id} \in SUBSET Ids
    BY <1>1
  <2>3. \A id \in D \ {r.id} : f[id].placed.id = id /\ f[id].placed.kind = "orderPlaced"
    BY <1>1
  <2> HIDE DEF f
  <2> QED BY <1>3, <2>1, <2>2, <2>3
<1>6. ASSUME r.id \in D, NEW c \in Nat PROVE [rungs EXCEPT ![r.id].consumed = c] \in Folded(S)
  <2> DEFINE f == [rungs EXCEPT ![r.id].consumed = c]
  <2>1. /\ f \in [D -> Rung]
        /\ \A id \in D : f[id].placed = rungs[id].placed
    BY <1>1, <1>6 DEF Rung
  <2>2. \A id \in D : f[id].placed.id = id /\ f[id].placed.kind = "orderPlaced"
    BY <1>1, <2>1
  <2>3. D \in SUBSET Ids /\ f \in [D -> Rung]
    BY <1>1, <2>1
  <2> HIDE DEF f
  <2>4. f \in Folded(S)
    BY <1>3, <2>2, <2>3
  <2> QED BY <2>4 DEF f
<1>7. CASE r.kind = "orderFilled" /\ r.id \in D
  <2>1. rungs[r.id].consumed + r.quantity \in Nat
    BY <1>1, <1>2, <1>7 DEF Rung
  <2>2. Replay(rungs, r) = [rungs EXCEPT ![r.id].consumed = rungs[r.id].consumed + r.quantity]
    BY <1>1, <1>7 DEF Replay, D
  <2> QED BY <1>6, <1>7, <2>1, <2>2
<1>8. CASE r.kind = "orderFillObserved" /\ r.id \in D
  <2>1. Replay(rungs, r) = [rungs EXCEPT ![r.id].consumed = r.quantity]
    BY <1>8 DEF Replay, D
  <2> QED BY <1>2, <1>6, <1>8, <2>1
<1>9. CASE ~ \/ r.kind = "orderPlaced" /\ r.id \notin D
             \/ r.kind = "orderCancelled"
             \/ r.kind = "orderFilled" /\ r.id \in D
             \/ r.kind = "orderFillObserved" /\ r.id \in D
  BY <1>9 DEF Replay, D
<1> QED BY <1>4, <1>5, <1>7, <1>8, <1>9

\* f is the replay of the lines of a file, one after another.
IsReplay(f, S, records) ==
    LET lines == ReplayOrder(records)
    IN  /\ f \in [0 .. Len(records) -> Folded(S)]
        /\ DOMAIN f[0] = {}
        /\ \A k \in 1 .. Len(records) : f[k] = Replay(f[k - 1], lines[k])

LEMMA FoldReplays ==
    ASSUME NEW S, AreLines(S), NEW records \in Seq(S)
    PROVE  \E f : IsReplay(f, S, records) /\ FoldOrderStream(records) = f[Len(records)]
<1> DEFINE lines == ReplayOrder(records)
           n == Len(lines)
           start == [id \in {} |-> <<>>]
           fold == CHOOSE f : f = [k \in 0 .. n |->
                        IF k = 0 THEN start ELSE Replay(f[k - 1], lines[k])]
           step == [x \in Folded(S) \X (1 .. n) |-> Replay(x[1], lines[x[2]])]
<1>1. lines \in Seq(S) /\ Len(lines) = Len(records)
  BY ReplayLines
<1>2. FoldOrderStream(records) = fold[n]
  BY DEF FoldOrderStream
<1>3. start \in Folded(S)
  <2>1. start \in [{} -> [placed : S, consumed : Nat]] /\ {} \in SUBSET { r.id : r \in S }
    OBVIOUS
  <2>2. start \in RungMaps(S) /\ DOMAIN start = {}
    BY <2>1 DEF RungMaps
  <2> QED BY <2>2 DEF Folded
<1> HIDE DEF lines, start
<1>4. n \in Nat /\ \A k \in 1 .. n : lines[k] \in S
  BY <1>1
<1>5. n = Len(records)
  BY <1>1
<1> HIDE DEF n
<1>6. step \in [Folded(S) \X (1 .. n) -> Folded(S)]
  BY <1>4, ReplayType
<1>7. PICK f : IsFold(f, Folded(S), n, start, step)
  <2> HIDE DEF step
  <2> QED BY <1>3, <1>4, <1>6, FoldExists
<1>8. \A k \in 1 .. n : k - 1 \in 0 .. n /\ f[k - 1] \in Folded(S)
  BY <1>4, <1>7 DEF IsFold
<1>9. \A k \in 1 .. n : f[k] = Replay(f[k - 1], lines[k])
  BY <1>7, <1>8 DEF IsFold
<1>10. f = [k \in 0 .. n |-> IF k = 0 THEN start ELSE Replay(f[k - 1], lines[k])]
  BY <1>4, <1>7, <1>9 DEF IsFold
<1>11. fold = [k \in 0 .. n |-> IF k = 0 THEN start ELSE Replay(fold[k - 1], lines[k])]
  BY <1>10
<1> HIDE DEF fold, step
<1>12. /\ fold[0] = start
       /\ \A k \in 1 .. n : fold[k] = Replay(fold[k - 1], lines[k])
  BY <1>4, <1>11
<1> DEFINE T == { k \in 0 .. n : fold[k] \in Folded(S) }
<1>13. 0 \in T
  BY <1>3, <1>4, <1>12
<1>14. ASSUME NEW k \in 0 .. n - 1, k \in T PROVE k + 1 \in T
  <2>1. k + 1 \in 1 .. n /\ k + 1 - 1 = k /\ k + 1 \in 0 .. n
    BY <1>4
  <2>2. fold[k + 1] = Replay(fold[k], lines[k + 1])
    <3>1. fold[k + 1] = Replay(fold[k + 1 - 1], lines[k + 1])
      BY <1>12, <2>1
    <3> QED BY <2>1, <3>1
  <2>3. fold[k] \in Folded(S) /\ lines[k + 1] \in S
    BY <1>4, <1>14, <2>1
  <2>4. fold[k + 1] \in Folded(S)
    BY <2>2, <2>3, ReplayType
  <2> QED BY <2>1, <2>4
<1>15. \A k \in 0 .. n : k \in T
  <2> HIDE DEF T
  <2> QED BY <1>4, <1>13, <1>14, InductionUpTo
<1>16. DOMAIN start = {}
  BY DEF start
<1>17. IsReplay(fold, S, records)
  BY <1>5, <1>11, <1>12, <1>15, <1>16 DEF IsReplay, lines
<1> QED BY <1>2, <1>5, <1>17

\* The rungs a file leaves are placed by lines of that file.
LEMMA FoldType ==
    ASSUME NEW S, AreLines(S), NEW records \in Seq(S)
    PROVE  /\ FoldOrderStream(records) \in Folded(ToSet(records))
           /\ \A id \in DOMAIN FoldOrderStream(records) :
                LET rung == FoldOrderStream(records)[id]
                IN  /\ rung.placed \in ToSet(records) /\ rung.placed.id = id
                    /\ rung.placed.kind = "orderPlaced" /\ rung.consumed \in Nat
<1> DEFINE L == ToSet(records)
<1>1. records \in Seq(L)
  BY DEF ToSet
<1>2. AreLines(L)
  BY MembersType DEF AreLines
<1>3. PICK f : IsReplay(f, L, records) /\ FoldOrderStream(records) = f[Len(records)]
  BY <1>1, <1>2, FoldReplays
<1>4. Len(records) \in 0 .. Len(records)
  OBVIOUS
<1>5. FoldOrderStream(records) \in Folded(L)
  BY <1>3, <1>4 DEF IsReplay
<1> QED BY <1>5 DEF Folded, RungMaps
----------------------------------------------------------------------------
\* Two readings agree about a rung.
Same(a, b, id) == (id \in DOMAIN a <=> id \in DOMAIN b) /\ (id \in DOMAIN a => a[id] = b[id])

\* A line is about its own rung, and only a placement brings a rung back.
LEMMA ReplayOther ==
    ASSUME NEW S, NEW rungs \in Folded(S), NEW r, NEW id
    PROVE  /\ r.id # id => Same(rungs, Replay(rungs, r), id)
           /\ id \in DOMAIN Replay(rungs, r) /\ id \notin DOMAIN rungs =>
                r.kind = "orderPlaced" /\ r.id = id
<1>0. \E D, T : rungs \in [D -> T]
  BY DEF Folded, RungMaps
<1> DEFINE new == Replay(rungs, r)
<1>1. CASE r.kind = "orderPlaced" /\ r.id \notin DOMAIN rungs
  <2>1. new = [x \in DOMAIN rungs \cup {r.id} |->
                IF x = r.id THEN [placed |-> r, consumed |-> r.observed] ELSE rungs[x]]
    BY <1>1 DEF Replay
  <2> HIDE DEF new
  <2>2. DOMAIN new = DOMAIN rungs \cup {r.id} /\ \A x \in DOMAIN rungs : new[x] = rungs[x]
    BY <1>1, <2>1
  <2> QED BY <1>1, <2>2 DEF Same, new
<1>2. CASE r.kind = "orderCancelled"
  <2>1. new = [x \in DOMAIN rungs \ {r.id} |-> rungs[x]]
    BY <1>2 DEF Replay, Retire, Restrict
  <2> QED BY <2>1 DEF Same
<1>3. CASE r.kind = "orderFilled" /\ r.id \in DOMAIN rungs
  <2>1. \E c : new = [rungs EXCEPT ![r.id].consumed = c]
    BY <1>3 DEF Replay
  <2> QED BY <1>0, <2>1 DEF Same
<1>4. CASE r.kind = "orderFillObserved" /\ r.id \in DOMAIN rungs
  <2>1. \E c : new = [rungs EXCEPT ![r.id].consumed = c]
    BY <1>4 DEF Replay
  <2> QED BY <1>0, <2>1 DEF Same
<1>5. CASE ~ \/ r.kind = "orderPlaced" /\ r.id \notin DOMAIN rungs
             \/ r.kind = "orderCancelled"
             \/ r.kind = "orderFilled" /\ r.id \in DOMAIN rungs
             \/ r.kind = "orderFillObserved" /\ r.id \in DOMAIN rungs
  BY <1>5 DEF Replay, Same
<1> QED BY <1>1, <1>2, <1>3, <1>4, <1>5

\* A line makes the same of a rung whatever the others are.
LEMMA ReplaySame ==
    ASSUME NEW S, NEW a \in Folded(S), NEW b \in Folded(S), NEW r, NEW id, Same(a, b, id)
    PROVE  Same(Replay(a, r), Replay(b, r), id)
<1>1. CASE r.id # id
  <2>1. Same(a, Replay(a, r), id) /\ Same(b, Replay(b, r), id)
    BY <1>1, ReplayOther
  <2> QED BY <2>1 DEF Same
<1>2. CASE r.id = id
  <2>0. (\E D, T : a \in [D -> T]) /\ (\E D, T : b \in [D -> T])
    BY DEF Folded, RungMaps
  <2>1. CASE r.kind = "orderPlaced" /\ id \notin DOMAIN a
    <3> DEFINE new == [placed |-> r, consumed |-> r.observed]
    <3>1. /\ Replay(a, r) = [x \in DOMAIN a \cup {id} |-> IF x = id THEN new ELSE a[x]]
          /\ Replay(b, r) = [x \in DOMAIN b \cup {id} |-> IF x = id THEN new ELSE b[x]]
      BY <1>2, <2>1 DEF Replay, Same
    <3> QED BY <3>1 DEF Same
  <2>2. CASE r.kind = "orderCancelled"
    <3>1. /\ Replay(a, r) = [x \in DOMAIN a \ {id} |-> a[x]]
          /\ Replay(b, r) = [x \in DOMAIN b \ {id} |-> b[x]]
      BY <1>2, <2>2 DEF Replay, Retire, Restrict
    <3> QED BY <3>1 DEF Same
  <2>3. CASE r.kind = "orderFilled" /\ id \in DOMAIN a
    <3>1. /\ Replay(a, r) = [a EXCEPT ![id].consumed = a[id].consumed + r.quantity]
          /\ Replay(b, r) = [b EXCEPT ![id].consumed = b[id].consumed + r.quantity]
      BY <1>2, <2>0, <2>3 DEF Replay, Same
    <3> QED BY <2>0, <2>3, <3>1 DEF Same
  <2>4. CASE r.kind = "orderFillObserved" /\ id \in DOMAIN a
    <3>1. /\ Replay(a, r) = [a EXCEPT ![id].consumed = r.quantity]
          /\ Replay(b, r) = [b EXCEPT ![id].consumed = r.quantity]
      BY <1>2, <2>4 DEF Replay, Same
    <3> QED BY <2>0, <2>4, <3>1 DEF Same
  <2>5. CASE ~ \/ r.kind = "orderPlaced" /\ id \notin DOMAIN a
               \/ r.kind = "orderCancelled"
               \/ r.kind = "orderFilled" /\ id \in DOMAIN a
               \/ r.kind = "orderFillObserved" /\ id \in DOMAIN a
    <3>1. Replay(a, r) = a /\ Replay(b, r) = b
      BY <1>2, <2>5 DEF Replay, Same
    <3> QED BY <3>1
  <2> QED BY <2>1, <2>2, <2>3, <2>4, <2>5
<1> QED BY <1>1, <1>2

\* One more line leaves the other rungs as they were.
LEMMA FoldOther ==
    ASSUME NEW S, AreLines(S), NEW records \in Seq(S), NEW r \in S, NEW id, r.id # id
    PROVE  Same(FoldOrderStream(records), FoldOrderStream(Append(records, r)), id)
<1> DEFINE n == Len(records)
           more == Append(records, r)
           lines == ReplayOrder(records)
           new == ReplayOrder(more)
<1>1. n \in Nat /\ more \in Seq(S) /\ Len(more) = n + 1
  OBVIOUS
<1>2. lines \in Seq(S) /\ Len(lines) = n /\ ByStamp(lines) /\ new = Inserted(lines, r)
  BY ReplayLines, ReplayAppended
<1>3. PICK f : IsReplay(f, S, records) /\ FoldOrderStream(records) = f[n]
  BY FoldReplays
<1>4. PICK g : IsReplay(g, S, more) /\ FoldOrderStream(more) = g[n + 1]
  BY <1>1, FoldReplays
<1> HIDE DEF lines, new, more, n
<1>5. PICK e \in 0 .. n :
        /\ \A i \in 1 .. e : new[i] = lines[i]
        /\ new[e + 1] = r
        /\ \A i \in e + 1 .. n : new[i + 1] = lines[i]
  <2>1. \E e \in 0 .. Len(lines) : IsInserted(Inserted(lines, r), lines, r, e)
    <3>1. lines \in Seq(S)
      BY <1>2
    <3>2. ByStamp(lines)
      BY <1>2
    <3> QED BY <3>1, <3>2, InsertedLine
  <2> QED BY <1>2, <2>1 DEF IsInserted
<1>6. /\ \A k \in 0 .. n : f[k] \in Folded(S)
      /\ DOMAIN f[0] = {}
      /\ \A k \in 1 .. n : f[k] = Replay(f[k - 1], lines[k])
  BY <1>3 DEF IsReplay, lines, n
<1>7. /\ \A k \in 0 .. n + 1 : g[k] \in Folded(S)
      /\ DOMAIN g[0] = {}
      /\ \A k \in 1 .. n + 1 : g[k] = Replay(g[k - 1], new[k])
  BY <1>1, <1>4 DEF IsReplay, new
<1> DEFINE T == { k \in 0 .. e : Same(f[k], g[k], id) }
<1>8. 0 \in T
  BY <1>5, <1>6, <1>7 DEF Same
<1>9. ASSUME NEW k \in 0 .. e - 1, k \in T PROVE k + 1 \in T
  <2>1. /\ k + 1 \in 1 .. e /\ k + 1 - 1 = k /\ k + 1 \in 0 .. e
        /\ k + 1 \in 1 .. n /\ k + 1 \in 1 .. n + 1 /\ k \in 0 .. n /\ k \in 0 .. n + 1
    BY <1>1, <1>5
  <2>2. f[k + 1] = Replay(f[k + 1 - 1], lines[k + 1]) /\ g[k + 1] = Replay(g[k + 1 - 1], new[k + 1])
    BY <1>6, <1>7, <2>1
  <2>3. new[k + 1] = lines[k + 1]
    BY <1>5, <2>1
  <2>4. Same(Replay(f[k], lines[k + 1]), Replay(g[k], lines[k + 1]), id)
    <3>1. f[k] \in Folded(S) /\ g[k] \in Folded(S) /\ Same(f[k], g[k], id)
      BY <1>6, <1>7, <1>9, <2>1
    <3> QED BY <3>1, ReplaySame
  <2>5. Same(f[k + 1], g[k + 1], id)
    BY <2>1, <2>2, <2>3, <2>4
  <2> QED BY <2>1, <2>5
<1>10. Same(f[e], g[e], id)
  <2> HIDE DEF T
  <2>0. e \in Nat
    BY <1>1
  <2>1. \A k \in 0 .. e : k \in T
    BY <1>8, <1>9, <2>0, InductionUpTo
  <2> QED BY <2>0, <2>1 DEF T
<1> DEFINE U == { k \in 0 .. n - e : Same(f[e + k], g[e + k + 1], id) }
<1>11. 0 \in U
  <2>1. e + 1 \in 1 .. n + 1 /\ e + 1 - 1 = e /\ e \in 0 .. n + 1 /\ 0 \in 0 .. n - e /\ e + 0 = e
    BY <1>1, <1>5
  <2>2. g[e + 1] = Replay(g[e + 1 - 1], r) /\ g[e] \in Folded(S)
    BY <1>5, <1>7, <2>1
  <2>3. Same(g[e], Replay(g[e], r), id)
    BY <2>2, ReplayOther
  <2>4. Same(f[e], g[e + 1], id)
    BY <1>10, <2>1, <2>2, <2>3 DEF Same
  <2> QED BY <2>1, <2>4
<1>12. ASSUME NEW k \in 0 .. n - e - 1, k \in U PROVE k + 1 \in U
  <2> DEFINE m == e + k
  <2>1. /\ k + 1 \in 0 .. n - e /\ m + 1 \in e + 1 .. n /\ m + 1 - 1 = m /\ m + 2 - 1 = m + 1
        /\ m + 1 \in 1 .. n /\ m + 2 \in 1 .. n + 1 /\ m \in 0 .. n /\ m + 1 \in 0 .. n + 1
        /\ e + (k + 1) = m + 1 /\ e + (k + 1) + 1 = m + 2 /\ m + 1 + 1 = m + 2
    BY <1>1, <1>5
  <2>2. f[m + 1] = Replay(f[m + 1 - 1], lines[m + 1])
    BY <1>6, <2>1
  <2>3. g[m + 2] = Replay(g[m + 2 - 1], new[m + 2])
    BY <1>7, <2>1
  <2>4. new[m + 1 + 1] = lines[m + 1]
    BY <1>5, <2>1
  <2>5. f[m] \in Folded(S) /\ g[m + 1] \in Folded(S) /\ Same(f[m], g[m + 1], id)
    BY <1>6, <1>7, <1>12, <2>1
  <2> HIDE DEF m
  <2>6. Same(Replay(f[m], lines[m + 1]), Replay(g[m + 1], lines[m + 1]), id)
    BY <2>5, ReplaySame
  <2>7. Same(f[m + 1], g[m + 2], id)
    BY <2>1, <2>2, <2>3, <2>4, <2>6
  <2> QED BY <2>1, <2>7
<1>13. Same(f[n], g[n + 1], id)
  <2>1. n - e \in Nat /\ n - e \in 0 .. n - e /\ e + (n - e) = n
    BY <1>1, <1>5
  <2> HIDE DEF U
  <2>2. \A k \in 0 .. n - e : k \in U
    BY <1>11, <1>12, <2>1, InductionUpTo
  <2>3. Same(f[e + (n - e)], g[e + (n - e) + 1], id)
    BY <2>1, <2>2 DEF U
  <2> QED BY <2>1, <2>3
<1> QED BY <1>3, <1>4, <1>13 DEF more

\* So do any lines that are not about them.
LEMMA FoldOthers ==
    ASSUME NEW S, AreLines(S), NEW s \in Seq(S), NEW t \in Seq(S), NEW id,
           \A r \in ToSet(t) : r.id # id
    PROVE  Same(FoldOrderStream(s), FoldOrderStream(s \o t), id)
<1> DEFINE n == Len(t)
           upTo(k) == s \o SubSeq(t, 1, k)
           T == { k \in 0 .. n : Same(FoldOrderStream(s), FoldOrderStream(upTo(k)), id) }
<1>1. n \in Nat /\ \A k \in 1 .. n : t[k] \in S /\ t[k].id # id
  BY DEF ToSet
<1>2. upTo(0) = s /\ upTo(n) = s \o t
  OBVIOUS
<1>3. \A k \in 0 .. n - 1 : upTo(k) \in Seq(S) /\ upTo(k + 1) = Append(upTo(k), t[k + 1])
  OBVIOUS
<1> HIDE DEF upTo, n
<1>4. 0 \in T
  BY <1>1, <1>2 DEF Same
<1>5. ASSUME NEW k \in 0 .. n - 1, k \in T PROVE k + 1 \in T
  <2>1. k + 1 \in 1 .. n /\ k + 1 \in 0 .. n
    BY <1>1
  <2>2. Same(FoldOrderStream(upTo(k)), FoldOrderStream(Append(upTo(k), t[k + 1])), id)
    BY <1>1, <1>3, <2>1, FoldOther
  <2>3. Same(FoldOrderStream(s), FoldOrderStream(upTo(k + 1)), id)
    BY <1>3, <1>5, <2>2 DEF Same
  <2> QED BY <2>1, <2>3
<1>6. n \in T
  <2> HIDE DEF T
  <2>1. \A k \in 0 .. n : k \in T
    BY <1>1, <1>4, <1>5, InductionUpTo
  <2> QED BY <1>1, <2>1
<1> QED BY <1>2, <1>6

\* A rung that rests was placed, by a line of the file, and is not used up.
LEMMA RestingType ==
    ASSUME NEW S, AreLines(S), NEW records \in Seq(S), NEW id \in DOMAIN Resting(records)
    PROVE  /\ id \in DOMAIN FoldOrderStream(records)
           /\ Resting(records)[id].at = FoldOrderStream(records)[id].placed.at
           /\ Resting(records)[id].quantity = FoldOrderStream(records)[id].placed.quantity
           /\ Resting(records)[id].remaining \in Nat \ {0}
<1> DEFINE rungs == FoldOrderStream(records)
           remaining(x) == rungs[x].placed.quantity - rungs[x].consumed
<1>1. Resting(records) = [x \in { y \in DOMAIN rungs : remaining(y) > 0 } |->
            [at |-> rungs[x].placed.at, quantity |-> rungs[x].placed.quantity,
             remaining |-> remaining(x)]]
  BY DEF Resting
<1> HIDE DEF rungs
<1>2. id \in DOMAIN rungs /\ remaining(id) > 0
  BY <1>1
<1>3. rungs[id].placed \in ToSet(records) /\ rungs[id].consumed \in Nat
  BY <1>2, FoldType DEF rungs
<1>4. rungs[id].placed.quantity \in Nat
  BY <1>3, MembersType DEF AreLines
<1>5. remaining(id) \in Nat \ {0}
  BY <1>2, <1>3, <1>4
<1> HIDE DEF remaining
<1> QED BY <1>1, <1>2, <1>5 DEF rungs

\* Two readings that agree about a rung agree on whether it rests.
LEMMA RestingSame ==
    ASSUME NEW s, NEW t, NEW id, Same(FoldOrderStream(s), FoldOrderStream(t), id)
    PROVE  id \in DOMAIN Resting(s) <=> id \in DOMAIN Resting(t)
BY DEF Resting, Same

\* A rung cancelled after every time it was placed is out of the book.
LEMMA RetiredForGood ==
    ASSUME NEW S, AreLines(S), NEW records \in Seq(S),
           NEW r \in ToSet(records), r.kind = "orderCancelled",
           \A s \in ToSet(records) : s.kind = "orderPlaced" /\ s.id = r.id => s.at < r.at
    PROVE  r.id \notin DOMAIN FoldOrderStream(records)
<1> DEFINE n == Len(records)
           lines == ReplayOrder(records)
<1>1. n \in Nat
  OBVIOUS
<1>2. lines \in Seq(S) /\ Len(lines) = n /\ ToSet(lines) = ToSet(records) /\ ByStamp(lines)
  BY ReplayLines
<1>3. PICK f : IsReplay(f, S, records) /\ FoldOrderStream(records) = f[n]
  BY FoldReplays
<1> HIDE DEF n, lines
<1>4. /\ DOMAIN lines = 1 .. n /\ \A k \in 1 .. n : lines[k] \in S /\ lines[k] \in ToSet(records)
      /\ \A i, j \in 1 .. n : i <= j => lines[i].at <= lines[j].at
  <2>1. DOMAIN lines = 1 .. n
    BY <1>2
  <2>2. \A k \in 1 .. n : lines[k] \in ToSet(lines)
    BY <2>1 DEF ToSet
  <2>3. \A k \in 1 .. n : lines[k] \in S
    BY <1>2, <2>1
  <2> QED BY <1>2, <2>1, <2>2, <2>3 DEF ByStamp
<1>5. PICK c \in 1 .. n : lines[c] = r
  BY <1>2, <1>4 DEF ToSet
<1>6. /\ \A k \in 0 .. n : f[k] \in Folded(S)
      /\ \A k \in 1 .. n : f[k] = Replay(f[k - 1], lines[k])
  BY <1>3 DEF IsReplay, lines, n
<1> DEFINE T == { k \in 0 .. n : c <= k => r.id \notin DOMAIN f[k] }
<1>7. 0 \in T
  BY <1>1, <1>5
<1>8. ASSUME NEW k \in 0 .. n - 1, k \in T PROVE k + 1 \in T
  <2>1. k + 1 \in 1 .. n /\ k + 1 - 1 = k /\ k \in 0 .. n /\ k + 1 \in 0 .. n
    BY <1>1
  <2>2. f[k + 1] = Replay(f[k], lines[k + 1]) /\ f[k] \in Folded(S)
    <3>1. f[k + 1] = Replay(f[k + 1 - 1], lines[k + 1])
      BY <1>6, <2>1
    <3> QED BY <1>6, <2>1, <3>1
  <2>3. CASE k + 1 < c
    BY <1>5, <2>1, <2>3
  <2>4. CASE k + 1 = c
    <3>1. DOMAIN Replay(f[k], r) = DOMAIN f[k] \ {r.id}
      BY DEF Replay, Retire, Restrict
    <3> QED BY <1>5, <2>1, <2>2, <2>4, <3>1
  <2>5. CASE c <= k
    <3>1. r.id \notin DOMAIN f[k]
      BY <1>8, <2>5
    <3>2. r.at <= lines[k + 1].at /\ lines[k + 1] \in ToSet(records)
      <4>1. c <= k + 1
        BY <1>5, <2>1, <2>5
      <4> QED BY <1>4, <1>5, <2>1, <4>1
    <3>3. ~ (lines[k + 1].kind = "orderPlaced" /\ lines[k + 1].id = r.id)
      <4>1. r.at \in Int /\ lines[k + 1].at \in Int
        BY <1>4, <1>5, <2>1 DEF AreLines
      <4>2. ~ (lines[k + 1].at < r.at)
        BY <3>2, <4>1
      <4> QED BY <3>2, <4>2
    <3>4. r.id \notin DOMAIN f[k + 1]
      BY <2>2, <3>1, <3>3, ReplayOther
    <3> QED BY <2>1, <3>4
  <2>6. k + 1 < c \/ k + 1 = c \/ c <= k
    BY <1>1, <1>5
  <2> QED BY <2>3, <2>4, <2>5, <2>6
<1>9. n \in T
  <2> HIDE DEF T
  <2>1. \A k \in 0 .. n : k \in T
    BY <1>1, <1>7, <1>8, InductionUpTo
  <2> QED BY <1>1, <2>1
<1>10. c <= n
  BY <1>5
<1> QED BY <1>3, <1>9, <1>10
----------------------------------------------------------------------------
\* What the lines of a list say of the fills of one rung.
Amounts(records, id) ==
    [i \in DOMAIN records |->
        IF records[i].kind = "orderFilled" /\ records[i].id = id THEN records[i].quantity ELSE 0]

\* They are amounts, one per line, and BookedFills adds them up.
LEMMA AmountsType ==
    ASSUME NEW S, AreLines(S), NEW s \in Seq(S), NEW id
    PROVE  /\ Amounts(s, id) \in Seq(Nat)
           /\ Len(Amounts(s, id)) = Len(s)
           /\ BookedFills(s, id) = Total(Amounts(s, id))
           /\ \A i \in 1 .. Len(s) : Amounts(s, id)[i] =
                IF s[i].kind = "orderFilled" /\ s[i].id = id THEN s[i].quantity ELSE 0
<1> DEFINE n == Len(s)
           a == Amounts(s, id)
<1>1. n \in Nat /\ DOMAIN s = 1 .. n /\ \A i \in 1 .. n : s[i] \in S
  OBVIOUS
<1>2. a = [i \in 1 .. n |->
              IF s[i].kind = "orderFilled" /\ s[i].id = id THEN s[i].quantity ELSE 0]
  BY <1>1 DEF Amounts
<1>3. \A i \in 1 .. n : s[i].quantity \in Nat
  BY <1>1 DEF AreLines
<1>4. BookedFills(s, id) = Total(a)
  BY DEF BookedFills, Amounts
<1> HIDE DEF a, n
<1>5. a \in [1 .. n -> Nat] /\ \A i \in 1 .. n : a[i] =
            IF s[i].kind = "orderFilled" /\ s[i].id = id THEN s[i].quantity ELSE 0
  BY <1>2, <1>3
<1>6. a \in Seq(Nat) /\ Len(a) = n
  BY <1>1, <1>5
<1> QED BY <1>4, <1>5, <1>6 DEF a, n

LEMMA BookedOfBoth ==
    ASSUME NEW S, AreLines(S), NEW s \in Seq(S), NEW t \in Seq(S), NEW id
    PROVE  /\ BookedFills(s, id) \in Nat /\ BookedFills(t, id) \in Nat
           /\ BookedFills(s \o t, id) = BookedFills(s, id) + BookedFills(t, id)
<1> DEFINE a == Amounts(s, id)
           b == Amounts(t, id)
           u == s \o t
           c == Amounts(u, id)
           d == a \o b
           m == Len(s)
           n == Len(t)
           Of(r) == IF r.kind = "orderFilled" /\ r.id = id THEN r.quantity ELSE 0
<1>1. /\ a \in Seq(Nat) /\ Len(a) = m /\ BookedFills(s, id) = Total(a)
      /\ \A i \in 1 .. m : a[i] = Of(s[i])
  BY AmountsType
<1>2. /\ b \in Seq(Nat) /\ Len(b) = n /\ BookedFills(t, id) = Total(b)
      /\ \A i \in 1 .. n : b[i] = Of(t[i])
  BY AmountsType
<1>3. /\ u \in Seq(S) /\ Len(u) = m + n
      /\ \A i \in 1 .. m : u[i] = s[i]
      /\ \A i \in 1 .. n : u[m + i] = t[i]
  BY LinesOfBoth
<1>4. m \in Nat /\ n \in Nat
  OBVIOUS
<1> HIDE DEF u
<1>5. /\ c \in Seq(Nat) /\ Len(c) = m + n /\ BookedFills(u, id) = Total(c)
      /\ \A i \in 1 .. m + n : c[i] = Of(u[i])
  <2> DEFINE k == Len(u)
  <2>1. /\ c \in Seq(Nat) /\ Len(c) = k /\ BookedFills(u, id) = Total(c)
        /\ \A i \in 1 .. k : c[i] = Of(u[i])
    BY <1>3, AmountsType
  <2>2. k = m + n
    BY <1>3
  <2> HIDE DEF k, c, m, n, Of
  <2> QED BY <2>1, <2>2
<1> HIDE DEF a, b, c, m, n
<1>6. /\ d \in Seq(Nat) /\ Len(d) = Len(a) + Len(b)
      /\ \A i \in 1 .. Len(a) : d[i] = a[i]
      /\ \A i \in 1 .. Len(b) : d[Len(a) + i] = b[i]
  <2> HIDE DEF Of
  <2>1. a \in Seq(Nat) /\ b \in Seq(Nat)
    BY <1>1, <1>2
  <2> QED BY <2>1, LinesOfBoth
<1> HIDE DEF d, Of
<1>7. ASSUME NEW i \in 1 .. m + n PROVE c[i] = d[i]
  <2>1. CASE i \in 1 .. m
    <3>1. c[i] = Of(u[i]) /\ u[i] = s[i] /\ a[i] = Of(s[i]) /\ d[i] = a[i]
      BY <1>1, <1>3, <1>5, <1>6, <2>1
    <3> QED BY <3>1
  <2>2. CASE i \notin 1 .. m
    <3> DEFINE j == i - m
    <3>1. j \in 1 .. n /\ i = m + j
      BY <1>4, <2>2
    <3> HIDE DEF j
    <3>2. u[i] = t[j] /\ d[i] = b[j] /\ b[j] = Of(t[j])
      BY <1>1, <1>2, <1>3, <1>6, <3>1
    <3>3. c[i] = Of(u[i])
      BY <1>5
    <3> QED BY <3>2, <3>3
  <2> QED BY <2>1, <2>2
<1>8. c = d
  <2>1. Len(d) = m + n
    BY <1>1, <1>2, <1>6
  <2>3. c \in Seq(Nat) /\ d \in Seq(Nat) /\ Len(c) = Len(d)
    BY <1>5, <1>6, <2>1
  <2>4. \A i \in 1 .. Len(c) : c[i] = d[i]
    BY <1>5, <1>7
  <2> QED BY <2>3, <2>4, SeqEqual
<1>9. Total(a \o b) = Total(a) + Total(b) /\ Total(a) \in Nat /\ Total(b) \in Nat
  <2>1. a \in Seq(Nat) /\ b \in Seq(Nat) /\ a \in Seq(Int) /\ b \in Seq(Int)
    BY <1>1, <1>2, TotalNat
  <2>2. Total(a \o b) = Total(a) + Total(b)
    BY <2>1, TotalOfBoth
  <2> QED BY <2>1, <2>2, TotalNat
<1>10. BookedFills(u, id) = Total(a \o b)
  BY <1>5, <1>8 DEF d
<1> QED BY <1>1, <1>2, <1>9, <1>10 DEF u

\* One more line books what it says of the rung, if it is a fill of it.
LEMMA BookedOfOne ==
    ASSUME NEW S, AreLines(S), NEW s \in Seq(S), NEW r \in S, NEW id
    PROVE  /\ BookedFills(s, id) \in Nat
           /\ BookedFills(Append(s, r), id) = BookedFills(s, id) +
                (IF r.kind = "orderFilled" /\ r.id = id THEN r.quantity ELSE 0)
<1> DEFINE q == IF r.kind = "orderFilled" /\ r.id = id THEN r.quantity ELSE 0
           one == <<r>>
<1>1. one \in Seq(S) /\ Append(s, r) = s \o one
  OBVIOUS
<1>2. Amounts(one, id) = <<q>> /\ BookedFills(one, id) = Total(Amounts(one, id))
  <2>1. DOMAIN one = 1 .. 1 /\ one[1] = r
    OBVIOUS
  <2> QED BY <2>1 DEF Amounts, BookedFills
<1>3. q \in Nat
  BY DEF AreLines
<1> HIDE DEF q, one
<1>4. BookedFills(one, id) = q
  <2>1. q \in Int
    BY <1>3
  <2> QED BY <1>2, <2>1, TotalOfOne
<1>5. BookedFills(s \o one, id) = BookedFills(s, id) + BookedFills(one, id)
  BY <1>1, BookedOfBoth
<1>6. BookedFills(s, id) \in Nat
  BY <1>1, BookedOfBoth
<1>7. BookedFills(Append(s, r), id) = BookedFills(s, id) + q
  BY <1>1, <1>4, <1>5
<1> QED BY <1>6, <1>7 DEF q

\* Lines that are no fills of a rung book nothing on it.
LEMMA BookedOfNone ==
    ASSUME NEW S, AreLines(S), NEW s \in Seq(S), NEW id,
           \A i \in DOMAIN s : ~ (s[i].kind = "orderFilled" /\ s[i].id = id)
    PROVE  BookedFills(s, id) = 0
<1> DEFINE a == Amounts(s, id)
<1>1. /\ a \in Seq(Nat) /\ Len(a) = Len(s) /\ BookedFills(s, id) = Total(a)
      /\ \A i \in 1 .. Len(s) : a[i] =
            IF s[i].kind = "orderFilled" /\ s[i].id = id THEN s[i].quantity ELSE 0
  BY AmountsType
<1>2. DOMAIN s = 1 .. Len(s)
  OBVIOUS
<1> HIDE DEF a
<1>3. \A k \in DOMAIN a : a[k] = 0
  BY <1>1, <1>2
<1> QED BY <1>1, <1>3, TotalNat, TotalOfNone
----------------------------------------------------------------------------
(* What is kept of a longer list, and of lines that differ.                *)

\* What is kept of a list and one more line.
LEMMA KeptOneMore ==
    ASSUME NEW S, NEW s \in Seq(S), NEW e \in S, NEW A, NEW B,
           \A i \in DOMAIN s : i \in A <=> i \in B
    PROVE  /\ Len(s) + 1 \in A => Kept(Append(s, e), A) = Append(Kept(s, B), e)
           /\ Len(s) + 1 \notin A => Kept(Append(s, e), A) = Kept(s, B)
<1> DEFINE n == Len(s)
           t == Append(s, e)
<1>1. /\ n \in Nat /\ DOMAIN s = 1 .. n /\ t \in Seq(S) /\ Len(t) = n + 1 /\ t[n + 1] = e
      /\ \A k \in 1 .. n : t[k] = s[k]
  OBVIOUS
<1>2. PICK f : IsKeeping(f, S, s, B) /\ Kept(s, B) = f[n]
  BY KeptRuns
<1> HIDE DEF t
<1>3. PICK g : IsKeeping(g, S, t, A) /\ Kept(t, A) = g[n + 1]
  <2>1. \E g : IsKeeping(g, S, t, A) /\ Kept(t, A) = g[Len(t)]
    BY <1>1, KeptRuns
  <2> QED BY <1>1, <2>1
<1>4. /\ f[0] = <<>>
      /\ \A k \in 1 .. n : f[k] = IF k \in B THEN Append(f[k - 1], s[k]) ELSE f[k - 1]
  BY <1>2 DEF IsKeeping
<1>5. /\ g[0] = <<>>
      /\ \A k \in 1 .. n + 1 : g[k] = IF k \in A THEN Append(g[k - 1], t[k]) ELSE g[k - 1]
  BY <1>1, <1>3 DEF IsKeeping
<1> HIDE DEF n
<1> DEFINE T == { k \in 0 .. n : f[k] = g[k] }
<1>6. 0 \in T
  BY <1>1, <1>4, <1>5
<1>7. ASSUME NEW k \in 0 .. n - 1, k \in T PROVE k + 1 \in T
  <2>1. k + 1 \in 1 .. n /\ k + 1 \in 1 .. n + 1 /\ k + 1 \in 0 .. n /\ k + 1 - 1 = k
    BY <1>1
  <2>2. f[k + 1] = IF k + 1 \in B THEN Append(f[k], s[k + 1]) ELSE f[k]
    BY <1>4, <2>1
  <2>3. g[k + 1] = IF k + 1 \in A THEN Append(g[k], t[k + 1]) ELSE g[k]
    BY <1>5, <2>1
  <2>4. f[k] = g[k] /\ t[k + 1] = s[k + 1] /\ (k + 1 \in A <=> k + 1 \in B)
    BY <1>1, <1>7, <2>1
  <2> QED BY <2>1, <2>2, <2>3, <2>4
<1>8. n \in T
  <2> HIDE DEF T
  <2>1. \A k \in 0 .. n : k \in T
    BY <1>1, <1>6, <1>7, InductionUpTo
  <2> QED BY <1>1, <2>1
<1>9. g[n + 1] = IF n + 1 \in A THEN Append(g[n], e) ELSE g[n]
  <2>1. n + 1 \in 1 .. n + 1 /\ n + 1 - 1 = n
    BY <1>1
  <2> QED BY <1>1, <1>5, <2>1
<1> QED BY <1>2, <1>3, <1>8, <1>9 DEF n, t

\* Lines of which no two are of the same id.
Distinct(list) == \A i, j \in DOMAIN list : list[i].id = list[j].id => i = j

LEMMA DistinctOneMore ==
    ASSUME NEW S, NEW s \in Seq(S), NEW e \in S, Distinct(s), \A r \in ToSet(s) : r.id # e.id
    PROVE  Distinct(Append(s, e))
<1> DEFINE t == Append(s, e)
           n == Len(s)
<1>1. n \in Nat /\ DOMAIN s = 1 .. n /\ DOMAIN t = 1 .. n + 1 /\ t[n + 1] = e
      /\ \A k \in 1 .. n : t[k] = s[k] /\ s[k] \in ToSet(s)
  BY DEF ToSet
<1> HIDE DEF t, n
<1>2. ASSUME NEW i \in 1 .. n + 1, NEW j \in 1 .. n + 1, t[i].id = t[j].id PROVE i = j
  <2>1. (i \in 1 .. n \/ i = n + 1) /\ (j \in 1 .. n \/ j = n + 1)
    BY <1>1
  <2>2. CASE i \in 1 .. n /\ j \in 1 .. n
    BY <1>1, <1>2, <2>2 DEF Distinct
  <2>3. CASE i \in 1 .. n /\ j = n + 1
    BY <1>1, <1>2, <2>3
  <2>4. CASE i = n + 1 /\ j \in 1 .. n
    BY <1>1, <1>2, <2>4
  <2> QED BY <2>1, <2>2, <2>3, <2>4
<1>3. Distinct(t)
  BY <1>1, <1>2 DEF Distinct
<1> QED BY <1>3 DEF t

\* Where each line that is kept stood among the first k of the list.
StandsAt(m, kept, list, places, k) ==
    /\ m \in [1 .. Len(kept) -> places \cap (1 .. k)]
    /\ \A i \in 1 .. Len(kept) : kept[i] = list[m[i]]
    /\ \A i, j \in 1 .. Len(kept) : m[i] = m[j] => i = j
    /\ \A p \in places \cap (1 .. k) : \E i \in 1 .. Len(kept) : m[i] = p

LEMMA StandsOneMore ==
    ASSUME NEW S, NEW kept \in Seq(S), NEW list \in Seq(S), NEW places, NEW k \in Nat,
           k + 1 \in 1 .. Len(list), k + 1 \in places, NEW m, StandsAt(m, kept, list, places, k)
    PROVE  \E more : StandsAt(more, Append(kept, list[k + 1]), list, places, k + 1)
<1> DEFINE e == Len(kept)
           more == [i \in 1 .. e + 1 |-> IF i = e + 1 THEN k + 1 ELSE m[i]]
           new == Append(kept, list[k + 1])
<1>1. /\ e \in Nat /\ Len(new) = e + 1 /\ new[e + 1] = list[k + 1]
      /\ \A i \in 1 .. e : new[i] = kept[i]
  OBVIOUS
<1>2. /\ \A i \in 1 .. e : m[i] \in places \cap (1 .. k) /\ kept[i] = list[m[i]]
      /\ \A i, j \in 1 .. e : m[i] = m[j] => i = j
      /\ \A p \in places \cap (1 .. k) : \E i \in 1 .. e : m[i] = p
  BY DEF StandsAt
<1>3. /\ more[e + 1] = k + 1 /\ \A i \in 1 .. e : more[i] = m[i] /\ i \in 1 .. e + 1
      /\ \A i \in 1 .. e + 1 : i \in 1 .. e \/ i = e + 1
  BY <1>1
<1>4. places \cap (1 .. k + 1) = (places \cap (1 .. k)) \cup {k + 1} /\ k + 1 \notin 1 .. k
  OBVIOUS
<1>5. more \in [1 .. e + 1 -> places \cap (1 .. k + 1)]
  BY <1>2, <1>3, <1>4
<1> HIDE DEF more, new, e
<1>6. \A i \in 1 .. e + 1 : new[i] = list[more[i]]
  BY <1>1, <1>2, <1>3
<1>7. ASSUME NEW i \in 1 .. e + 1, NEW j \in 1 .. e + 1, more[i] = more[j] PROVE i = j
  <2>1. \A h \in 1 .. e : more[h] = m[h] /\ m[h] # k + 1
    BY <1>2, <1>3, <1>4
  <2>2. CASE i \in 1 .. e /\ j \in 1 .. e
    BY <1>2, <1>7, <2>1, <2>2
  <2>3. CASE i = e + 1 /\ j \in 1 .. e
    BY <1>3, <1>7, <2>1, <2>3
  <2>4. CASE i \in 1 .. e /\ j = e + 1
    BY <1>3, <1>7, <2>1, <2>4
  <2> QED BY <1>3, <2>2, <2>3, <2>4
<1>8. \A p \in places \cap (1 .. k + 1) : \E i \in 1 .. e + 1 : more[i] = p
  <2> SUFFICES ASSUME NEW p \in places \cap (1 .. k + 1) PROVE \E i \in 1 .. e + 1 : more[i] = p
    OBVIOUS
  <2>1. CASE p = k + 1
    BY <1>1, <1>3, <2>1
  <2>2. CASE p # k + 1
    <3>1. PICK i \in 1 .. e : m[i] = p
      BY <1>2, <1>4, <2>2
    <3> QED BY <1>3, <3>1
  <2> QED BY <2>1, <2>2
<1>9. StandsAt(more, new, list, places, k + 1)
  BY <1>1, <1>5, <1>6, <1>7, <1>8 DEF StandsAt
<1> QED BY <1>9 DEF new

\* The lines that are kept are those at the places, each once.
LEMMA KeptStands ==
    ASSUME NEW S, NEW list \in Seq(S), NEW places
    PROVE  \E m : StandsAt(m, Kept(list, places), list, places, Len(list))
<1> DEFINE n == Len(list)
<1>1. n \in Nat /\ DOMAIN list = 1 .. n /\ \A k \in 1 .. n : list[k] \in S
  OBVIOUS
<1>2. PICK f : IsKeeping(f, S, list, places) /\ Kept(list, places) = f[n]
  BY KeptRuns
<1>3. /\ f \in [0 .. n -> Seq(S)] /\ f[0] = <<>>
      /\ \A k \in 1 .. n : f[k] = IF k \in places THEN Append(f[k - 1], list[k]) ELSE f[k - 1]
  BY <1>2 DEF IsKeeping
<1> DEFINE T == { k \in 0 .. n : \E m : StandsAt(m, f[k], list, places, k) }
<1>4. 0 \in T
  <2> DEFINE m == [i \in {} |-> 0]
  <2>1. 1 .. Len(<<>>) = {} /\ places \cap (1 .. 0) = {} /\ 0 \in 0 .. n
    BY <1>1
  <2>2. StandsAt(m, <<>>, list, places, 0)
    BY <2>1 DEF StandsAt
  <2> HIDE DEF m
  <2> QED BY <1>3, <2>1, <2>2
<1>5. ASSUME NEW k \in 0 .. n - 1, k \in T PROVE k + 1 \in T
  <2>1. /\ k + 1 \in 1 .. n /\ k + 1 \in 0 .. n /\ k \in 0 .. n /\ k + 1 - 1 = k /\ k \in Nat
    BY <1>1
  <2>2. f[k + 1] = IF k + 1 \in places THEN Append(f[k], list[k + 1]) ELSE f[k]
    BY <1>3, <2>1
  <2>3. f[k] \in Seq(S)
    BY <1>3, <2>1
  <2>4. PICK m : StandsAt(m, f[k], list, places, k)
    BY <1>5
  <2>5. CASE k + 1 \in places
    <3>1. \E more : StandsAt(more, Append(f[k], list[k + 1]), list, places, k + 1)
      BY <2>1, <2>3, <2>4, <2>5, StandsOneMore
    <3> QED BY <2>1, <2>2, <2>5, <3>1
  <2>6. CASE k + 1 \notin places
    <3>1. places \cap (1 .. k + 1) = places \cap (1 .. k)
      BY <2>1, <2>6
    <3>2. StandsAt(m, f[k], list, places, k + 1)
      BY <2>4, <3>1 DEF StandsAt
    <3> QED BY <2>1, <2>2, <2>6, <3>2
  <2> QED BY <2>5, <2>6
<1>6. n \in T
  <2> HIDE DEF T, n
  <2>1. \A k \in 0 .. n : k \in T
    BY <1>1, <1>4, <1>5, InductionUpTo
  <2> QED BY <1>1, <2>1
<1> QED BY <1>2, <1>6

\* What is kept at places of which no two are of the same id.
LEMMA KeptDistinct ==
    ASSUME NEW S, NEW list \in Seq(S), NEW places,
           \A i, j \in places \cap DOMAIN list : list[i].id = list[j].id => i = j
    PROVE  Distinct(Kept(list, places))
<1> DEFINE kept == Kept(list, places)
<1>1. kept \in Seq(S) /\ DOMAIN list = 1 .. Len(list)
  BY KeptLines
<1>2. PICK m : StandsAt(m, kept, list, places, Len(list))
  BY KeptStands
<1> HIDE DEF kept
<1>3. DOMAIN kept = 1 .. Len(kept)
  BY <1>1
<1>4. /\ \A i \in DOMAIN kept : m[i] \in places \cap DOMAIN list /\ kept[i] = list[m[i]]
      /\ \A i, j \in DOMAIN kept : m[i] = m[j] => i = j
  BY <1>1, <1>2, <1>3 DEF StandsAt
<1>5. Distinct(kept)
  BY <1>4 DEF Distinct
<1> QED BY <1>5 DEF kept

\* A list that is kept whole is kept at every place.
LEMMA KeptAll ==
    ASSUME NEW S, NEW list \in Seq(S), NEW places, Len(Kept(list, places)) = Len(list)
    PROVE  \A i \in DOMAIN list : i \in places
<1> DEFINE n == Len(list)
<1>1. n \in Nat /\ DOMAIN list = 1 .. n /\ \A k \in 1 .. n : list[k] \in S
  OBVIOUS
<1>2. PICK f : IsKeeping(f, S, list, places) /\ Kept(list, places) = f[n]
  BY KeptRuns
<1>3. /\ f \in [0 .. n -> Seq(S)] /\ f[0] = <<>>
      /\ \A k \in 1 .. n : f[k] = IF k \in places THEN Append(f[k - 1], list[k]) ELSE f[k - 1]
  BY <1>2 DEF IsKeeping
<1> HIDE DEF n
<1>4. SUFFICES ASSUME NEW i \in 1 .. n, i \notin places PROVE FALSE
  BY <1>1
<1> DEFINE T == { k \in 0 .. n : Len(f[k]) <= k /\ (i <= k => Len(f[k]) <= k - 1) }
<1>5. 0 \in T
  <2>1. Len(<<>>) = 0
    OBVIOUS
  <2> QED BY <1>1, <1>3, <2>1
<1>6. ASSUME NEW k \in 0 .. n - 1, k \in T PROVE k + 1 \in T
  <2>1. k + 1 \in 1 .. n /\ k + 1 \in 0 .. n /\ k \in 0 .. n /\ k + 1 - 1 = k
    BY <1>1
  <2>2. f[k + 1] = IF k + 1 \in places THEN Append(f[k], list[k + 1]) ELSE f[k]
    BY <1>3, <2>1
  <2>3. f[k] \in Seq(S) /\ list[k + 1] \in S
    BY <1>1, <1>3, <2>1
  <2>4. Len(Append(f[k], list[k + 1])) = Len(f[k]) + 1 /\ Len(f[k]) \in Nat
    BY <2>3
  <2>5. Len(f[k]) <= k /\ (i <= k => Len(f[k]) <= k - 1)
    BY <1>6
  <2>6. CASE k + 1 \in places
    <3>1. k + 1 # i /\ (i <= k + 1 => i <= k)
      BY <1>4, <2>1, <2>6
    <3>2. Len(f[k + 1]) = Len(f[k]) + 1
      BY <2>2, <2>4, <2>6
    <3> QED BY <2>1, <2>4, <2>5, <3>1, <3>2
  <2>7. CASE k + 1 \notin places
    <3>1. Len(f[k + 1]) = Len(f[k])
      BY <2>2, <2>7
    <3> QED BY <2>1, <2>4, <2>5, <3>1
  <2> QED BY <2>6, <2>7
<1>7. n \in T
  <2> HIDE DEF T
  <2>1. \A k \in 0 .. n : k \in T
    BY <1>1, <1>5, <1>6, InductionUpTo
  <2> QED BY <1>1, <2>1
<1>8. Len(f[n]) = n
  BY <1>2 DEF n
<1> QED BY <1>1, <1>4, <1>7, <1>8
----------------------------------------------------------------------------
(* One more line, wherever its stamp puts it.                              *)

\* The lines later than r run on, over the rungs as they were and as r made them.
IsSplit(records, r, tail, a, b) ==
    /\ tail \in Seq(ToSet(records)) /\ \A x \in ToSet(tail) : r.at < x.at
    /\ a \in [0 .. Len(tail) -> Folded(ToSet(records))]
    /\ b \in [0 .. Len(tail) -> Folded(ToSet(records) \cup {r})]
    /\ Same(Replay(a[0], r), b[0], r.id)
    /\ \A k \in 1 .. Len(tail) : a[k] = Replay(a[k - 1], tail[k]) /\ b[k] = Replay(b[k - 1], tail[k])
    /\ a[Len(tail)] = FoldOrderStream(records)
    /\ b[Len(tail)] = FoldOrderStream(Append(records, r))

LEMMA SplitAt ==
    ASSUME NEW S, AreLines(S), NEW records \in Seq(S), NEW r \in S
    PROVE  \E tail, a, b : IsSplit(records, r, tail, a, b)
<1> DEFINE n == Len(records)
           more == Append(records, r)
           lines == ReplayOrder(records)
           new == ReplayOrder(more)
           L == ToSet(records)
           M == L \cup {r}
<1>0. /\ L \subseteq S /\ records \in Seq(L) /\ AreLines(L)
      /\ more \in Seq(M) /\ AreLines(M) /\ records \in Seq(M) /\ r \in M
  <2>1. L \subseteq S
    BY MembersType
  <2>2. records \in Seq(L)
    BY DEF ToSet
  <2> HIDE DEF L
  <2>3. AreLines(L) /\ AreLines(M)
    BY <2>1 DEF AreLines
  <2>4. records \in Seq(M) /\ more \in Seq(M)
    BY <2>2
  <2> QED BY <2>1, <2>2, <2>3, <2>4
<1>1. n \in Nat /\ Len(more) = n + 1
  OBVIOUS
<1> HIDE DEF L, M
<1>2. lines \in Seq(L) /\ Len(lines) = n /\ ByStamp(lines)
  BY <1>0, ReplayLines
<1>14. lines \in Seq(M) /\ new = Inserted(lines, r)
  BY <1>0, ReplayLines, ReplayAppended
<1>3. PICK f : IsReplay(f, L, records) /\ FoldOrderStream(records) = f[n]
  BY <1>0, FoldReplays
<1>4. PICK g : IsReplay(g, M, more) /\ FoldOrderStream(more) = g[n + 1]
  BY <1>0, <1>1, FoldReplays
<1> HIDE DEF lines, new, more, n
<1>5. PICK e \in 0 .. n :
        /\ \A i \in 1 .. n : i <= e <=> lines[i].at <= r.at
        /\ \A i \in 1 .. e : new[i] = lines[i]
        /\ new[e + 1] = r
        /\ \A i \in e + 1 .. n : new[i + 1] = lines[i]
  <2>1. \E e \in 0 .. Len(lines) : IsInserted(Inserted(lines, r), lines, r, e)
    BY <1>0, <1>2, <1>14, InsertedLine
  <2> QED BY <1>2, <1>14, <2>1 DEF IsInserted
<1>6. /\ \A k \in 0 .. n : f[k] \in Folded(L)
      /\ DOMAIN f[0] = {}
      /\ \A k \in 1 .. n : f[k] = Replay(f[k - 1], lines[k])
  BY <1>3 DEF IsReplay, lines, n
<1>7. /\ \A k \in 0 .. n + 1 : g[k] \in Folded(M)
      /\ DOMAIN g[0] = {}
      /\ \A k \in 1 .. n + 1 : g[k] = Replay(g[k - 1], new[k])
  BY <1>1, <1>4 DEF IsReplay, new
<1>15. Folded(L) \subseteq Folded(M)
  <2>1. RungMaps(L) \subseteq RungMaps(M)
    BY DEF RungMaps, M
  <2> QED BY <2>1 DEF Folded
<1> DEFINE id == r.id
           T == { k \in 0 .. e : Same(f[k], g[k], id) }
<1>8. 0 \in T
  BY <1>5, <1>6, <1>7 DEF Same
<1>9. ASSUME NEW k \in 0 .. e - 1, k \in T PROVE k + 1 \in T
  <2>1. /\ k + 1 \in 1 .. e /\ k + 1 - 1 = k /\ k + 1 \in 0 .. e
        /\ k + 1 \in 1 .. n /\ k + 1 \in 1 .. n + 1 /\ k \in 0 .. n /\ k \in 0 .. n + 1
    BY <1>1, <1>5
  <2>2. f[k + 1] = Replay(f[k + 1 - 1], lines[k + 1]) /\ g[k + 1] = Replay(g[k + 1 - 1], new[k + 1])
    BY <1>6, <1>7, <2>1
  <2>3. new[k + 1] = lines[k + 1]
    BY <1>5, <2>1
  <2>4. Same(Replay(f[k], lines[k + 1]), Replay(g[k], lines[k + 1]), id)
    <3>1. f[k] \in Folded(M) /\ g[k] \in Folded(M) /\ Same(f[k], g[k], id)
      BY <1>6, <1>7, <1>9, <1>15, <2>1
    <3> QED BY <3>1, ReplaySame
  <2>5. Same(f[k + 1], g[k + 1], id)
    BY <2>1, <2>2, <2>3, <2>4
  <2> QED BY <2>1, <2>5
<1>10. Same(f[e], g[e], id)
  <2> HIDE DEF T
  <2>0. e \in Nat
    BY <1>1
  <2>1. \A k \in 0 .. e : k \in T
    BY <1>8, <1>9, <2>0, InductionUpTo
  <2> QED BY <2>0, <2>1 DEF T
<1> DEFINE m == n - e
           tail == [k \in 1 .. m |-> lines[e + k]]
           a == [k \in 0 .. m |-> f[e + k]]
           b == [k \in 0 .. m |-> g[e + k + 1]]
<1>11. /\ m \in Nat /\ e + m = n /\ e + 0 = e
       /\ \A k \in 0 .. m : e + k \in 0 .. n /\ e + k + 1 \in 0 .. n + 1
       /\ \A k \in 1 .. m : /\ e + k \in 1 .. n /\ e + k \in e + 1 .. n /\ e + k + 1 \in 1 .. n + 1
                            /\ k - 1 \in 0 .. m /\ e + (k - 1) = e + k - 1
                            /\ e + (k - 1) + 1 = e + k /\ ~ (e + k <= e) /\ e + k + 1 - 1 = e + k
  BY <1>1, <1>5
<1> HIDE DEF m
<1>12. /\ DOMAIN tail = 1 .. m /\ \A k \in 1 .. m : tail[k] = lines[e + k]
       /\ DOMAIN a = 0 .. m /\ \A k \in 0 .. m : a[k] = f[e + k]
       /\ DOMAIN b = 0 .. m /\ \A k \in 0 .. m : b[k] = g[e + k + 1]
       /\ a = [k \in 0 .. m |-> f[e + k]] /\ b = [k \in 0 .. m |-> g[e + k + 1]]
  OBVIOUS
<1>13. tail \in Seq(L) /\ Len(tail) = m
  BY <1>2, <1>11
<1> HIDE DEF tail, a, b, id
<1>16. \A x \in ToSet(tail) : r.at < x.at
  <2>1. SUFFICES ASSUME NEW k \in 1 .. m PROVE r.at < tail[k].at
    BY <1>12 DEF ToSet
  <2>2. ~ (lines[e + k].at <= r.at) /\ lines[e + k] \in L
    BY <1>2, <1>5, <1>11
  <2>3. lines[e + k].at \in Int /\ r.at \in Int
    BY <1>0, <2>2 DEF AreLines
  <2> QED BY <1>12, <2>2, <2>3
<1>17. a \in [0 .. m -> Folded(L)] /\ b \in [0 .. m -> Folded(M)]
  BY <1>6, <1>7, <1>11, <1>12
<1>18. Same(Replay(a[0], r), b[0], r.id)
  <2>1. e + 1 \in 1 .. n + 1 /\ e + 1 - 1 = e /\ e \in 0 .. n + 1 /\ e \in 0 .. n /\ 0 \in 0 .. m
    BY <1>1, <1>5, <1>11
  <2>2. a[0] = f[e] /\ b[0] = g[e + 1]
    BY <1>11, <1>12, <2>1
  <2>3. g[e + 1] = Replay(g[e], r)
    <3>1. g[e + 1] = Replay(g[e + 1 - 1], new[e + 1])
      BY <1>7, <2>1
    <3> QED BY <1>5, <2>1, <3>1
  <2>4. f[e] \in Folded(M) /\ g[e] \in Folded(M)
    BY <1>6, <1>7, <1>15, <2>1
  <2>5. Same(Replay(f[e], r), Replay(g[e], r), r.id)
    BY <1>10, <2>4, ReplaySame DEF id
  <2> QED BY <2>2, <2>3, <2>5
<1>19. ASSUME NEW k \in 1 .. m
       PROVE  a[k] = Replay(a[k - 1], tail[k]) /\ b[k] = Replay(b[k - 1], tail[k])
  <2>1. a[k] = f[e + k] /\ a[k - 1] = f[e + k - 1] /\ tail[k] = lines[e + k]
    BY <1>11, <1>12
  <2>2. b[k] = g[e + k + 1] /\ b[k - 1] = g[e + k]
    BY <1>11, <1>12
  <2>3. f[e + k] = Replay(f[e + k - 1], lines[e + k])
    BY <1>6, <1>11
  <2>4. g[e + k + 1] = Replay(g[e + k], lines[e + k])
    <3>1. g[e + k + 1] = Replay(g[e + k + 1 - 1], new[e + k + 1])
      BY <1>7, <1>11
    <3>2. new[e + k + 1] = lines[e + k]
      BY <1>5, <1>11
    <3> QED BY <1>11, <3>1, <3>2
  <2> QED BY <2>1, <2>2, <2>3, <2>4
<1>20. a[m] = FoldOrderStream(records) /\ b[m] = FoldOrderStream(Append(records, r))
  <2>1. m \in 0 .. m
    BY <1>11
  <2>2. a[m] = f[n] /\ b[m] = g[n + 1]
    BY <1>11, <1>12, <2>1
  <2> QED BY <1>3, <1>4, <2>2 DEF more
<1>21. IsSplit(records, r, tail, a, b)
  BY <1>13, <1>16, <1>17, <1>18, <1>19, <1>20 DEF IsSplit, L, M
<1> QED BY <1>21

LEMMA FoldedGrows ==
    ASSUME NEW S, NEW T, S \subseteq T
    PROVE  Folded(S) \subseteq Folded(T)
<1>1. RungMaps(S) \subseteq RungMaps(T)
  BY DEF RungMaps
<1> QED BY <1>1 DEF Folded

\* What the lines of a tail that are not about a rung leave of it.
LEMMA TailPasses ==
    ASSUME NEW S, NEW tail \in Seq(S), NEW T, NEW f \in [0 .. Len(tail) -> Folded(T)],
           \A k \in 1 .. Len(tail) : f[k] = Replay(f[k - 1], tail[k]),
           NEW id
    PROVE  /\ (\A x \in ToSet(tail) : x.id # id) => Same(f[0], f[Len(tail)], id)
           /\ id \notin DOMAIN f[0] /\ (\A x \in ToSet(tail) : ~ (x.kind = "orderPlaced" /\ x.id = id)) =>
                \A k \in 0 .. Len(tail) : id \notin DOMAIN f[k]
<1> DEFINE n == Len(tail)
           T1 == { k \in 0 .. n : Same(f[0], f[k], id) }
           T2 == { k \in 0 .. n : id \notin DOMAIN f[k] }
<1>1. n \in Nat /\ \A k \in 1 .. n : tail[k] \in ToSet(tail)
  BY DEF ToSet
<1>2. ASSUME NEW k \in 0 .. n - 1
      PROVE  /\ k + 1 \in 1 .. n /\ k + 1 \in 0 .. n /\ tail[k + 1] \in ToSet(tail)
             /\ f[k] \in Folded(T) /\ f[k + 1] = Replay(f[k], tail[k + 1])
  <2>1. k + 1 \in 1 .. n /\ k \in 0 .. n /\ k + 1 \in 0 .. n /\ k + 1 - 1 = k
    BY <1>1
  <2>2. f[k + 1] = Replay(f[k + 1 - 1], tail[k + 1])
    BY <2>1
  <2> QED BY <1>1, <2>1, <2>2
<1> HIDE DEF n
<1>3. ASSUME \A x \in ToSet(tail) : x.id # id PROVE Same(f[0], f[n], id)
  <2>1. 0 \in T1
    BY <1>1 DEF Same
  <2>2. ASSUME NEW k \in 0 .. n - 1, k \in T1 PROVE k + 1 \in T1
    <3>1. Same(f[k], f[k + 1], id)
      BY <1>2, <1>3, ReplayOther
    <3>2. Same(f[0], f[k + 1], id)
      BY <2>2, <3>1 DEF Same
    <3> QED BY <1>2, <3>2
  <2> HIDE DEF T1
  <2>3. \A k \in 0 .. n : k \in T1
    BY <1>1, <2>1, <2>2, InductionUpTo
  <2> QED BY <1>1, <2>3 DEF T1
<1>4. ASSUME id \notin DOMAIN f[0], \A x \in ToSet(tail) : ~ (x.kind = "orderPlaced" /\ x.id = id)
      PROVE  \A k \in 0 .. n : id \notin DOMAIN f[k]
  <2>1. 0 \in T2
    BY <1>1, <1>4
  <2>2. ASSUME NEW k \in 0 .. n - 1, k \in T2 PROVE k + 1 \in T2
    <3>1. id \notin DOMAIN f[k + 1]
      BY <1>2, <1>4, <2>2, ReplayOther
    <3> QED BY <1>2, <3>1
  <2> HIDE DEF T2
  <2>3. \A k \in 0 .. n : k \in T2
    BY <1>1, <2>1, <2>2, InductionUpTo
  <2> QED BY <2>3 DEF T2
<1> QED BY <1>3, <1>4 DEF n

\* Two readings that agree about a rung agree after a tail.
LEMMA TailsAgree ==
    ASSUME NEW S, NEW tail \in Seq(S), NEW T, NEW a \in [0 .. Len(tail) -> Folded(T)],
           NEW b \in [0 .. Len(tail) -> Folded(T)],
           \A k \in 1 .. Len(tail) : a[k] = Replay(a[k - 1], tail[k]) /\ b[k] = Replay(b[k - 1], tail[k]),
           NEW id, Same(a[0], b[0], id)
    PROVE  Same(a[Len(tail)], b[Len(tail)], id)
<1> DEFINE n == Len(tail)
           T1 == { k \in 0 .. n : Same(a[k], b[k], id) }
<1>1. n \in Nat
  OBVIOUS
<1>2. 0 \in T1
  BY <1>1
<1>3. ASSUME NEW k \in 0 .. n - 1, k \in T1 PROVE k + 1 \in T1
  <2>1. k + 1 \in 1 .. n /\ k \in 0 .. n /\ k + 1 \in 0 .. n /\ k + 1 - 1 = k
    BY <1>1
  <2>2. /\ a[k + 1] = Replay(a[k + 1 - 1], tail[k + 1])
        /\ b[k + 1] = Replay(b[k + 1 - 1], tail[k + 1])
    BY <2>1
  <2>3. a[k] \in Folded(T) /\ b[k] \in Folded(T) /\ Same(a[k], b[k], id)
    BY <1>3, <2>1
  <2>4. Same(Replay(a[k], tail[k + 1]), Replay(b[k], tail[k + 1]), id)
    BY <2>3, ReplaySame
  <2> QED BY <2>1, <2>2, <2>4
<1> HIDE DEF T1
<1>4. \A k \in 0 .. n : k \in T1
  BY <1>1, <1>2, <1>3, InductionUpTo
<1> QED BY <1>1, <1>4 DEF T1

\* A rung placed by the only line about it has what the venue had filled of it.
LEMMA PlacedNew ==
    ASSUME NEW S, AreLines(S), NEW records \in Seq(S), NEW r \in S, r.kind = "orderPlaced",
           \A x \in ToSet(records) : x.id # r.id
    PROVE  /\ r.id \in DOMAIN FoldOrderStream(Append(records, r))
           /\ FoldOrderStream(Append(records, r))[r.id] = [placed |-> r, consumed |-> r.observed]
<1>1. PICK tail, a, b : IsSplit(records, r, tail, a, b)
  BY SplitAt
<1> DEFINE L == ToSet(records)
           new == [placed |-> r, consumed |-> r.observed]
<1>2. a[0] \in Folded(L)
  BY <1>1 DEF IsSplit
<1>3. r.id \notin DOMAIN a[0]
  <2>1. \A id \in DOMAIN a[0] : a[0][id].placed \in L /\ a[0][id].placed.id = id
    BY <1>2 DEF Folded, RungMaps
  <2> QED BY <2>1
<1>4. Replay(a[0], r) = [id \in DOMAIN a[0] \cup {r.id} |-> IF id = r.id THEN new ELSE a[0][id]]
  BY <1>3 DEF Replay
<1>5. r.id \in DOMAIN Replay(a[0], r) /\ Replay(a[0], r)[r.id] = new
  BY <1>4
<1> HIDE DEF new
<1>6. r.id \in DOMAIN b[0] /\ b[0][r.id] = new
  BY <1>1, <1>5 DEF IsSplit, Same
<1>7. \A x \in ToSet(tail) : x.id # r.id
  BY <1>1, MembersType DEF IsSplit
<1>8. Same(b[0], b[Len(tail)], r.id)
  BY <1>1, <1>7, TailPasses DEF IsSplit
<1> QED BY <1>1, <1>6, <1>8 DEF IsSplit, Same, new

\* An observation no line about the rung is later than is what it has consumed.
LEMMA ObservedLast ==
    ASSUME NEW S, AreLines(S), NEW records \in Seq(S), NEW r \in S, r.kind = "orderFillObserved",
           \A x \in ToSet(records) : x.id = r.id => x.at <= r.at,
           r.id \in DOMAIN FoldOrderStream(records)
    PROVE  /\ r.id \in DOMAIN FoldOrderStream(Append(records, r))
           /\ FoldOrderStream(Append(records, r))[r.id].placed = FoldOrderStream(records)[r.id].placed
           /\ FoldOrderStream(Append(records, r))[r.id].consumed = r.quantity
<1>1. PICK tail, a, b : IsSplit(records, r, tail, a, b)
  BY SplitAt
<1>2. \A x \in ToSet(tail) : x.id # r.id
  <2>1. ToSet(tail) \subseteq ToSet(records) /\ \A x \in ToSet(tail) : r.at < x.at
    BY <1>1, MembersType DEF IsSplit
  <2>2. \A x \in ToSet(records) : x.at \in Int /\ r.at \in Int
    BY MembersType DEF AreLines
  <2> QED BY <2>1, <2>2
<1>3. Same(a[0], a[Len(tail)], r.id) /\ Same(b[0], b[Len(tail)], r.id)
  BY <1>1, <1>2, TailPasses DEF IsSplit
<1>4. r.id \in DOMAIN a[0] /\ a[0][r.id] = FoldOrderStream(records)[r.id]
  BY <1>1, <1>3 DEF IsSplit, Same
<1>5. a[0] \in Folded(ToSet(records))
  BY <1>1 DEF IsSplit
<1>6. Replay(a[0], r) = [a[0] EXCEPT ![r.id].consumed = r.quantity]
  BY <1>4 DEF Replay
<1>7. /\ r.id \in DOMAIN Replay(a[0], r)
      /\ Replay(a[0], r)[r.id].placed = a[0][r.id].placed
      /\ Replay(a[0], r)[r.id].consumed = r.quantity
  <2>1. \E D, T : a[0] \in [D -> [placed : T, consumed : Nat]]
    BY <1>5 DEF Folded, RungMaps
  <2> QED BY <1>4, <1>6, <2>1
<1>8. r.id \in DOMAIN b[0] /\ b[0][r.id] = Replay(a[0], r)[r.id]
  BY <1>1, <1>7 DEF IsSplit, Same
<1> QED BY <1>1, <1>3, <1>4, <1>7, <1>8 DEF IsSplit, Same

\* A rung that is in the book and placed again, not earlier than before, is as it was.
LEMMA PlacedAgain ==
    ASSUME NEW S, AreLines(S), NEW records \in Seq(S), NEW r \in S, r.kind = "orderPlaced",
           \A x \in ToSet(records) : x.kind = "orderPlaced" /\ x.id = r.id => x.at <= r.at,
           r.id \in DOMAIN FoldOrderStream(records)
    PROVE  Same(FoldOrderStream(records), FoldOrderStream(Append(records, r)), r.id)
<1>1. PICK tail, a, b : IsSplit(records, r, tail, a, b)
  BY SplitAt
<1> DEFINE M == ToSet(records) \cup {r}
<1>2. \A x \in ToSet(tail) : ~ (x.kind = "orderPlaced" /\ x.id = r.id)
  <2>1. ToSet(tail) \subseteq ToSet(records) /\ \A x \in ToSet(tail) : r.at < x.at
    BY <1>1, MembersType DEF IsSplit
  <2>2. \A x \in ToSet(records) : x.at \in Int /\ r.at \in Int
    BY MembersType DEF AreLines
  <2> QED BY <2>1, <2>2
<1>3. r.id \in DOMAIN a[0]
  <2>1. SUFFICES ASSUME r.id \notin DOMAIN a[0] PROVE FALSE
    OBVIOUS
  <2>2. r.id \notin DOMAIN a[Len(tail)]
    <3>1. \A k \in 0 .. Len(tail) : r.id \notin DOMAIN a[k]
      BY <1>1, <1>2, <2>1, TailPasses DEF IsSplit
    <3>2. Len(tail) \in 0 .. Len(tail)
      BY <1>1 DEF IsSplit
    <3> QED BY <3>1, <3>2
  <2> QED BY <1>1, <2>2 DEF IsSplit
<1>4. Replay(a[0], r) = a[0]
  BY <1>3 DEF Replay
<1>5. Same(a[0], b[0], r.id)
  BY <1>1, <1>4 DEF IsSplit
<1>6. a \in [0 .. Len(tail) -> Folded(M)]
  <2>1. Folded(ToSet(records)) \subseteq Folded(M)
    BY FoldedGrows
  <2> QED BY <1>1, <2>1 DEF IsSplit
<1>7. Same(a[Len(tail)], b[Len(tail)], r.id)
  <2>1. /\ tail \in Seq(ToSet(records)) /\ b \in [0 .. Len(tail) -> Folded(M)]
        /\ \A k \in 1 .. Len(tail) : a[k] = Replay(a[k - 1], tail[k]) /\ b[k] = Replay(b[k - 1], tail[k])
    BY <1>1 DEF IsSplit
  <2> HIDE DEF M
  <2> QED BY <1>5, <1>6, <2>1, TailsAgree
<1> QED BY <1>1, <1>7 DEF IsSplit

\* A rung cancelled not earlier than it was ever placed is out of the book.
LEMMA CancelledLast ==
    ASSUME NEW S, AreLines(S), NEW records \in Seq(S), NEW r \in S, r.kind = "orderCancelled",
           \A x \in ToSet(records) : x.kind = "orderPlaced" /\ x.id = r.id => x.at <= r.at
    PROVE  r.id \notin DOMAIN FoldOrderStream(Append(records, r))
<1>1. PICK tail, a, b : IsSplit(records, r, tail, a, b)
  BY SplitAt
<1>2. \A x \in ToSet(tail) : ~ (x.kind = "orderPlaced" /\ x.id = r.id)
  <2>1. ToSet(tail) \subseteq ToSet(records) /\ \A x \in ToSet(tail) : r.at < x.at
    BY <1>1, MembersType DEF IsSplit
  <2>2. \A x \in ToSet(records) : x.at \in Int /\ r.at \in Int
    BY MembersType DEF AreLines
  <2> QED BY <2>1, <2>2
<1>3. r.id \notin DOMAIN Replay(a[0], r)
  BY DEF Replay, Retire, Restrict
<1>4. r.id \notin DOMAIN b[0]
  BY <1>1, <1>3 DEF IsSplit, Same
<1>5. \A k \in 0 .. Len(tail) : r.id \notin DOMAIN b[k]
  BY <1>1, <1>2, <1>4, TailPasses DEF IsSplit
<1>6. Len(tail) \in 0 .. Len(tail)
  BY <1>1 DEF IsSplit
<1> QED BY <1>1, <1>5, <1>6 DEF IsSplit

\* The rung whose consumption is set.
LEMMA ConsumedSet ==
    ASSUME NEW f, \E D, V : f \in [D -> [placed : V, consumed : Nat]], NEW id \in DOMAIN f,
           NEW q, NEW g, g = [f EXCEPT ![id].consumed = q]
    PROVE  id \in DOMAIN g /\ g[id].placed = f[id].placed /\ g[id].consumed = q
OBVIOUS

\* A fill not earlier than the placement consumes no less than before it and no more than
\* its quantity more, and exactly that when no observation is later.
LEMMA FilledThen ==
    ASSUME NEW S, AreLines(S), NEW records \in Seq(S), NEW r \in S, r.kind = "orderFilled",
           \A x \in ToSet(records) : x.kind = "orderPlaced" /\ x.id = r.id => x.at <= r.at,
           r.id \in DOMAIN FoldOrderStream(records)
    PROVE  LET before == FoldOrderStream(records)[r.id]
               after == FoldOrderStream(Append(records, r))[r.id]
           IN  /\ r.id \in DOMAIN FoldOrderStream(Append(records, r))
               /\ after.placed = before.placed
               /\ before.consumed <= after.consumed
               /\ (\A x \in ToSet(records) : x.kind = "orderFillObserved" /\ x.id = r.id => x.at <= r.at)
                    => after.consumed = before.consumed + r.quantity
<1>1. PICK tail, a, b : IsSplit(records, r, tail, a, b)
  BY SplitAt
<1> DEFINE n == Len(tail)
           id == r.id
           late == \A x \in ToSet(records) : x.kind = "orderFillObserved" /\ x.id = id => x.at <= r.at
<1>2. /\ n \in Nat /\ \A k \in 1 .. n : tail[k] \in ToSet(tail) /\ tail[k] \in ToSet(records)
      /\ \A k \in 0 .. n : a[k] \in Folded(ToSet(records)) /\ b[k] \in Folded(ToSet(records) \cup {r})
  <2>1. tail \in Seq(ToSet(records)) /\ n \in Nat
    BY <1>1 DEF IsSplit
  <2>2. \A k \in 1 .. n : tail[k] \in ToSet(records)
    BY <2>1
  <2>3. \A k \in 1 .. n : tail[k] \in ToSet(tail)
    BY <2>1 DEF ToSet
  <2>4. /\ a \in [0 .. n -> Folded(ToSet(records))]
        /\ b \in [0 .. n -> Folded(ToSet(records) \cup {r})]
    BY <1>1 DEF IsSplit
  <2> HIDE DEF n
  <2>5. \A k \in 0 .. n : a[k] \in Folded(ToSet(records)) /\ b[k] \in Folded(ToSet(records) \cup {r})
    BY <2>4
  <2> QED BY <2>1, <2>2, <2>3, <2>5
<1>3. /\ \A x \in ToSet(tail) : ~ (x.kind = "orderPlaced" /\ x.id = id)
      /\ late => \A x \in ToSet(tail) : ~ (x.kind = "orderFillObserved" /\ x.id = id)
  <2>1. ToSet(tail) \subseteq ToSet(records) /\ \A x \in ToSet(tail) : r.at < x.at
    BY <1>1, MembersType DEF IsSplit
  <2>2. \A x \in ToSet(records) : x.at \in Int /\ r.at \in Int
    BY MembersType DEF AreLines
  <2> QED BY <2>1, <2>2
<1>4. \A k \in 1 .. n : tail[k].quantity \in Nat
  BY <1>2, MembersType DEF AreLines
<1>5. r.quantity \in Nat
  BY DEF AreLines
<1>20. \A k \in 0 .. n : /\ id \in DOMAIN a[k] => a[k][id].consumed \in Nat
                         /\ id \in DOMAIN b[k] => b[k][id].consumed \in Nat
  BY <1>2 DEF Folded, RungMaps
<1>21. \A k \in 1 .. n : a[k] = Replay(a[k - 1], tail[k]) /\ b[k] = Replay(b[k - 1], tail[k])
  BY <1>1 DEF IsSplit
<1>22. a[n] = FoldOrderStream(records) /\ b[n] = FoldOrderStream(Append(records, r))
  BY <1>1 DEF IsSplit
\* Once out of the book it would stay out.
<1>6. \A k \in 0 .. n : id \in DOMAIN a[k]
  <2> DEFINE Out == { k \in 0 .. n : id \in DOMAIN a[n - k] }
  <2>1. 0 \in Out
    BY <1>2, <1>22
  <2>2. ASSUME NEW k \in 0 .. n - 1, k \in Out PROVE k + 1 \in Out
    <3> DEFINE m == n - k
    <3>1. /\ m \in 1 .. n /\ m - 1 \in 0 .. n /\ n - (k + 1) = m - 1 /\ k + 1 \in 0 .. n
      BY <1>2
    <3>2. id \in DOMAIN a[m]
      BY <2>2
    <3> HIDE DEF m
    <3>3. a[m] = Replay(a[m - 1], tail[m]) /\ a[m - 1] \in Folded(ToSet(records))
      BY <1>2, <1>21, <3>1
    <3>4. id \in DOMAIN a[m - 1]
      BY <1>2, <1>3, <3>1, <3>2, <3>3, ReplayOther
    <3> QED BY <3>1, <3>4
  <2> HIDE DEF Out
  <2>3. \A k \in 0 .. n : k \in Out
    BY <1>2, <2>1, <2>2, InductionUpTo
  <2>4. \A k \in 0 .. n : n - k \in 0 .. n /\ n - (n - k) = k
    BY <1>2
  <2> QED BY <2>3, <2>4 DEF Out
<1> DEFINE Near(k) == /\ id \in DOMAIN b[k]
                      /\ b[k][id].placed = a[k][id].placed
                      /\ a[k][id].consumed <= b[k][id].consumed
                      /\ late => b[k][id].consumed = a[k][id].consumed + r.quantity
           T == { k \in 0 .. n : Near(k) }
<1> HIDE DEF late, n
<1>7. 0 \in T
  <2>0. 0 \in 0 .. n
    BY <1>2
  <2>1. id \in DOMAIN a[0] /\ a[0] \in Folded(ToSet(records))
    BY <1>2, <1>6, <2>0
  <2>2. Replay(a[0], r) = [a[0] EXCEPT ![id].consumed = a[0][id].consumed + r.quantity]
    <3>1. \E D, V : a[0] \in [D -> [placed : V, consumed : Nat]]
      BY <2>1 DEF Folded, RungMaps
    <3> QED BY <2>1, <3>1 DEF Replay
  <2>3. /\ id \in DOMAIN Replay(a[0], r) /\ Replay(a[0], r)[id].placed = a[0][id].placed
        /\ Replay(a[0], r)[id].consumed = a[0][id].consumed + r.quantity
    <3>1. \E D, V : a[0] \in [D -> [placed : V, consumed : Nat]]
      BY <2>1 DEF Folded, RungMaps
    <3> QED BY <2>1, <2>2, <3>1
  <2>4. id \in DOMAIN b[0] /\ b[0][id] = Replay(a[0], r)[id]
    BY <1>1, <2>3 DEF IsSplit, Same
  <2>5. a[0][id].consumed <= a[0][id].consumed + r.quantity
    BY <1>5, <1>20, <2>0, <2>1
  <2>6. Near(0)
    BY <2>3, <2>4, <2>5
  <2> QED BY <2>0, <2>6
<1>8. ASSUME NEW k \in 0 .. n - 1, k \in T PROVE k + 1 \in T
  <2> DEFINE x == tail[k + 1]
  <2>1. k + 1 \in 1 .. n /\ k \in 0 .. n /\ k + 1 \in 0 .. n /\ k + 1 - 1 = k
    BY <1>2
  <2>2. a[k + 1] = Replay(a[k], x) /\ b[k + 1] = Replay(b[k], x)
    <3>1. /\ a[k + 1] = Replay(a[k + 1 - 1], tail[k + 1])
          /\ b[k + 1] = Replay(b[k + 1 - 1], tail[k + 1])
      BY <1>21, <2>1
    <3> QED BY <2>1, <3>1
  <2>3. /\ a[k] \in Folded(ToSet(records)) /\ b[k] \in Folded(ToSet(records) \cup {r})
        /\ id \in DOMAIN a[k] /\ id \in DOMAIN a[k + 1] /\ Near(k)
    BY <1>2, <1>6, <1>8, <2>1
  <2>4. x \in ToSet(tail) /\ x.quantity \in Nat
    BY <1>2, <1>4, <2>1
  <2> HIDE DEF x
  <2>5. CASE x.id # id
    <3>1. Same(a[k], a[k + 1], id) /\ Same(b[k], b[k + 1], id)
      BY <2>2, <2>3, <2>5, ReplayOther
    <3>2. Near(k + 1)
      BY <2>3, <3>1 DEF Same
    <3> QED BY <2>1, <3>2
  <2>6. CASE x.id = id /\ x.kind = "orderCancelled"
    <3>1. id \notin DOMAIN Replay(a[k], x)
      BY <2>6 DEF Replay, Retire, Restrict
    <3> QED BY <2>2, <2>3, <3>1
  <2>11. \E D, V : a[k] \in [D -> [placed : V, consumed : Nat]]
    BY <2>3 DEF Folded, RungMaps
  <2>12. \E D, V : b[k] \in [D -> [placed : V, consumed : Nat]]
    BY <2>3 DEF Folded, RungMaps
  <2>7. CASE x.id = id /\ x.kind = "orderFilled"
    <3>1. /\ a[k + 1] = [a[k] EXCEPT ![id].consumed = a[k][id].consumed + x.quantity]
          /\ b[k + 1] = [b[k] EXCEPT ![id].consumed = b[k][id].consumed + x.quantity]
      BY <2>2, <2>3, <2>7 DEF Replay
    <3>21. /\ a[k + 1][id].placed = a[k][id].placed
           /\ a[k + 1][id].consumed = a[k][id].consumed + x.quantity
      BY <2>3, <2>11, <3>1, ConsumedSet
    <3>22. /\ id \in DOMAIN b[k + 1] /\ b[k + 1][id].placed = b[k][id].placed
           /\ b[k + 1][id].consumed = b[k][id].consumed + x.quantity
      <4>1. id \in DOMAIN b[k]
        BY <2>3
      <4>2. b[k + 1] = [b[k] EXCEPT ![id].consumed = b[k][id].consumed + x.quantity]
        BY <3>1
      <4> QED BY <2>12, <4>1, <4>2, ConsumedSet
    <3>2. /\ id \in DOMAIN b[k + 1]
          /\ a[k + 1][id].placed = a[k][id].placed /\ b[k + 1][id].placed = b[k][id].placed
          /\ a[k + 1][id].consumed = a[k][id].consumed + x.quantity
          /\ b[k + 1][id].consumed = b[k][id].consumed + x.quantity
      BY <3>21, <3>22
    <3>3. a[k][id].consumed \in Nat /\ b[k][id].consumed \in Nat
      BY <1>20, <2>1, <2>3
    <3>4. a[k + 1][id].consumed <= b[k + 1][id].consumed
      BY <2>3, <2>4, <3>2, <3>3
    <3>5. late => b[k + 1][id].consumed = a[k + 1][id].consumed + r.quantity
      BY <1>5, <2>3, <2>4, <3>2, <3>3
    <3>6. Near(k + 1)
      BY <2>3, <3>2, <3>4, <3>5
    <3> QED BY <2>1, <3>6
  <2>8. CASE x.id = id /\ x.kind = "orderFillObserved"
    <3>1. /\ a[k + 1] = [a[k] EXCEPT ![id].consumed = x.quantity]
          /\ b[k + 1] = [b[k] EXCEPT ![id].consumed = x.quantity]
      BY <2>2, <2>3, <2>8 DEF Replay
    <3>21. /\ a[k + 1][id].placed = a[k][id].placed /\ a[k + 1][id].consumed = x.quantity
      <4>1. id \in DOMAIN a[k]
        BY <2>3
      <4>2. a[k + 1] = [a[k] EXCEPT ![id].consumed = x.quantity]
        BY <3>1
      <4> QED BY <2>11, <4>1, <4>2, ConsumedSet
    <3>22. /\ id \in DOMAIN b[k + 1] /\ b[k + 1][id].placed = b[k][id].placed
           /\ b[k + 1][id].consumed = x.quantity
      <4>1. id \in DOMAIN b[k]
        BY <2>3
      <4>2. b[k + 1] = [b[k] EXCEPT ![id].consumed = x.quantity]
        BY <3>1
      <4> QED BY <2>12, <4>1, <4>2, ConsumedSet
    <3>2. /\ id \in DOMAIN b[k + 1]
          /\ a[k + 1][id].placed = a[k][id].placed /\ b[k + 1][id].placed = b[k][id].placed
          /\ a[k + 1][id].consumed = x.quantity /\ b[k + 1][id].consumed = x.quantity
      BY <3>21, <3>22
    <3>3. ~ late
      BY <1>3, <2>4, <2>8
    <3>4. a[k + 1][id].consumed <= b[k + 1][id].consumed
      BY <2>4, <3>2
    <3>5. Near(k + 1)
      BY <2>3, <3>2, <3>3, <3>4
    <3> QED BY <2>1, <3>5
  <2>9. CASE x.id = id /\ x.kind \notin {"orderPlaced", "orderCancelled", "orderFilled", "orderFillObserved"}
    <3>1. Replay(a[k], x) = a[k] /\ Replay(b[k], x) = b[k]
      BY <2>9 DEF Replay
    <3>2. Near(k + 1)
      BY <2>2, <2>3, <3>1
    <3> QED BY <2>1, <3>2
  <2> QED BY <1>3, <2>4, <2>5, <2>6, <2>7, <2>8, <2>9
<1>9. Near(n)
  <2> HIDE DEF T
  <2>1. \A k \in 0 .. n : k \in T
    BY <1>2, <1>7, <1>8, InductionUpTo
  <2> QED BY <1>2, <2>1 DEF T
<1> QED BY <1>9, <1>22 DEF late
----------------------------------------------------------------------------
(* Sums over the domain of a function.                                     *)

\* sum gives what the figures of each part of D come to.
IsSum(sum, f, D) ==
    /\ sum \in [SUBSET D -> Int] /\ sum[{}] = 0
    /\ \A s \in SUBSET D : s # {} =>
            sum[s] = f[CHOOSE x \in s : TRUE] + sum[s \ {CHOOSE x \in s : TRUE}]

\* A part of a finite set, without one of its members, is a smaller part.
LEMMA PartWithout ==
    ASSUME NEW D, IsFiniteSet(D), NEW s \in SUBSET D
    PROVE  /\ IsFiniteSet(s) /\ Cardinality(s) \in 0 .. Cardinality(D)
           /\ Cardinality(D) \in Nat
           /\ s = {} <=> Cardinality(s) = 0
           /\ \A x \in s : s \ {x} \in SUBSET D /\ Cardinality(s \ {x}) = Cardinality(s) - 1
<1>1. IsFiniteSet(s) /\ Cardinality(D) \in Nat /\ Cardinality(s) \in Nat
      /\ Cardinality(s) <= Cardinality(D)
  BY FS_Subset, FS_CardinalityType
<1>2. s = {} <=> Cardinality(s) = 0
  BY <1>1, FS_EmptySet
<1>3. \A x \in s : Cardinality(s \ {x}) = Cardinality(s) - 1
  BY <1>1, FS_RemoveElement
<1> QED BY <1>1, <1>2, <1>3

LEMMA SumExists ==
    ASSUME NEW D, IsFiniteSet(D), NEW f \in [D -> Int]
    PROVE  \E sum : IsSum(sum, f, D)
<1> DEFINE one(s) == CHOOSE x \in s : TRUE
           Good(g, m) == /\ g[{}] = 0
                         /\ \A s \in SUBSET D : s # {} /\ Cardinality(s) <= m =>
                                g[s] = f[one(s)] + g[s \ {one(s)}]
           T == { m \in 0 .. Cardinality(D) : \E g \in [SUBSET D -> Int] : Good(g, m) }
<1>0. Cardinality(D) \in Nat
  BY FS_CardinalityType
<1>1. \A s : s # {} => one(s) \in s
  OBVIOUS
<1> HIDE DEF one
<1>2. 0 \in T
  <2> DEFINE g == [s \in SUBSET D |-> 0]
  <2>1. g \in [SUBSET D -> Int] /\ g[{}] = 0
    OBVIOUS
  <2>2. \A s \in SUBSET D : s # {} => ~ (Cardinality(s) <= 0)
    BY PartWithout
  <2>3. 0 \in 0 .. Cardinality(D)
    BY <1>0
  <2> HIDE DEF g
  <2> QED BY <2>1, <2>2, <2>3
<1>3. ASSUME NEW m \in 0 .. Cardinality(D) - 1, m \in T PROVE m + 1 \in T
  <2>1. PICK g \in [SUBSET D -> Int] : Good(g, m)
    BY <1>3
  <2> DEFINE new == [s \in SUBSET D |->
                        IF Cardinality(s) = m + 1 THEN f[one(s)] + g[s \ {one(s)}] ELSE g[s]]
  <2>2. \A s \in SUBSET D : Cardinality(s) = m + 1 =>
            /\ s # {} /\ one(s) \in s /\ f[one(s)] \in Int /\ s \ {one(s)} \in SUBSET D
            /\ g[s \ {one(s)}] \in Int
    BY <1>0, <1>1, PartWithout
  <2>3. new \in [SUBSET D -> Int]
    BY <2>2
  <2>4. \A s \in SUBSET D : Cardinality(s) <= m => new[s] = g[s]
    BY <1>0, PartWithout
  <2>5. \A s \in SUBSET D : Cardinality(s) = m + 1 => new[s] = f[one(s)] + g[s \ {one(s)}]
    OBVIOUS
  <2> HIDE DEF new
  <2>6. new[{}] = 0
    <3>1. {} \in SUBSET D /\ Cardinality({}) <= m
      BY <1>0, FS_EmptySet
    <3> QED BY <2>1, <2>4, <3>1
  <2>7. ASSUME NEW s \in SUBSET D, s # {}, Cardinality(s) <= m + 1
        PROVE  new[s] = f[one(s)] + new[s \ {one(s)}]
    <3>1. /\ one(s) \in s /\ s \ {one(s)} \in SUBSET D /\ Cardinality(s) \in Nat
          /\ Cardinality(s \ {one(s)}) = Cardinality(s) - 1
      BY <1>1, <2>7, PartWithout
    <3>2. new[s \ {one(s)}] = g[s \ {one(s)}]
      BY <2>4, <2>7, <3>1
    <3>3. CASE Cardinality(s) = m + 1
      BY <2>5, <3>2, <3>3
    <3>4. CASE Cardinality(s) # m + 1
      <4>1. Cardinality(s) <= m
        BY <2>7, <3>1, <3>4
      <4> QED BY <2>1, <2>4, <2>7, <3>2, <4>1
    <3> QED BY <3>3, <3>4
  <2>8. m + 1 \in 0 .. Cardinality(D)
    BY <1>0
  <2> QED BY <2>3, <2>6, <2>7, <2>8
<1>4. Cardinality(D) \in T
  <2> HIDE DEF T
  <2>1. \A i \in 0 .. Cardinality(D) : i \in T
    BY <1>0, <1>2, <1>3, InductionUpTo
  <2> QED BY <1>0, <2>1
<1>5. PICK g \in [SUBSET D -> Int] : Good(g, Cardinality(D))
  BY <1>4
<1>6. IsSum(g, f, D)
  <2>1. \A s \in SUBSET D : Cardinality(s) <= Cardinality(D)
    BY PartWithout
  <2> QED BY <1>5, <2>1 DEF IsSum, one
<1> QED BY <1>6

\* Two sums of figures that agree on a part agree on it.
BothSum(a, b, f, D) ==
    /\ a[{}] = 0 /\ b[{}] = 0
    /\ \A s \in SUBSET D : s # {} => \E x \in s :
            a[s] = f[x] + a[s \ {x}] /\ b[s] = f[x] + b[s \ {x}]

LEMMA SumsAgree ==
    ASSUME NEW D, IsFiniteSet(D), NEW f, NEW a, NEW b, BothSum(a, b, f, D)
    PROVE  a[D] = b[D]
<1> DEFINE T == { m \in 0 .. Cardinality(D) :
                    \A s \in SUBSET D : Cardinality(s) <= m => a[s] = b[s] }
<1>0. Cardinality(D) \in Nat
  BY FS_CardinalityType
<1>3. 0 \in T
  <2>1. ASSUME NEW s \in SUBSET D, Cardinality(s) <= 0 PROVE a[s] = b[s]
    <3>1. s = {}
      BY <2>1, PartWithout
    <3> QED BY <3>1, Zenon DEF BothSum
  <2> QED BY <1>0, <2>1
<1>4. ASSUME NEW m \in 0 .. Cardinality(D) - 1, m \in T PROVE m + 1 \in T
  <2>1. ASSUME NEW s \in SUBSET D, Cardinality(s) <= m + 1, s # {} PROVE a[s] = b[s]
    <3>1. PICK x \in s : a[s] = f[x] + a[s \ {x}] /\ b[s] = f[x] + b[s \ {x}]
      BY <2>1 DEF BothSum
    <3>2. s \ {x} \in SUBSET D /\ Cardinality(s \ {x}) <= m
      BY <2>1, PartWithout
    <3>3. a[s \ {x}] = b[s \ {x}]
      BY <1>4, <3>2
    <3> QED BY <3>1, <3>3, Zenon
  <2>2. m + 1 \in 0 .. Cardinality(D)
    BY <1>0
  <2>3. \A s \in SUBSET D : Cardinality(s) <= m + 1 => a[s] = b[s]
    <3>1. a[{}] = b[{}]
      BY DEF BothSum
    <3> QED BY <2>1, <3>1, Zenon
  <2> QED BY <2>2, <2>3
<1> HIDE DEF T
<1>5. \A i \in 0 .. Cardinality(D) : i \in T
  BY <1>0, <1>3, <1>4, InductionUpTo
<1>6. Cardinality(D) \in T /\ D \in SUBSET D /\ Cardinality(D) <= Cardinality(D)
  BY <1>0, <1>5
<1> QED BY <1>6 DEF T

LEMMA SumIs ==
    ASSUME NEW D, IsFiniteSet(D), NEW f \in [D -> Int], NEW sum, IsSum(sum, f, D)
    PROVE  SumFunction(f) = sum[D] /\ SumFunction(f) \in Int
<1> DEFINE iter == CHOOSE g : g = [s \in SUBSET D |->
                        IF s = {} THEN 0
                        ELSE f[CHOOSE x \in s : TRUE] + g[s \ {CHOOSE x \in s : TRUE}]]
<1>1. SumFunction(f) = iter[D]
  BY DEF SumFunction, SumFunctionOnSet, FoldFunctionOnSet, MapThenFoldSet
<1>2. sum = [s \in SUBSET D |->
                IF s = {} THEN 0
                ELSE f[CHOOSE x \in s : TRUE] + sum[s \ {CHOOSE x \in s : TRUE}]]
  BY DEF IsSum
<1>3. iter = [s \in SUBSET D |->
                IF s = {} THEN 0
                ELSE f[CHOOSE x \in s : TRUE] + iter[s \ {CHOOSE x \in s : TRUE}]]
  BY <1>2
<1> HIDE DEF iter
<1>4. iter[{}] = 0 /\ \A s \in SUBSET D : s # {} =>
        iter[s] = f[CHOOSE x \in s : TRUE] + iter[s \ {CHOOSE x \in s : TRUE}]
  BY <1>3
<1>5. iter[D] = sum[D]
  <2>1. \A s \in SUBSET D : s # {} => \E x \in s :
            iter[s] = f[x] + iter[s \ {x}] /\ sum[s] = f[x] + sum[s \ {x}]
    <3>1. ASSUME NEW s \in SUBSET D, s # {}
          PROVE  \E x \in s : iter[s] = f[x] + iter[s \ {x}] /\ sum[s] = f[x] + sum[s \ {x}]
      <4> DEFINE one == CHOOSE x \in s : TRUE
      <4>1. one \in s
        BY <3>1
      <4>2. iter[s] = f[one] + iter[s \ {one}] /\ sum[s] = f[one] + sum[s \ {one}]
        BY <1>4, <3>1 DEF IsSum
      <4> HIDE DEF one
      <4> QED BY <4>1, <4>2
    <3> QED BY <3>1
  <2>2. iter[{}] = 0 /\ sum[{}] = 0
    BY <1>4 DEF IsSum
  <2>3. BothSum(iter, sum, f, D)
    BY <2>1, <2>2 DEF BothSum
  <2> QED BY <2>3, SumsAgree
<1> QED BY <1>1, <1>5 DEF IsSum

\* Whichever member is set apart, the rest comes to the rest.
SetsApart(sum, f, D) == \A s \in SUBSET D : \A x \in s : sum[s] = f[x] + sum[s \ {x}]

LEMMA SumSetsApart ==
    ASSUME NEW D, IsFiniteSet(D), NEW f \in [D -> Int], NEW sum, IsSum(sum, f, D)
    PROVE  SetsApart(sum, f, D)
<1> DEFINE one(s) == CHOOSE x \in s : TRUE
           T == { m \in 0 .. Cardinality(D) : \A s \in SUBSET D : Cardinality(s) <= m =>
                        \A x \in s : sum[s] = f[x] + sum[s \ {x}] }
<1>0. Cardinality(D) \in Nat
  BY FS_CardinalityType
<1>1. \A s : s # {} => one(s) \in s
  OBVIOUS
<1>2. sum \in [SUBSET D -> Int] /\ \A s \in SUBSET D : s # {} =>
            sum[s] = f[one(s)] + sum[s \ {one(s)}]
  BY DEF IsSum
<1> HIDE DEF one
<1>3. 0 \in T
  <2>1. \A s \in SUBSET D : Cardinality(s) <= 0 => s = {}
    BY PartWithout
  <2> QED BY <1>0, <2>1
<1>4. ASSUME NEW m \in 0 .. Cardinality(D) - 1, m \in T PROVE m + 1 \in T
  <2>1. ASSUME NEW s \in SUBSET D, Cardinality(s) <= m + 1, NEW x \in s
        PROVE  sum[s] = f[x] + sum[s \ {x}]
    <3> DEFINE c == one(s)
    <3>1. c \in s /\ sum[s] = f[c] + sum[s \ {c}]
      BY <1>1, <1>2, <2>1
    <3> HIDE DEF c
    <3>2. CASE c = x
      BY <3>1, <3>2
    <3>3. CASE c # x
      <4>1. /\ s \ {x} \in SUBSET D /\ Cardinality(s \ {x}) <= m
            /\ s \ {c} \in SUBSET D /\ Cardinality(s \ {c}) <= m
        BY <2>1, <3>1, PartWithout
      <4>2. /\ sum[s \ {c}] = f[x] + sum[(s \ {c}) \ {x}]
            /\ sum[s \ {x}] = f[c] + sum[(s \ {x}) \ {c}]
        BY <1>4, <3>1, <3>3, <4>1
      <4>3. (s \ {c}) \ {x} = (s \ {x}) \ {c} /\ (s \ {x}) \ {c} \in SUBSET D
        OBVIOUS
      <4>4. f[x] \in Int /\ f[c] \in Int /\ sum[(s \ {x}) \ {c}] \in Int
        BY <1>2, <3>1, <4>3
      <4> DEFINE rest == sum[(s \ {x}) \ {c}]
      <4>5. sum[s \ {c}] = f[x] + rest /\ sum[s \ {x}] = f[c] + rest
        BY <4>2, <4>3, Zenon
      <4>6. sum[s] = f[c] + (f[x] + rest)
        BY <3>1, <4>5, Zenon
      <4>7. rest \in Int
        BY <4>4
      <4> HIDE DEF rest
      <4>8. f[c] + (f[x] + rest) = f[x] + (f[c] + rest)
        BY <4>4, <4>7
      <4> QED BY <4>5, <4>6, <4>8, Zenon
    <3> QED BY <3>2, <3>3
  <2>2. m + 1 \in 0 .. Cardinality(D)
    BY <1>0
  <2> QED BY <2>1, <2>2
<1> HIDE DEF T
<1>5. \A i \in 0 .. Cardinality(D) : i \in T
  BY <1>0, <1>3, <1>4, InductionUpTo
<1>6. Cardinality(D) \in T /\ \A s \in SUBSET D : Cardinality(s) <= Cardinality(D)
  BY <1>0, <1>5, PartWithout
<1> QED BY <1>6 DEF T, SetsApart

\* The sum of fewer and lesser figures is not greater.
LEMMA SumAtMost ==
    ASSUME NEW E, IsFiniteSet(E), NEW D \in SUBSET E, NEW f \in [D -> Nat], NEW h \in [E -> Nat],
           \A x \in D : f[x] <= h[x]
    PROVE  SumFunction(f) <= SumFunction(h) /\ SumFunction(f) \in Int /\ SumFunction(h) \in Int
<1>0. IsFiniteSet(D) /\ f \in [D -> Int] /\ h \in [E -> Int] /\ Cardinality(E) \in Nat
  BY FS_Subset, FS_CardinalityType
<1>1. PICK a : IsSum(a, f, D)
  BY <1>0, SumExists
<1>2. PICK b : IsSum(b, h, E)
  BY <1>0, SumExists
<1>3. /\ \A s \in SUBSET D : \A x \in s : a[s] = f[x] + a[s \ {x}]
      /\ \A s \in SUBSET E : \A x \in s : b[s] = h[x] + b[s \ {x}]
  <2>1. SetsApart(a, f, D) /\ SetsApart(b, h, E)
    BY <1>0, <1>1, <1>2, SumSetsApart
  <2> QED BY <2>1 DEF SetsApart
<1>4. /\ a \in [SUBSET D -> Int] /\ a[{}] = 0 /\ b \in [SUBSET E -> Int] /\ b[{}] = 0
  BY <1>1, <1>2 DEF IsSum
<1> DEFINE T == { m \in 0 .. Cardinality(E) :
                    \A s \in SUBSET E : Cardinality(s) <= m => a[s \cap D] <= b[s] }
<1>5. 0 \in T
  <2>1. ASSUME NEW s \in SUBSET E, Cardinality(s) <= 0 PROVE a[s \cap D] <= b[s]
    <3>1. s = {} /\ s \cap D = {}
      BY <2>1, PartWithout
    <3>2. a[s \cap D] = 0 /\ b[s] = 0
      BY <1>4, <3>1, Zenon
    <3> QED BY <3>2
  <2> QED BY <1>0, <2>1
<1>6. ASSUME NEW m \in 0 .. Cardinality(E) - 1, m \in T PROVE m + 1 \in T
  <2>1. ASSUME NEW s \in SUBSET E, Cardinality(s) <= m + 1, s # {}
        PROVE  a[s \cap D] <= b[s]
    <3>1. PICK x \in s : TRUE
      BY <2>1
    <3>2. s \ {x} \in SUBSET E /\ Cardinality(s \ {x}) <= m
      BY <2>1, PartWithout
    <3>3. a[(s \ {x}) \cap D] <= b[s \ {x}] /\ b[s] = h[x] + b[s \ {x}]
      BY <1>3, <1>6, <3>2
    <3>4. a[(s \ {x}) \cap D] \in Int /\ b[s \ {x}] \in Int /\ h[x] \in Nat
      BY <1>4, <3>2
    <3>5. CASE x \in D
      <4>1. s \cap D \in SUBSET D /\ x \in s \cap D /\ (s \cap D) \ {x} = (s \ {x}) \cap D
        BY <3>5
      <4>2. a[s \cap D] = f[x] + a[(s \ {x}) \cap D]
        BY <1>3, <4>1
      <4>3. f[x] \in Nat /\ f[x] <= h[x]
        BY <3>5
      <4> QED BY <3>3, <3>4, <4>2, <4>3
    <3>6. CASE x \notin D
      <4>1. s \cap D = (s \ {x}) \cap D
        BY <3>6
      <4>2. a[s \cap D] = a[(s \ {x}) \cap D]
        BY <4>1, Zenon
      <4> QED BY <3>3, <3>4, <4>2
    <3> QED BY <3>5, <3>6
  <2>2. a[{} \cap D] <= b[{}]
    <3>1. {} \cap D = {}
      OBVIOUS
    <3> QED BY <1>4, <3>1
  <2>3. m + 1 \in 0 .. Cardinality(E)
    BY <1>0
  <2> QED BY <2>1, <2>2, <2>3
<1> HIDE DEF T
<1>7. \A i \in 0 .. Cardinality(E) : i \in T
  BY <1>0, <1>5, <1>6, InductionUpTo
<1>8. Cardinality(E) \in T /\ E \cap D = D /\ E \in SUBSET E /\ Cardinality(E) <= Cardinality(E)
  BY <1>0, <1>7
<1>9. a[D] <= b[E]
  BY <1>8 DEF T
<1> QED BY <1>0, <1>1, <1>2, <1>9, SumIs

\* One figure set apart.
LEMMA SumWithout ==
    ASSUME NEW D, IsFiniteSet(D), NEW f \in [D -> Int], NEW x \in D
    PROVE  /\ SumFunction(f) = f[x] + SumFunction([y \in D \ {x} |-> f[y]])
           /\ SumFunction(f) \in Int /\ SumFunction([y \in D \ {x} |-> f[y]]) \in Int
<1> DEFINE rest == [y \in D \ {x} |-> f[y]]
<1>1. IsFiniteSet(D \ {x}) /\ rest \in [D \ {x} -> Int]
  BY FS_Subset
<1>2. \A y \in D \ {x} : rest[y] = f[y]
  OBVIOUS
<1> HIDE DEF rest
<1>3. PICK a : IsSum(a, f, D)
  BY SumExists
<1>4. PICK b : IsSum(b, rest, D \ {x})
  BY <1>1, SumExists
<1>5. a[D] = f[x] + a[D \ {x}]
  <2>1. SetsApart(a, f, D)
    BY <1>3, SumSetsApart
  <2> QED BY <2>1 DEF SetsApart
<1>6. a[D \ {x}] = b[D \ {x}]
  <2>1. ASSUME NEW s \in SUBSET (D \ {x}), s # {}
        PROVE  \E y \in s : a[s] = f[y] + a[s \ {y}] /\ b[s] = f[y] + b[s \ {y}]
    <3> DEFINE one == CHOOSE y \in s : TRUE
    <3>1. one \in s /\ one \in D \ {x}
      BY <2>1
    <3>2. a[s] = f[one] + a[s \ {one}] /\ b[s] = rest[one] + b[s \ {one}]
      BY <1>3, <1>4, <2>1 DEF IsSum
    <3> HIDE DEF one
    <3>3. rest[one] = f[one]
      BY <1>2, <3>1
    <3> QED BY <3>1, <3>2, <3>3
  <2>3. a[{}] = 0 /\ b[{}] = 0
    BY <1>3, <1>4 DEF IsSum
  <2>4. \A s \in SUBSET (D \ {x}) : s # {} => \E y \in s :
            a[s] = f[y] + a[s \ {y}] /\ b[s] = f[y] + b[s \ {y}]
    BY <2>1
  <2>5. BothSum(a, b, f, D \ {x})
    BY <2>3, <2>4 DEF BothSum
  <2> QED BY <1>1, <2>5, SumsAgree
<1> QED BY <1>1, <1>3, <1>4, <1>5, <1>6, SumIs DEF rest
----------------------------------------------------------------------------
(* How many members a set has.                                             *)

\* Two sets count as many where the one's members go to the other's, one to one.
GoesTo(g, A, B) ==
    /\ g = [x \in A |-> g[x]]
    /\ \A x \in A : g[x] \in B
    /\ \A x, y \in A : g[x] = g[y] => x = y
    /\ \A b \in B : \E x \in A : g[x] = b

LEMMA SameNumber ==
    ASSUME NEW A, NEW B, IsFiniteSet(A), NEW g, GoesTo(g, A, B)
    PROVE  IsFiniteSet(B) /\ Cardinality(B) = Cardinality(A)
<1>1. g \in [A -> B]
  BY DEF GoesTo
<1>2. g \in Surjection(A, B) /\ g \in Injection(A, B)
  BY <1>1 DEF GoesTo, Surjection, Injection, IsInjective
<1>3. ExistsBijection(A, B)
  BY <1>2 DEF ExistsBijection, Bijection
<1> QED BY <1>3, FS_Bijection

\* The sizes of the parts of a set, by a figure of its members, come to the set's.
LEMMA SizesOfParts ==
    ASSUME NEW D, IsFiniteSet(D), NEW X, IsFiniteSet(X), NEW size, \A x \in X : size[x] \in D,
           NEW f, f = [q \in D |-> Cardinality({ x \in X : size[x] = q })]
    PROVE  SumFunction(f) = Cardinality(X)
<1> DEFINE part(s) == { x \in X : size[x] \in s }
           one(q) == { x \in X : size[x] = q }
<1>0. Cardinality(D) \in Nat
  BY FS_CardinalityType
<1>1. \A s : IsFiniteSet(part(s)) /\ Cardinality(part(s)) \in Nat
  <2> SUFFICES ASSUME NEW s PROVE IsFiniteSet(part(s)) /\ Cardinality(part(s)) \in Nat
    OBVIOUS
  <2>1. part(s) \in SUBSET X
    OBVIOUS
  <2> HIDE DEF part
  <2> QED BY <2>1, FS_Subset, FS_CardinalityType
<1>2. \A q : IsFiniteSet(one(q)) /\ Cardinality(one(q)) \in Nat
  <2> SUFFICES ASSUME NEW q PROVE IsFiniteSet(one(q)) /\ Cardinality(one(q)) \in Nat
    OBVIOUS
  <2>1. one(q) \in SUBSET X
    OBVIOUS
  <2> HIDE DEF one
  <2> QED BY <2>1, FS_Subset, FS_CardinalityType
<1>3. f \in [D -> Int] /\ \A q \in D : f[q] = Cardinality(one(q))
  <2>1. f = [q \in D |-> Cardinality(one(q))]
    OBVIOUS
  <2> HIDE DEF one
  <2> QED BY <1>2, <2>1
<1>4. PICK sum : IsSum(sum, f, D)
  BY <1>3, SumExists
<1>5. /\ sum \in [SUBSET D -> Int] /\ sum[{}] = 0
      /\ \A s \in SUBSET D : \A q \in s : sum[s] = f[q] + sum[s \ {q}]
  <2>1. SetsApart(sum, f, D)
    BY <1>3, <1>4, SumSetsApart
  <2> QED BY <1>4, <2>1 DEF IsSum, SetsApart
<1> DEFINE T == { m \in 0 .. Cardinality(D) : \A s \in SUBSET D : Cardinality(s) <= m =>
                    sum[s] = Cardinality(part(s)) }
<1>6. ASSUME NEW s \in SUBSET D, NEW q \in s
      PROVE  Cardinality(part(s)) = Cardinality(one(q)) + Cardinality(part(s \ {q}))
  <2>1. part(s) = one(q) \cup part(s \ {q}) /\ one(q) \cap part(s \ {q}) = {}
    BY <1>6
  <2>2. IsFiniteSet(one(q)) /\ IsFiniteSet(part(s \ {q}))
    BY <1>1, <1>2
  <2>3. Cardinality(one(q)) \in Nat /\ Cardinality(part(s \ {q})) \in Nat /\ Cardinality({}) = 0
    BY <1>1, <1>2, FS_EmptySet
  <2> HIDE DEF part, one
  <2>4. Cardinality(one(q) \cup part(s \ {q})) = Cardinality(one(q)) + Cardinality(part(s \ {q}))
                                - Cardinality(one(q) \cap part(s \ {q}))
    BY <2>2, FS_Union
  <2>5. Cardinality(part(s)) = Cardinality(one(q) \cup part(s \ {q}))
    BY <2>1, Zenon
  <2>6. Cardinality(one(q) \cap part(s \ {q})) = 0
    BY <2>1, <2>3, Zenon
  <2> QED BY <2>3, <2>4, <2>5, <2>6
<1>7. part({}) = {} /\ Cardinality({}) = 0
  BY FS_EmptySet
<1>8. part(D) = X
  OBVIOUS
<1> HIDE DEF part, one
<1>9. 0 \in T
  <2>1. ASSUME NEW s \in SUBSET D, Cardinality(s) <= 0 PROVE sum[s] = Cardinality(part(s))
    <3>1. s = {}
      BY <2>1, PartWithout
    <3>2. sum[s] = 0 /\ part(s) = {}
      BY <1>5, <1>7, <3>1, Zenon
    <3> QED BY <1>7, <3>2
  <2> QED BY <1>0, <2>1
<1>10. ASSUME NEW m \in 0 .. Cardinality(D) - 1, m \in T PROVE m + 1 \in T
  <2>1. ASSUME NEW s \in SUBSET D, Cardinality(s) <= m + 1, s # {}
        PROVE  sum[s] = Cardinality(part(s))
    <3>1. PICK q \in s : TRUE
      BY <2>1
    <3>2. s \ {q} \in SUBSET D /\ Cardinality(s \ {q}) <= m
      BY <2>1, PartWithout
    <3>3. sum[s \ {q}] = Cardinality(part(s \ {q}))
      BY <1>10, <3>2
    <3>4. sum[s] = f[q] + sum[s \ {q}]
      BY <1>5
    <3>5. f[q] = Cardinality(one(q))
      BY <1>3
    <3>6. Cardinality(part(s)) = Cardinality(one(q)) + Cardinality(part(s \ {q}))
      BY <1>6
    <3> QED BY <3>3, <3>4, <3>5, <3>6
  <2>2. sum[{}] = Cardinality(part({}))
    BY <1>5, <1>7
  <2>3. m + 1 \in 0 .. Cardinality(D)
    BY <1>0
  <2> QED BY <2>1, <2>2, <2>3
<1> HIDE DEF T
<1>11. \A i \in 0 .. Cardinality(D) : i \in T
  BY <1>0, <1>9, <1>10, InductionUpTo
<1>12. Cardinality(D) \in T /\ D \in SUBSET D /\ Cardinality(D) <= Cardinality(D)
  BY <1>0, <1>11
<1>13. sum[D] = Cardinality(part(D))
  BY <1>12 DEF T
<1> QED BY <1>3, <1>4, <1>8, <1>13, SumIs

\* What is left of a set when a part of it is taken away.
LEMMA SizeOfRest ==
    ASSUME NEW A, IsFiniteSet(A), NEW B \in SUBSET A
    PROVE  /\ Cardinality(A) \in Nat /\ Cardinality(B) \in Nat /\ Cardinality(A \ B) \in Nat
           /\ Cardinality(A) - Cardinality(B) = Cardinality(A \ B)
<1>1. IsFiniteSet(B) /\ IsFiniteSet(A \ B)
  BY FS_Subset
<1>2. Cardinality(A) \in Nat /\ Cardinality(B) \in Nat /\ Cardinality(A \ B) \in Nat
  BY <1>1, FS_CardinalityType
<1>3. A \cap B = B
  OBVIOUS
<1>4. Cardinality(A \ B) = Cardinality(A) - Cardinality(A \cap B)
  BY FS_Difference
<1>5. Cardinality(A \cap B) = Cardinality(B)
  BY <1>3, Zenon
<1> QED BY <1>2, <1>4, <1>5

LEMMA MaxOfZeroAnd ==
    ASSUME NEW n \in Nat
    PROVE  Max({0, n}) = n
<1>1. {0, n} \in SUBSET (0 .. n) /\ n \in {0, n}
  OBVIOUS
<1>2. \A x \in {0, n} : x <= Max({0, n}) /\ Max({0, n}) \in 0 .. n
  BY <1>1, MaxOfDates
<1>3. n <= Max({0, n}) /\ Max({0, n}) \in 0 .. n
  BY <1>1, <1>2
<1> QED BY <1>3
================================================================================
